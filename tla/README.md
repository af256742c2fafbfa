# FWCloud-Agent: a TLA+ model of its concurrent core

FWCloud-Agent is an HTTP(S) server that runs on a firewall and does what FWCloud asks of it: it
installs configuration files, runs scripts and plugins, streams their output over WebSockets, and
collects the status of OpenVPN servers. This directory holds a model of the parts of it that are hard
to get right and hard to test: what threads, handlers and processes do to shared files and shared
memory, in every order and with failures at every step. TLC checks the model on small instances; TLAPS
proves the main results for every size.

Paths below are relative to the root of the repository.

## 1. Inventory

| Component | State it keeps | Operations | Hard behaviour |
|---|---|---|---|
| OpenVPN status collector (`src/workers/openvpn_status_collector.rs`) | `last_update` of each status file; cache files in `data_dir`; its pause; its command channel | sample every file, append its rows to the cache, pause, take an update command | runs in a thread of its own against requests; a malformed line panics it; errors midway; restarts |
| OpenVPN routes (`src/routes/openvpn.rs`) with `FilesList` (`src/utils/files_list.rs`) | the cache files, the configuration files | `get_status` (takes the oldest rows out of a cache file), `update_status`, `get_status_rt`, upload, remove, digest | one tokio mutex shared with the collector; the rewriting of a file in several steps |
| WebSocket registry and actors (`src/routes/ws.rs`, `src/utils/ws.rs`) | `ws_map`; per WebSocket: lines, `finished`, `created_at` | open (limit, expiry), poll, close, test | check and insertion under two lockings; expiry during a command; the actor shares a worker with blocking handlers |
| Command runner (`src/utils/cmd.rs`) | the line being read | run a command, push its lines, finish the WebSocket, answer by exit status | which bytes end a line; read errors; the order of the last line and `finished` |
| Plugin and script requests (`src/routes/plugin.rs`, `src/routes/fwcloud_script.rs`, `HttpFiles::fwcloud_script`) | a std mutex and a tokio mutex | run a plugin; receive, install and run the fwcloud script | a std mutex and subprocesses block worker threads; two commands over one WebSocket |
| File uploads (`src/utils/http_files.rs`; routes of openvpn, wireguard, ipsec, daemon) | temporary files, destination directories | receive parts, check, move; remove; digest | an upload may fail at any step; readers of half an upload |
| Authorization, errors, configuration, start (`src/auth.rs`, `src/errors.rs`, `src/config.rs`, `src/lib.rs`, `src/main.rs`) | the configuration, constant after the start | read and validate the environment; start; decide on a request | fallbacks and validation interact; the environment changes under a running agent; which checks come first |
| systemctl, interfaces, iptables-save, info, ping | none | one command or one value | blocks a worker, like any command |
| Plugin scripts (`plugins/`), packaging (`.deb/`) | outside the process | | |

**How they interact.** `Config` owns everything shared: five mutexes for the kinds of files, one for
plugins, and `ws_map`. The collector and the OpenVPN requests meet at `mutex.openvpn` and in the cache
files, and through the channel of update commands. Plugin and script handlers meet the WebSocket actors
in `WsData`, found through `ws_map`. Handlers and actors meet a second time on the worker threads: a
handler that blocks keeps every other task of its worker waiting.

**What makes each component correct.**

- *Status pipeline*: the cache is a FIFO queue. A row that is collected is answered to one client, once,
  in order; failures may lose rows and do nothing else. Rows come only from snapshots written since the
  start. Caches are bounded. The collector catches up, and a request that waits is served.
- *Output*: no text is lost or moved before the output ends; lines end where the command ends them.
- *WebSockets*: the client gets every line before the connection is closed; an actor nobody can reach any
  more has been told to finish; the number of entries is bounded; handlers and workers do not deadlock.
- *Streams*: what a client of a WebSocket sees is a stream: the lines pushed, once and in order, then the end.
- *Files*: an upload that succeeds has installed all of its files; one that is refused has changed none; one that
  ends halfway, by an error or with the agent, leaves at most one file half done; digests do not mix two states of a
  directory; temporary files do not pile up.
- *Service*: a request is served exactly if the settings the agent was started with allow it; a started agent
  has its numbers from those settings, in their ranges.

The hazards at their lines are in `PROJECT.json`.

## 2. Modules

| Module | What it is |
|---|---|
| `StatusQueue` | abstract: the FIFO queue of rows, lossless or lossy |
| `OpenVPNStatus` | collector, OpenVPN requests, mutex, cache files, failures and restarts |
| `MCOpenVPNStatus` | what OpenVPN may write in each instance; symmetry |
| `SequenceLemmas` | facts about `SubSeq`, `\o` and least numbers that the proofs cite |
| `OpenVPNStatus_proofs` | types, inductive invariant, bound of the caches, the queue of the mutex |
| `OpenVPNStatus_refinement` | `OpenVPNStatus` implements `StatusQueue` |
| `OpenVPNStatus_order` | which snapshots rows come from, and the order they are handed out in |
| `CmdOutput` | how `run_cmd_ws` splits output into lines |
| `CmdOutput_proofs` | types, no text lost, the lines pushed are those of the output |
| `WebSockets`, `MCWebSockets` | WebSockets, the requests that run commands, and the workers both share |
| `WebSockets_proofs` | types, bound of the map, no deadlock, actors told to finish; each WebSocket implements `OutputStream`; what the client of one request gets |
| `OutputStream` | abstract: the stream of lines a client gets |
| `ManagedFiles`, `MCManagedFiles` | uploads, removals and digests of several kinds of service |
| `ManagedFiles_proofs` | types, what an upload installs, changes or leaves, what digests are of |
| `Agent`, `MCAgent` | the service: settings, start and stop, authorization, one-shot requests |
| `Agent_proofs` | types, who is served and who is refused, the numbers in force |

### OpenVPNStatus

`status[f]` is the file OpenVPN writes; `cache[f]` and `cacheTmp[f]` are the cache file and the `.tmp`
companion `head_remove` makes. `holder` and `waiters` are the tokio mutex with its fair queue. `pc`,
`cur`, `sample`, `line` are where the collector is; `pauseLeft` and `commands` its pause and its channel.
Each request has a `reqPc`. `answered` and `bootTs` are history.

The steps are as fine as what another actor, or a crash, can tell apart: one row appended; the split of the
cache; its truncation by `fs::copy`; each row copied back; the answer. A row is written in one step: a
line that a crash cuts in two is not told apart from one that is lost. A row is identified by the
"Updated" time of its snapshot and its place in it; sizes are counted in rows, so a byte limit is a
row limit. "Updated" times do not go back. `PassThrough` stands for the requests that take the mutex and
leave the caches alone: removals and digests, which clients send for other directories than `data_dir`,
and status requests that are refused or find nothing. An upload holds the mutex for as long as its client
likes.

OpenVPN writes without the mutex, and may leave a snapshot half written (`OpenVPNWrite` with the same
time). A head or a row that is too short panics the collector (`Panic`): Rust drops the guard of the mutex
and the receiving end of the channel, so the mutex passes on and `update_status` fails from then on. An
unreadable row is an error that ends the file and not the sampling (`RowError`). `Crash` is the kill and
restart of the process: memory goes, files stay.

### CmdOutput

One action for each way through the loop of `run_cmd_ws`. `NothingLost` compares the text of the lines with the text of
the bytes read; `LinesOfOutputPushed` says which lines an output has by the places of its bytes (`LineEnds`,
`LineStarts`) without following the loop. The code pushes those lines unless some line feed comes after a carriage return
with only text between (`LateLineFeed`): `LinesSplit` holds, and `LinesOfOutputPushed` alone does not.

### WebSockets

`wsPc[i]` follows the request that opens a WebSocket, and then its actor. `CheckLimit` and `Insert` are the
two lockings of `ws_map`. `cmdPc[c]` follows a handler: `lock`, `upload` (scripts), `run`, `exit`, `load`
(scripts, between the two commands), `remove`, `done`. A mutex is held exactly while the handler is in
the scope of its guard, so `Holds` is defined from `cmdPc`. `Blocks` and `FreeWorker` say when a worker
runs nothing else: while a handler runs a command or waits for the *std* mutex of the plugins, but not
while it waits for the *tokio* mutex of the scripts or for the body of an upload. Actors poll only on free
workers. Every request is for one run of it; the bound on concurrency is the number of requests.

`StreamSpec` says that every WebSocket is an `OutputStream`: `pushed` is what has been delivered followed by
what still waits in `lines`, `told` is `finished`, and the states of the opening request and the actor map to
`new`, `open`, `closed` and `lost`. The lines may come from two requests that name one WebSocket, and
from a request whose WebSocket has expired.

### ManagedFiles

The uploads, removals and digests of several kinds of service (`Kind[r]`), each kind with its tokio mutex: requests
of one kind exclude each other, those of two kinds do not, and may name the same directory. A client sends
any parts in any order; `Fail` is any of the errors a client or the file system can cause at that point,
the loss of the client included. `FileAborted` is the end of an upload in the middle of a file. `Forget` and
`DropFiles` are what goes when `HttpFiles` is dropped; `Kill` is the end of the process, in which nothing is
dropped. `Creates` and `Single` are the arguments by which the kinds differ (`create_dst_dir`,
`expected_files`); a kind in `Single` is the fwcloud script.

Where a file goes is fixed when its part begins: `dst_dir` sent again, which is joined to the first, counts for the
files after it. `fs::copy` is two steps, a file partly written and a file whole; the removal of the temporary
file and `set_permissions` follow as steps of their own. Two copies to one path, or a removal
during a copy, are possible between kinds: `torn` remembers which copies have been meddled with, and those end with
a file of one, of the other, half written or missing, as the operating system has it. The properties are about
directories of which only the requests of one kind change files (`OwnDirs`); the requests of other kinds go on
beside them.

### Agent

The environment `env` changes at any time (`Edit`); `read` is the environment of the start, `cfg` the `Config`
made of it. A setting is what the code tells apart: a number is itself or what does not parse; `ALLOWED_IPS` is the
sequence of addresses, spaces and other text it is written with, because its regular expression lets addresses touch
and the split at spaces then makes one entry of two. `ReadConfig` is `Config::new` with its fallbacks, its validation
of everything, the split, and the minimum of workers *after* the validation; `BindTo` and `Run` follow, each of which
may end the process. `Authorize` is the middleware in its order: key needed, key there, key visible ASCII (a
panic otherwise: the connection ends without an answer), key right, list empty, address known, address in the
list. `Handle` and `CommandEnds` are the handlers of ping, info, interfaces, iptables-save and systemctl; the
handlers of the other requests are in the other modules, which start behind this one.

`Allowed` states what the settings mean without following `Load` or `Authorize`: it reads the texts. So
`OnlyAllowedServed` and `RefusedOnlyOthers` compare the parsing, the fallbacks, the split and the middleware together
with it, over edits and restarts.

## 3. Runs

| Run | Question | Instance | Outcome |
|---|---|---|---|
| `status_core` | Is the pipeline a queue when nothing fails? | 1 file, 2 requests, 1 upload, 3 times, 2 rows a snapshot, an answer of 1 row | `TypeOK`, `RowsInOrder`, `QueueSpec` hold |
| `status_faults` | What do failures, panics and restarts do? | 1 file, 2 requests, all failures but one midway in a sampling | `Inv`, `RowsInOrder`, `CacheBound`, `MutexQueue`, `QueueSpec` (lossy), `OnlyFreshRows` hold |
| `status_live` | Does the collector catch up, are requests served, are update commands taken? | 2 files, 1 request, 1 upload, 1 update command | `CatchesUp`, `RequestsServed`, `UpdatesTaken` hold |
| `status_doc_once` | A statement of a comment | 1 file, 1 request | violated |
| `cmd_output` | Where do lines end? | every output of up to 6 bytes over 4 | `NothingLost`, `LinesSplit` hold |
| `cmd_doc_lines` | The comment on line feeds | the same | violated |
| `ws_core` | What does a client get? | 2 WebSockets for 1 place, a test request, a script, 2 workers, 2 lines | `StreamSpec`, `StreamComplete`, `OrphansFinished`, `FinishedBeforeExit` hold |
| `ws_limit` | How far is the limit exceeded, and is what leaves the map closed? | 3 WebSockets for 1 place, a plugin, 2 workers | `MapBound`, `CheckedBound`, `StreamsClose` hold |
| `ws_live` | Do workers and mutexes deadlock? | 2 scripts and a test request, 2 workers, 1 WebSocket | `NoDeadlock`, `CommandsEnd`, `StreamsClose` hold |
| `files_core` | Do uploads install whole, do readers see whole, what is left halfway? | an upload, a removal and a digest of one kind, an upload of another, 2 names, 2 files an upload, a directory and a joined one | all hold |
| `files_doc_tmp` | The comment on `Drop` | 1 upload of the fwcloud script | violated |
| `agent_core` | Who is served, by which settings? | 1 request, 2 addresses, 2 keys, 8 lists, 6 texts for a number, 2 edits | `OnlyAllowedServed`, `RefusedOnlyOthers`, `ConfigInForce` hold |

**Why the bounds are enough.** The status pipeline needs two rows in a snapshot for an error between rows,
an answer shorter than the cache so that a request leaves rows behind, a third time so that a snapshot
follows one that was collected (the first only sets `last_update`), and two requests so that one waits for
the other. The limit of the cache is below a snapshot, so that the bound is met. Two files in `status_live` are
there for one to break the sampling of the other. `ws_limit` has one WebSocket more than its bound of two.
`ws_live` has two scripts for one to wait on the worker of the other, which is the case a blocking mutex would
deadlock. `ws_core` has two requests of different kinds on two WebSockets, which may name the same one, and two lines for a
script to print one with each of its commands; with three sockets, `ws_limit` has expiry remove a WebSocket whose request
still runs, and adds the plugin request, whose handler blocks its worker. `status_live` has one update command, which meets
a pause, a sampling, a wait for the mutex or a panic. `files_core` has one kind with two requests that write and one that
reads, and one request of another kind beside them; its directory sent twice gives the joined one. In `agent_core`, two
edits make the key, the list or the flag wrong in two ways at once, and allow one before the start and one after it; the
lists have addresses first, last, alone, touching, with one space, with two, and with other text; the numbers are missing,
no number, zero, one, in range, and out of it. `UsizeMax` is less than the real one, and greater than every number used: a
larger number does not parse, like a text. Decisions on requests share nothing but `cfg`, so one request is enough. Six bytes hold each sequence of carriage return, line feed and text that the loop tells apart, and one
after it.

In `status_faults` the failures in the middle of a sampling (`append`, and a row that is not valid
UTF-8) are left out, because with them `RowsInOrder` is false: that is what `status_doc_once` shows.

`WebSockets` lets the reading of any command fail (`ReadError`), in every run. After such an error nobody
finishes the WebSocket, and a plugin request that then ends well removes it from the map: its actor goes on, and
no step of the code can close it. `broken` remembers the requests this has happened to, and
`OrphansFinished` and `StreamsClose` except the WebSockets those requests name, and no others.

`CHECK_DEADLOCK FALSE` is set where requests are finite in number and everything may be over; the status pipeline never stops and is checked for deadlock.

**Fairness.** `WF(CollectorNext)`: the collector is a thread, and the operating system runs it.
`WF(Serve(r))`: a status request does not wait for anybody once it has the mutex, and the mutex is fair (its
queue is part of the model). In `WebSockets`, `WF` on what each handler does next and on each actor's
poll: workers run their tasks whenever they are free. This assumes that commands end and that clients
finish their uploads; the code has no timeout for either. Nothing is assumed of OpenVPN, of what clients ask, or
of failures. `CatchesUp`, `RequestsServed` and `UpdatesTaken` are under `UploadsEnd`, because an upload may keep the
OpenVPN mutex for ever; `CatchesUp` further asks that the collector is alive, that the file is well formed for good and
that clients do not let the cache stay full.

## 4. What the violations show

- `status_doc_once`: a sampling that fails midway is repeated from the start, and rows are reported twice.
- `cmd_doc_lines`: in `...\rtext\n...` the line feed is skipped, and `text` is joined to the next line.
- `files_doc_tmp`: a file that is being received when its upload fails is left in the temporary directory.

Three statements of the documents differ from the code in a way that needs no run to see; the models follow the code:

- `.deb/fwcloud-agent.1:116` calls `OPENVPN_STATUS_CACHE_MAX_SIZE` the "Maximum size in bytes for the OpenVPN status cache
  files". The size is compared before a snapshot is appended, so a cache exceeds it by up to one snapshot (`CacheBounded`
  proves: by no more).
- `.deb/fwcloud-agent.1:77` says of `WORKERS` "If not set, as many threads as CPU cores will be started." The code starts 5,
  and never fewer than 2 (`Load`).
- `.deb/fwcloud-agent.1:83` says of `ALLOWED_IPS` that it lists the addresses from which requests are allowed. The list is
  looked at only where an API key is needed (`Authorize`, and the first disjunct of `Allowed`).

Other behaviour that a reader of the code may not expect, which the models follow and no document
contradicts:

- `head_remove` does not flush its `BufWriter` itself, so a failing last write loses rows without an error.
- A sample without a readable "Updated" line makes the collector skip the next new snapshot too.
- Output after the last line end is not pushed.
- The limit of WebSockets is exceeded by up to one less than the number of workers (`MapBounded` proves: by no
  more), and WebSockets that are closed count for it until they expire.
- The actor of a WebSocket may share the worker of the command that feeds it, and then sends nothing until the
  command ends, however many workers there are.

## 5. Proofs

TLAPS checks each proof; they hold for all values of the constants that the named assumptions of the modules
admit.

**Status pipeline** (`OpenVPNStatus_proofs`). `CacheBound` is not inductive: a request that copies the rest of the
cache back appends to the cache too, and only because the companion file is a rest of the cache before does
that stay within the bound; the collector appends row by row, and only the check at its start and the line it is on
bound that. `Inv` adds what is missing:

1. `Exclusion`: whoever samples or rewrites a cache holds the mutex, so at most one does;
2. `RowsBound`: while it samples, the collector has added less than `line` rows to a cache that was not over its limit;
3. `SplitOK`: between split and truncation, the request has the first rows and the companion is the rest (or a
   prefix of the rest, when the flush may fail);
4. `CopyOK`: during the copy, the cache is a prefix of the companion.

`Invariant` shows `Inv` inductive, one step per action; the mutex adds that a waiter or
holder is where its request says it is (`LockOK`, local to the proof).

`MutexQueue` says that the mutex is lost to nobody: whoever wants it, by where it is in its request or its cycle
(`Wants`), holds it or has its one place in the queue (`Awaits`), and nobody else does. It is the part of `RequestsServed`
that is not liveness, and is inductive with `Exclusion`, which tells who releases the mutex at a panic, at the end of a
sampling or after a failed copy. What asking, releasing and giving up do to the queue are three lemmas (`AcquireQueue`,
`ReleaseQueue`, `ForgetQueue`); each step of the pipeline is one of them or leaves the queue alone. A request given up
just as it is handed the mutex passes it on, and a waiter that leaves keeps the others in their order (`Removed`).

**Refinement** (`OpenVPNStatus_refinement`). `Pending` maps a state to the queue: the cache, except
while a request copies, when it is what the request has taken followed by the companion. So the rows a request
takes stay in the queue until its answer, and truncating and copying are stuttering steps. `AppendRow` is `Collect`,
`AnswerStatus` is `Answer`; a failed copy, a failed flush (at the truncation) and a crash in the copy are `Lose`. That a
suffix lost by the flush and a prefix lost by the answer still leave *one run* of rows is what `SequenceLemmas` is for.

**Order of the rows** (`OpenVPNStatus_order`). `NextRows` of the refinement says that rows come by `AppendRow` only, and that
every other step leaves what is pending, hands out its head or forgets all but one run of it. `Times` relates the clocks: the
collector's time of a file is not newer than the file, is none or not older than the start, and is earlier than the
snapshot being sampled; `RowsAreFresh` follows, whatever fails. `RowsKeptInOrder` needs `Before` beside it: all rows
of a file are earlier than the row the collector is on, and not newer than its time of the file when it is elsewhere
(`StillBefore`), so that a row appended is the last in order; a time that is reset to none cannot break it, for it
makes the next snapshot a first one. Forgetting rows keeps the order of the others (`PlacesKept`), and handing them out
moves them from one sequence to the next (`HandedOut`). It is proved under `WholeSamplings`: no append fails and no line is
invalid UTF-8. Without it the property is false (`status_doc_once`).

**WebSockets** (`WebSockets_proofs`). `MapBound` is not inductive: it says nothing of WebSockets checked and not yet
added. `CheckedBound` counts them. `Insert` moves one from the second count to the first; `CheckLimit` finds the
first below the limit, and the second is at most the number of workers, because a worker that has checked is not free
until it has added (an injection into the workers). `OrphansToldToFinish` needs `FinishedBeforeExit`: the last
command of a request finishes the WebSocket before the request can come to its removal, or its reading has failed and
`broken` says so; the two are inductive only together (`ToldFirst`).
`NoDeadlock` is the part of `CommandsEnd` that is not liveness: no set of requests is such that each of them waits for
one of the set, for a mutex or for a worker (`WaitsFor`). A request waits only for requests nearer to their end
(`Distance`, `WaitsForNearer`): one not read yet for any that blocks its worker; a script that waits for its mutex for one
that has it, which may be uploading, or for one that blocks its worker; one that uploads for one that blocks its worker;
a plugin that waits, and blocks, only for one that runs a command. It holds in every state of the right types, so it
rests on the kind of each mutex and on where handlers yield, and on nothing that has to be kept up.

**Stream** (`WebSockets_proofs`). `ImplementsStream` shows that every step is, for each WebSocket, a step of
`OutputStream` or leaves it alone. `PrintLine` is `Push`; `EndOutput` and the removal by expiry are `Finish`; `Poll` is
`Deliver`, and the sequence pushed does not change because what moves from `lines` to `delivered` was its rest
(`LongerConcat`). It rests on the types, and on the fact that a request names a WebSocket whose client has been told its
id (`NamedTold`): nothing is pushed to a stream that is not open yet.
`StreamsComplete` follows from `OneUser`: a WebSocket nobody has named has no lines and is not finished unless it has
expired (`Unused`); one that a single request has named has been pushed exactly what that request has printed, and if it
is finished the request has ended its last command (`UsedBy`), so that nothing is pushed after it is closed.

**Output** (`CmdOutput_proofs`). The text of an output and the text of the lines are sequences concatenated by
`FlattenSeq`, a recursive function. What it returns for one sequence more (`FlattenAppend`) is proved from its definition:
that the function exists (`FlatExists`), has sequences as values (`FlatType`) and does not depend on what follows
(`FlatSame`), each by a least counterexample (`LeastOf`), which needs no induction rule. Then `NothingLost` is inductive.
`LinesSplit` is not: it needs `LineRead`, the line being read is the text since the last line end, and `CrRemembered`,
`previous_char_is_cr` is true exactly if the last byte that is no text is a carriage return. A line feed that is skipped
then either follows that carriage return at once, and ends no line, or is a late one, and stays one (`LateForEver`). A byte
read changes neither the ends, nor the starts, nor the texts of the lines before it (`LineEndsKept`, `LineStartsKept`,
`PartsKept`), and ends one more line or none (`LineEnded`, `NoLineEnded`).

**Files** (`ManagedFiles_proofs`). `Typed` adds to the types what they rest on: how many files an upload has begun, received
and moved at each point (`Counted`). Then, each inductive with `Typed`:

1. `TmpBound`: which temporary files of an upload there may be where; one beyond its list only while it is received, or
   after an error there, or after a kill. `OneLeftover` follows.
2. `Unwritten`: an upload has written nothing before its checks, and its permissions are good after them; so
   `RefusedChangesNothing`. An upload makes no file another's (`UploadWrites`).
3. `Exclusion`: no two requests of a kind run. With it, nobody else changes a file of the directories that are a running
   request's own (`Undisturbed`), and directories that are its own now were its own before (`StillOwn`, because the
   lists of uploads only grow); so `DigestsAgree`.
4. `Leaves`: an upload that has its directories for itself is never meddled with (`NotTorn`); its files are as asked for,
   but for the one being moved (`AsAsked`); while it moves them, each name holds the last of its parts moved so far
   (`InPlace`). `HalfDone` follows from `AsAsked`, and `UploadInstalls` from both.

**Service** (`Agent_proofs`). `OnlyAllowedServed` and `RefusedOnlyOthers` are inductive only with what ties them to the
start (`Agreed`): `ConfigLoaded`, a started agent has the validated settings of `read`; `InFlight`, requests on their way
are of a running agent, so that no new start changes the settings under a decision. `Decision` is the core: for every
request, the three tests of the middleware on `Load(read)` say the same as `Allowed(read, q)`. For that, an address is
an entry of the split list exactly if it stands between spaces (`EntryIsNamed`), and a list that is well formed and not
empty has an entry (`ListHasEntry`, by a least end of its first entry), so that a list is never taken for none.

**Only model-checked.** Liveness, which is out of the prover's reach: `CatchesUp`, `RequestsServed`, `UpdatesTaken`,
`CommandsEnd` and `StreamsClose`. `RowsInOrder` is proved under `WholeSamplings`, as `status_faults` checks it. Every other
property of a run that passes is the statement of a theorem.

## 6. Not modelled

`get_status_rt` reads a status file without the mutex and keeps nothing. TLS (`ENABLE_SSL` chooses the transport and
nothing else here depends on it), HTTP and multipart parsing, logging, formats of dates and rows, octal permissions and
the hashing of files are data the properties do not tell apart. Of the regular expressions, the one for lists of
addresses is modelled by what it accepts, and the others as accepted or not. For directories that requests of
two kinds change at once, the code promises nothing and no property speaks of them. The pings of WebSockets change no
state. Plugin scripts are commands that print and exit. The packaging is outside the process: what it does to it, the
first `.env` file, stops, kills and restarts, is in `Agent`, `OpenVPNStatus` and `ManagedFiles`. Two status files that
share a cache name, because '/' and '_' are not told apart in it, are not modelled.

## 7. Plan

1. *Done*: `StatusQueue`, `OpenVPNStatus` with its proofs and refinement; `CmdOutput` with its proofs; `OutputStream` and `WebSockets` with
   its bound and its refinement; `ManagedFiles` with kinds, kills and proofs; `Agent` with its proofs.
2. *Extend*: two status files with one cache name; torn reads of `get_status_rt`.

`tlc -config <run>.cfg <module>.tla` repeats a run, `tlapm <module>.tla` a proof.

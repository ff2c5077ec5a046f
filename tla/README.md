# Verification of the cloud/edge DASH simulation

TLA+ models of the parts of this ns-3 fork that are the project's own: the DASH
client, the servers and the cache it talks to, the control plane that moves users
from the cloud to edge servers, and the program that runs the tests. TLC checks
them on small instances; TLAPS proves their safety invariants, and the two
refinements, for every instance (for the client and the cache under the
hypotheses named in [Proofs](#proofs)).

## The system

Almost all of the repository is upstream ns-3. The project's own logic is in
`src/src/applications/model` and `src/scratch`; most of its Python is generated
bindings, except `test.py`:

| component | state | operations | talks to |
|---|---|---|---|
| link monitor (`monitoring.cc`) | bytes per link in a 2 s window | `RateCallback` per packet, `BandwidthEstimator` per window | calls the controller for each congested link |
| user groups (`bigtable.cc`, `group-user.h`) | groups by access network and video | `AddUserInGroup` when a client starts | reads the server table |
| controller (`ctrl-main.cc`) | none of its own | `ILPSolution`, `QoSGreedy`, `DoRedirectUsers` | external solver script; edge servers; server table |
| edge server (`edge-dash-fake-server.cc`) | bound videos, counter and capacity, file table, accepted sockets | `hasVideo`, `VideoAssignment`, `AddVideo`, accept/finish, `ReportStats` | controller, clients |
| HTTP client (`http-client-dash.cc`) | socket, host, peer address, flags and counters of the request under way | connect, GET, read, close, retry | server table before every GET; TCP callbacks |
| multimedia consumer (`http-multimedia-consumer.cc`) | player, segment under way, two timers | MPD, download loop, play loop, stop | is the HTTP client's subclass; libdash player (external) |
| server end of a connection (`http-server-fake-*clientsocket.cc`) | request string, bytes to transmit, keep-alive | receive, transmit, close | TCP callbacks |
| cloud server (`dash-fake-server.cc`) | as the edge server, without placement | accept/finish, report | clients |
| cache proxy (`dash-fake-cache-server.cc`, `dash-fake-virtual-clientsocket.cc`) | two connections per client, file table | fetch and forward | clients, origin |
| test runner (`test.py`) | two queues, worker threads, `thread_exit`, counters, results file | dispatch, run, collect, join, signal | processes of the tests |
| routing (`network-topology.h`, `network-graph.h`, `path.h`) | graph, path cursors | path search | no compiled program |
| legacy controller (`ctrl-dash-main.h`) | paths, groups | bottom-up redirection | no compiled program |

What is hard: in the simulation everything runs in callbacks of a discrete-event simulator, so
there are no data races, but the order of events is open. The client's request
state belongs to the application while callbacks come from old and new sockets;
the server table changes between any two requests; connections fail, and timers
and retries outlive what they act on; the play loop and the download loop share
a bounded buffer; the controller applies an answer of unknown quality line by
line to servers of bounded capacity; servers delete the object behind a socket
by a timer while TCP still knows it; the cache's clients share one map of sizes,
filled from counters of unfinished transfers. `test.py` has real threads, and a
signal handler that speaks to them through a global variable.

What makes it correct: groups, table and stores agree; the table never leads to
a server without the video; capacity holds; files, segments and connections are
not mixed up; redirects are followed; every segment is played, in order, once;
an object lives as long as its connection and not much longer; the cache knows a
file by its true size; the test runner reports success only for tests that ran.

## Modules

| module | models |
|---|---|
| `EdgeController` | monitor, groups, controller, placement part of the edge servers |
| `Placement` | abstract promise: keys are routed to the origin or to a node that stores the video, within capacity, nothing is dropped |
| `EdgeControllerProofs` | theorems about `EdgeController` |
| `DashClient` | one client (HTTP client and consumer), its TCP connections and the server's end of each |
| `DashClientProofs` | theorems about `DashClient`: types, timers, the stages of a request |
| `DashClientFaultProofs` | theorems about `DashClient` with failing connections and stops |
| `ServerRegistry` | connections of an edge or cloud server, the objects that serve them, TCP's callbacks, `ReportStats` |
| `ServerRegistryProofs` | theorems about `ServerRegistry` |
| `CacheProxy` | the caching proxy: users' and origin's connections, map of sizes |
| `CacheProxyProofs` | theorems about `CacheProxy` |
| `TestRunner` | `test.py`: main thread, workers, queues, signal |
| `TestReport` | abstract promise: one outcome per job, and the exit code that follows from them |
| `TestRunnerProofs` | theorems about `TestRunner` |
| `MCEdgeController`, `MCDashClient`, `MCCacheProxy`, `MCTestRunner` | instances for TLC |

Definitions keep the names of the C++ functions they stand for; those called
a "faulty variant" in a comment are bugs the properties are shown to catch, and
no specification uses them.

### EdgeController

One client event (`AddUserInGroup`, `RateCallback`) is one action. The monitor's
walk is one event in the simulator; it is cut into one step per link (`ScanLink`)
and one per line of the solver's answer (`RedirectToHolder`, `AssignAndRedirect`,
`SkipLine`, `LineNamesCloud`), and other events wait until it is over
(`pc = "idle"`). The solver is external: a line may pair any group with any node
of `SolverNodes`. If it names the cloud's node, whose first application is not an
edge server, the code dereferences a null pointer (`pc = "crashed"`). Loads are
small numbers instead of Mbit/s; a video is one value, its segments are present
or not. The `getchar()` in `ILPSolution` (it waits for the operator) and the
output of `StoreFile` are left out.

The refinement mapping to `Placement`: `where` is the server table, `stored[n]`
the set of videos bound to `n`.

### DashClient

Callbacks call each other synchronously, so each C++ function is an operator on
the client's state and each action is one simulator event: a timer, a packet, the
controller's write to the table. `http` holds the members of
`HttpClientDashApplication`, `player` those of `MultimediaConsumer` and the
playback buffer, `conn[k]` the k-th connection with both ends.

A response is a header unit and `Parts` body units; the network delivers any
prefix of what is under way as one packet. A server hands `TxUnits` units to TCP
at a time. `acked` is an ACK on its way to the server, which runs the server's
send callback. Data lost is retransmitted by TCP and so only late; what a loss
changes is the order of the client's FIN, the ACKs before it and the server's
FIN (`Lossless`). Time is left out: any scheduled event may be next.

With `Faulty`, the client's SYNs may run out, or one may be answered by a RST
(`ConnectGivenUp`). TCP does not call `ConnectionFailed` then: it reports a normal
close, the client's `ConnectionClosedNormal` closes a socket that is still in
SYN_SENT, which TCP resets and reports as an error, and `ConnectionClosedError`
schedules `TryEstablishConnection`. If a request already waits for the handshake,
the `Close` is only noted (`"synfin"`) and no error follows. The retransmissions of
a request may run out too, on an open connection and on one the client has closed
(`RetransmitExhausted`). The retransmissions of the server are assumed not to run
out here; `ServerRegistry` has that.

External are the libdash player and adaptation logic (next segment, an idle turn,
or the end) and which servers have the video (`Holders`), an MPD without a usable
base URL (`BadMpd`), which leaves the client as it was, or one without adaptation
sets (`EmptyMpd`), which is given up after the peer has been set. If
the MPD names an init segment (`InitMpd`; the fake servers' MPDs never do), the
code schedules an event that only logs, and nothing is downloaded.
`m_hasStartedPlaying` is never initialised, so `Init` leaves it open. The file
`UsersConnection`, a copy of each client's host for other tools, the agent socket
(no caller) and `TraceNotDownloadedSegments` (off by default) are left out.

### ServerRegistry

`sock[k]` is the server's end of connection `k`: its TCP state, its id in
`m_activeSockets`, whether TCP has reported the close, whether the send and
receive callbacks are set. `activeClients` is the domain of `m_activeClients`,
that is, the objects that are alive; `finish[i]` counts the `DoFinishSocket`
events scheduled for id `i`. Every event of a socket goes through `SocketEvent`,
which notes in `dangling` whether a callback or the State trace was run on a
deleted object. The TCP transitions are those of `tcp-socket-base.cc` that end
in the application: an exhausted retransmission reports an error whether or not
a close was reported before, which is why an id can have two finish events.
`kind` says whether the application is the edge's or the cloud's: the files are
the same but for when reporting starts. 2 MSL (240 s) are longer than the 1 s of
the finish event, the one place where the model uses time (`TimeWaitOver`). The
payload of requests and replies is left out, `DashClient` has it.

### CacheProxy

One `DashFakeVirtualClientSocket` per user: `proxy[c]` has its members,
`origin[c]` its connection to the origin, `user[c]` the user's end. A hit is
answered from the map of sizes with made-up payload, a miss is forwarded; when
the bytes counted equal the length announced, the size is stored and the reply
made up. What does not fit the user's send buffer is never sent: no send
callback is set. A file larger than the buffer is part of the instance and stays
truncated. A connection to the origin may fail (`ConnectionFailed`) or break
(`ConnectionBroken`); the proxy has set no close callback and never hears of it.
`requested_content_length` is uninitialised, so `Init` leaves it open.
The scratch buffer `_tmpbuffer` is left out. After a hit it points into storage of
`m_bytesToTransmit`, where later packets are copied to; the model assumes that
this storage is large enough and still allocated.

### TestRunner

Each access to a queue or to `thread_exit` is a step of its own, so the signal
(`Interrupt`) may come between any two. A process ends with code 0, 1, 2 or
another and leaves a results file that is complete, cut off, empty or missing
(`FilesOf`, from `TestRunnerImpl::Run`: it does not look whether the file could be
opened, leaves it unflushed when it stops at the first failure, and can die at
any point; a write error after a successful open is not modelled). Code 2 is
valgrind's, in place of any other. Output that cannot be decoded makes the code
1. `job[j].returncode` begins as `False`, which equals 0. A suite whose file is
missing makes `open` raise in the main thread; a `Popen` that raises ends its
worker. The refinement mapping to `TestReport`: a job is pending until the main
thread has taken it from the output queue, then it has its status, or
"interrupted" if it was handed back unrun.

## Runs

| run | shows | bounds |
|---|---|---|
| `controller` | types, `GroupsUnique`, `UserCountedOnce`, `TableAgrees`, `CapacityRespected`, `RedirectedToHolder`, `NoEviction`, refinement of `Placement`, `CongestionSolved` | 4 users, 2 networks, 2 videos (one unreadable), 2 edge servers of different capacity, 2 links, 2 lines per answer |
| `client` | types, `ReceivedIsRequested`, `PlaybackInOrder`, `NoDownloadMeanwhile`, `OneRequestAtATime`, with a 404 server, an unusable MPD, an empty MPD, an MPD with an init segment, redirects at any time, lost packets, SYNs and retransmissions that run out, retries, stop | 4 segments, 5 servers, 2 redirects, 4 connections, 3 units per response, buffer of 2 |
| `client_live` | `KeptAliveToHost`, `AllPlayed`, `RedirectFollowed` | 3 segments, 3 servers, 2 redirects, 3 connections, lossless |
| `client_layered` | `TimersNeedPlayer` with aborted downloads and stop | 2 segments, 1 redirect |
| `server_registry` | types, `OpenKeepsObject`, `DataCallbacksAlive`, `FinishOnlyClosed`, `BytesReportedOnce`, `CountedIsReported`, `ClosedIsFinished` | 2 connections, 2 videos (chains), 2 packets |
| `cache_proxy` | types, `SizesRight`, `ReplyIsOfFile`, `AskedIsAnswered` | 2 users, 3 requests each, origin connections that fail or break, 4 files: the imported MPD, a small one, one larger than the send buffer, a missing one |
| `test_runner` | types, `SuccessMeansPassed`, `JobAtOnePlace`, `ResultsAgree`, `BreaksLast`, `RunnerEnds`, refinement of `TestReport` | 3 workers; a suite, an example, a skipped suite |

The bounds are the smallest at which the interesting cases occur: a response
that does not fit the server's send buffer (`Parts + 1 > TxUnits`), a playback
buffer that fills up (`BufferCap < NumSegments`), a redirect back and forth, a
server whose capacity is exceeded, a user that joins a group already redirected; a
finish event of one connection while another is accepted, open or closing; two
users that miss and hit the same file, after another and after a 404; a signal
that finds one job running, one just taken and one still queued.
Where a run switches deadlock checking off, the system really stops: after the
last segment, after a crash, when the retry after a fault has found the dead socket
and opened nothing, when a server has answered with a 404, when nobody asks any
more, when `main` has returned.

Five runs show a disagreement between the code and its own comments or messages:

| run | what happens |
|---|---|
| `lost_redirect` | a redirect before the MPD request is sent is undone when the MPD arrives: `SetRemote` with the base URL's host, `m_hostName` unchanged |
| `broken_socket` | "Trying to open it again..." opens nothing: `m_socket` still holds the dead socket |
| `lost_request` | after a redirect, with an ACK or FIN lost, the ACK of the client's own FIN makes `OnReadySend` send the new GET on the old, closed socket |
| `null_buffer` | "abort download" of layered content frees the receive buffer and keeps the connection; the 1 ms wait against things "coming in late" does not help: the rest of the response is copied to a null pointer |
| `dangling_callback` | "make sure the callbacks are no longer active" clears two of them: the close callbacks and the State trace run on the object `DoFinishSocket` has deleted |

`client_live` assumes `Lossless` and late redirects (`EarlyRedirect = FALSE`), and
`lost_request` shows why the first is needed, `lost_redirect` the second. Note that redirects happen when
links are congested, which is when packets are lost.

Further observations from the models, without a run of their own:

* a stop while the client is connecting counts as an error, and the retry opens a
  connection for the stopped application (`StopApplication`, `Retry`);
* after such a stop, the reply on that connection is copied to the freed buffer
  (`NeverNullBuffer` fails with `MayStop = TRUE` also without layered content);
* the callbacks `ConnectionFailed` of the client and of the proxy are never called:
  this TCP reports a connect that fails as a close;
* a client that gets a 404 waits for ever: the reply has no length that could be
  reached, so no other file is mistaken for the missing one either;
* the retry after a fault, or after such an abort while connecting, resets
  `m_getRequestSent` of a request already made; the next event of any socket makes
  it anew, with the table's entry of that moment, and if it is the same as the
  entry before, the client believes in a connection that leads elsewhere
  (`KeptAliveToHost` fails with `Faulty = TRUE`, and with `Layered = TRUE` from 3
  redirects, 3 segments and 4 connections on);
* `m_hasStartedPlaying` is read uninitialised, which can turn the start-up delay
  into a freeze;
* if a user of the cache gives a download up and asks for another file on the same
  connection (`MayAbort = TRUE`), the first file's length is stored under the
  second one's name, for all users;
* if a worker of `test.py` cannot start a process, or a process never ends, the main
  thread waits for ever;
* `test.py` announces a VALGR entry in the results file for a suite that valgrind
  rejects (lines 1794-1798), and no line writes one: the suite's own file is copied,
  so all that the results say can be PASS. It calls the file of a crashed suite
  "corrupt and useless" (1770-1771), and yet copies it when output that cannot be
  decoded has turned the code into 1 (line 805). So `ResultsAgree` does not say that
  an entry tells how its process ended; the exit code is right in both cases.

### Fairness

The simulator runs every scheduled event, so timers are weakly fair (`Start`,
`Timers`, `DownloadSegment`, `Play`, `PlayedAll`, the monitor, `ReportEvent`,
`DoFinishSocket`). Links work in the live runs, so packets arrive (`Network`, the
deliveries of `CacheProxy`), a connection attempt ends, and the origin answers.
`DownloadIdle` is not fair and `DownloadSegment` is: the adaptation logic does
not ask to wait for ever. The solver's answer is a finite file (`SolverDone`).
Threads of `test.py` are scheduled and the tests' processes end. Nothing is
assumed of redirects, joining users, traffic, users' requests, closes or signals.

## Proofs

`EdgeControllerProofs` proves, for any users, networks, videos, servers,
capacities, links and solver answers, from the named assumptions of
`EdgeController` (distinct addresses, the cloud's node is no edge server,
capacities are natural numbers, the set of users is finite):

* `TypeCorrect`, `GroupsUniqueHolds`, `UserCountedOnceHolds`, `TableAgreesHolds`,
  `CapacityRespectedHolds`, `RedirectedToHolderHolds`: invariants;
* `NoEvictionHolds`: an action property;
* `Refinement`: `Spec => ImplementsPlacement`.

The inductive invariant is `IInv`: types, `TableInv` and `EdgeInv`.
`TableAgrees` alone is not inductive: a new group copies an entry of the table,
so one must know that keys without a group still point to the cloud
(`FreshKeysAtCloud`), and that redirecting by index touches no second group with
the key (`GroupsUnique`). `RedirectedToHolder` needs `BoundIsImported`: a server
that `hasVideo` also has its MPD and, if readable, its segments. The refinement
needs `CapacityRespected` to turn the counter the code checks into the number of
videos `Placement` counts, and so that a video is bound once. `UserCountedOnce`
compares numbers of users; the proof goes through `SeatInv`, which says where each
single user sits: it waits for its event or has one seat, in the group of its
network and video.

`ServerRegistryProofs` proves, for any finite set of connections and any number
of videos and packets (`RegistryAssumption`): `TypeCorrect`,
`OpenKeepsObjectHolds`, `DataCallbacksAliveHolds`, `FinishOnlyClosedHolds` and
`BytesReportedOnceHolds`. The inductive invariant is `RegInv`. That an open
connection keeps its object rests on `FinishBounded` (an id has no more finish
events than closes were reported of its connection, `Weight`), and that on
`IdsUsedOnce` (ids are counted up, so no finish event is left from an earlier
connection with the id); the number of accepted connections bounds the ids.
`BytesReportedOnce` rests on `Reported`: what was reported is what the last
report, by whichever chain, had counted. All events of TCP go through one lemma
(`SocketEventInv`) that says what an event may do to a socket.

`TestRunnerProofs` proves, for any number of jobs and workers, any choice of
examples and skipped jobs and whether or not a worker may die
(`RunnerAssumption`): `TypeCorrect`, `JobAtOnePlaceHolds`, `BreaksLastHolds`,
`SuccessMeansPassedHolds`, `ResultsAgreeHolds` and `TestReportImplemented`.
The inductive invariant (`RunnerInv`) says where a job can be, that the break jobs
are the end of the input queue and as many as there are workers still to be ended
(`BreakInv`), what a job knows of its process at each place (`ProcessInv`,
`RunInv`), and that the counters of the main thread are the sizes of sets of jobs
(`CountInv`). `SuccessMeansPassed` needs the last two: the exit code is computed
from counters, and `returncode` begins as a value that equals success.
`ResultsAgree` adds what a suite that ended with 0 can have written: entries are
copied, and after a success none may say anything but PASS or SKIP.

`CacheProxyProofs` proves `TypeCorrect` for any users, files and sizes
(`ProxyAssumption`) and, for users that wait for their replies (`~MayAbort`),
`ExchangesInOrder`, `SizesRightHolds` and, with the imported file as the only MPD
(`Mpds = {Mpd}`: the code imports one, and sends that one for every name that ends
like an MPD's), `ReplyIsOfFileHolds`. The hypothesis on `MayAbort` cannot be
dropped (see the observations above): the proxy's counters belong to the
connection, not to the request. `PInv` names the
stages of an exchange (`Idle`, `Requested`, `Forwarded`, `Answered`, `Receiving`,
`Served`) and what the proxy, the two connections and the user hold in each; in
`Receiving` the bytes counted and the bytes in flight add up to the file.

`DashClientProofs` proves `TypeCorrect` and `TimersNeedPlayerHolds` for every run
and any servers, segments, buffer sizes and bounds (`ClientAssumption`).
`TimersNeedPlayer` is not inductive: after a stop a late packet or a segment
offered again could set a timer, if the receive buffer or the active flag had
survived, so `RunInv` speaks of these too. `ClientInvHolds` is about a client
whose connections do not fail, which is not stopped and does not abort downloads
(`~Faulty /\ ~MayStop /\ ~Layered`), with any table entries, servers without the
video, unusable MPDs, lost packets and redirects at any time. The inductive
invariant `ClientInv` gives the stage of the
request on the current connection (`Connecting`, `Asked`, `Answering`, `Refusing`,
`Stuck`, `Done`), says that every other connection is new or drained, and relates
the download loop's timers to the number of segments shown (`Loop`). Why one
request at a time: a GET on a reused connection is sent when the reply is
complete, at which time the server holds the old request only if the ACK that
makes it forget is in flight, and an ACK is processed before a request behind it.
Why the byte count is right: in `Answering`, what was counted, what is in flight
and what the server still has to hand over add up to the file. `HostInv` adds
that peer and host agree. `TotalSize` counts a reply without a file as a length
no file has, so a 404 never completes a download (`Refusing`, then `Stuck`).

`DashClientFaultProofs` lets connections fail and the application stop, at any
point. The inductive invariant `FaultInv` says that the client is in one of three
phases: in the stages of `ClientInv` (`Good`), `Broken` or `Halted`. No step leads
back to an earlier phase. SYNs or retransmissions that run out lead to `Broken`:
`m_socket` holds a dead socket, a file is missing, the retry resets the request and
does not replace the socket, and nothing that arrives elsewhere is for the request
under way. A stop leads to `Halted`: no timer is set, the receive buffer is gone and
at most one connection, opened by a late retry, is open; what arrives there never
reaches the player. A connection the client has closed may still have a request
pending, whose retransmissions run out after the stop (`Remnant`). The theorems:

* `FaultInvHolds` and `FailedForGood`, an action property: once its connection
  attempt or its connection has failed, the client keeps the dead socket, in spite
  of the retry, and receives no file until it is stopped. This is `broken_socket` for every instance and every later step;
* `ReceivedIsRequestedHolds`, `PlaybackInOrderHolds`, `NoDownloadMeanwhileHolds`,
  `OneRequestAtATimeHolds`, with faults and stops, if no download is aborted
  (`~Layered`). The hypothesis is needed: the first two and the last fail when the
  rest of an aborted response meets the next request;
* `KeptAliveToHostHolds`, with stops, if connections do not fail (see the
  observations above) and redirects come after the MPD (`~EarlyRedirect`;
  `lost_redirect` shows that this is needed). It covers lost packets, which the run
  `client_live` leaves out.

Only model-checked: everything about liveness and fairness, which this prover
does not cover (`CongestionSolved`, `AllPlayed`, `RedirectFollowed`,
`CountedIsReported`, `ClosedIsFinished`, `AskedIsAnswered`, `RunnerEnds`).

## Not modelled

* Path search and the legacy controller: the only program that calls them,
  `scratch/dash-btree-botup.cc_bp`, is not compiled. The scenarios that are read
  the node and link lists to configure ns-3.
* Helpers (object factories), tracers (CSV output), stubs (`aggregation.cc`,
  `gta-dash.cc`), the older `http-client.cc`/`http-server.cc`.
* The generated Python bindings, which are almost all of the repository's Python:
  lists of registrations without state. `multi-experiments.py` and
  `run-experiments.py` start one command after the other and look at no result.
  `wscript`, `waf-tools` and the visualizer are upstream's.
* Of `test.py`: discovery of tests, options, translation of the results.
* Upstream ns-3 beyond the TCP behaviour the applications see.

## Plan

1. `DashSystem`: several clients composed with `EdgeController` through the
   server table (today `Redirect` in `DashClient` stands for the controller).
2. An abstract `Player` (segments are shown once, in order) that `DashClient`
   implements.

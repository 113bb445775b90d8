# qredisclient in TLA+

qredisclient is a Qt client library for Redis. A `Connection` lives in the
caller's thread, an `AbstractTransporter` with its socket in a thread of its
own; commands and replies travel between them as queued signals. This
directory models that machinery, checks it with TLC and proves facts about it
with TLAPS. Source paths below are relative to `src/qredisclient/`.

## The system

| Part | State | Operations | Interacts by |
|---|---|---|---|
| Connection (`connection.cpp`) | `m_dbNumber`, `m_stoppingTransporter`, `m_currentMode`, `m_serverInfo`, `m_clusterSlots`, `m_notVisitedMasterNodes`, the two callback members | `connect`, `disconnect`, `runCommand(s)`, `pipelinedCmd`, `waitForIdle`, `auth`, scanning, the cluster walk | signals `addCommandsToWorker`, `authOk`, `shutdownStart`, `reconnectTo` to the transporter; `connected`, `errorOccurred`, replies from it; blocks in `disconnect` |
| Transporter (`transporters/`) | `m_commands`, `m_internalCommands`, `m_runningCommands`, `m_subscriptions`, `m_reconnectEnabled`, `m_connectionInitialized`, the cluster redirect state, the parser, the socket | `addCommands`, `cancelCommands`, `processCommandQueue`, `runCommand`, `reconnect`, `sendResponse`, `error`, `disconnectFromHost` | the server's stream; single-shot timers for the queue; a nested event loop while it connects |
| SignalWaiter (`utils/sync.cpp`) | result, timer, event loop | `wait`, `abort`, `success` | runs a nested event loop in its caller's thread |
| Scanning (`connection.cpp`, `scancommand.cpp`) | the accumulated result, the cursor, the incremental flag | `retrieveCollection`, `retrieveCollectionIncrementally`, `processScanCommand` | one command per page, its callback issues the next |
| Cluster (`abstracttransporter.cpp`, `connection.cpp`) | slots, redirects followed, the redirect pending, the masters not visited | `processClusterRedirect`, `pick...`, `getClusterKeys`, `flushDbKeys` | reconnects the transporter to another node |
| Command (`command.cpp`) | arguments, pipeline, db, owner, callback, priority | splitting, encoding, key, hash slot, pipeline bookkeeping | a value |
| ResponseParser, Response | hiredis reader | `feedBuffer`, `getNextResponse`, predicates on replies | fed by `readyRead` |
| ServerInfo, ConnectionConfig, text | values | parsing and printing | values |

What is hard in it, and what makes each part correct:

- **Transporter.** Replies carry no identity: the n-th reply belongs to the n-th
  request written, so the running queue must mirror what was written, through
  cancellation, pipelines (several replies), retries and reconnects. `runCommand`
  may spin an event loop in the middle of `executeCmd` (SELECT, then the command),
  and every other handler may run there. Commands must not be lost or duplicated,
  must run in their database, and the queue must never wait without a timer.
- **Connection.** A session is started by `connect`, `connect(true)` or any command, and whoever
  waits for it must be told how it ended. `disconnect` blocks one thread on the other while the other may
  be inside a nested loop; signals of an old session may still be queued when a
  new one starts; auto-connect turns a call into a callback on `authOk` or `error`.
- **Scanning.** One page per reply, the end decided by the cursor: a collection is
  complete, delivered once, and the scan ends.
- **Cluster.** Topology is cached and may be stale; redirects are bounded; a walk
  over the masters visits each of them once, through reconnects.
- **Publish/subscribe.** Messages arrive on the stream of replies. They must not be counted as
  replies, and must go to who has subscribed and still lives.
- **Pipelines.** `pipelinedCmd` runs on any thread beside `disconnect`, and cuts a list into
  pipelines: none of its commands may be lost, and its thread must not be pulled away.
- **Parser.** The stream may be cut anywhere and the reader is never reset.
- **Text.** A command line is decoded, then split, then hashed: three loops over characters with a
  bit of memory each, which must agree.

## Modules

| Module | What it models or proves |
|---|---|
| `Calls` | What a session promises to those who post commands, with no queues in it |
| `Transporter` | One session of a Connection with its transporter, from the start of the thread to its end; it implements `Calls` (`KeepsPromise`) |
| `MCTransporter` | The commands of the small sessions that TLC explores |
| `Subsequences`, `SubsequencesProofs` | The sublist of a queue at given positions, for `cancelCommands`; its elements are elements of the queue, in their order; and the facts, index by index, about tails and concatenations that the proofs about queues need, with induction over numbers in a form that the provers can use (`Induction`) |
| `TransporterProofs` | `TypeCorrect`: `Spec => []TypeOK`; which handler may run when (`ControlInvariant`); `WaitingCommandsWakeUp`: `Spec => []WaitingHasWakeup` when no reply is a protocol error; `ImplementsPromise`: the refinement of `Calls`; `InOnePlace`, `NoneForgotten`, `CancelledLeave`; `RepliesAreDelivered`, `DatabaseIsTracked`: the exchange with the server; `WrittenInOrder`; and of `Calls`, `OneEnd`: a command has one end, and while a session is well only the end of its owner drops it |
| `Lifecycle`, `MCLifecycle` | Several sessions of a Connection: `connect`, auto-connect, the handshake, and what an old session has left in the event queue |
| `LifecycleProofs` | `ServerHasAccepted`, `CommandsRunOnce`, `ConnectTellsTheTruth`: the handshake through all sessions |
| `PubSub`, `MCPubSub` | Subscriptions, MONITOR and the messages between replies |
| `PubSubProofs` | `GoneSubscribersLeave`: who is gone is not called; `PubSubTypes`; `RepliesStayInStep`: messages between replies do not shift them; `TableIsTheServers`, `MessagesArrive`: `m_subscriptions` follows the server |
| `Pipeline` | `pipelinedCmd` on two threads beside `connect` and `disconnect` |
| `PipelineProofs` | `DisconnectWaitsForCalls`, `ThreadIsSafe`: what the two threads may not do to each other; `ListsAreInOrder`: pipelines run in the order of the lists; `PipelinesAreTyped` |
| `Reader` | `readyRead` and the parser over a stream that is cut anywhere |
| `Scan`, `MCScan` | The page loop of a collection scan, against a server whose collection changes |
| `ScanProofs` | `ScanIsComplete`: `Spec => []Complete` |
| `Cluster`, `MCCluster` | One session in cluster mode: slots, the choice of nodes, redirects, the walk over the masters |
| `ClusterProofs` | `SlotsInOrder`: `Spec => []SlotOrder`; `StableClusterIsServed`: `Spec => []StableClusterServes`, if a redirect is allowed; `UndisturbedWalkVisitsAll`: `Spec => []UndisturbedWalk`; `ClusterTypes`: `Spec => []TypeOK` |
| `Text` | A command line from the keyboard to its arguments and their hash tags |
| `ParsingProofs` | Of `Reader`, `RepliesInOrder`; of `Text`, `ArgumentsArrive` and `SlotIsTheServers` |

`Transporter` is the centre. The other modules use it by what it promises: `Lifecycle` sees it
connect, answer in order or report an error, `Scan` gets a reply or nothing, `Pipeline` only needs
that it takes calls in order. `Cluster` and `PubSub` have its queues again, without the
failures and with the branches of `sendResponse` and `processCommandQueue` that `Transporter` leaves
out. `Reader` is below it: it shows that replies come off the stream one by one and in
order, which `Transporter` assumes. That promise is itself a module: `Calls` says that a command
is answered once or dropped, dropped only for the sake of its owner while the
session is well, and lost only with the session; not which reply it gets, which is what
`RepliesMatch` is about. `Transporter` instantiates it with the
`Fate` of each command and the state of the session, and `KeepsPromise` is the
refinement: every step of the queues is a step of `Calls` or none.

### Transporter

State of the caller's thread: `submitted` (the commands posted, by owner),
`destroyed`, `stoppingTransporter`, `outbox` (signals queued to the Connection) and
`dbNumber`. State of the transporter thread: `inbox` (calls queued to it), the three
queues, `connectionInitialized`, `reconnectEnabled`, `wakeups` (pending
`QTimer::singleShot(0, ..., processCommandQueue)`), and where control is: `nested`
says which nested event loop runs and `suspended` what the interrupted `executeCmd`
has still to run. The environment: `socket`, the `requests` written and the
`replies` not yet read, and the database selected in the server (`serverDb`).
Each written request has a tag, and a reply carries the tag of its request: the
code has no such tag, the properties compare it.

| Code | Actions |
|---|---|
| `Connection::runCommand`, `runCommands` | `Submit` |
| `QObject::destroyed` of an owner, `cancelCommands` | `DestroyOwner`, `CancelCommands` |
| `Connection::disconnect` | `Disconnect`, `ShutdownStart`, `Quit` |
| handlers of `connected`, `errorOccurred`, PONG, in `connect` and `auth` | `ReceiveSignal` |
| `init`, `connectToHost`, `reconnect`, `SignalWaiter` | `TransporterInit`, `ConnectSucceeds`, `ConnectFails`, `ConnectTimesOut`, `ConnectInterrupted`, `ConnectsLate` |
| `addCommands`, the `authOk` handler | `AddCommands`, `AuthOk` |
| `processCommandQueue`, `executeCmd`, `runCommand`, `sendCommand` | `QueueIsEmpty`, `RunInternalCommand`, `Poll`, `RunNextCommand`, `Resume` |
| `error`, `disconnected`, `reAddRunningCommandToQueue` | `SocketError`, `UnknownSocketError` |
| `readyRead`, `sendResponse` | `DiscardReply`, `UnexpectedReply`, `IntermediateReply`, `RetryCommand`, `CompleteCommand` |
| the server | `ServerExecutes`, `ServerProtocolError`, `ServerRefusesSelect`, `ServerAbortsTransaction`, `ServerErrorState` |

What the model takes for granted:

- Mode::Normal over a plain TCP socket. No subscriptions, MONITOR or redirects.
- The handshake is one PING of high priority: `auth` without credentials and with
  the server's information already known. Any other reply ends the session, as
  `authError` does.
- Replies are delivered one at a time: the stream may be cut between any two.
- The failures (`FaultKinds`): `closed` is an error of the socket other than
  UnknownSocketError; `unknown` is UnknownSocketError with the socket already
  unconnected and commands running, the one case that retries; `connectFail` and
  `timeout` end a connect; `protocolError` is such a reply on a connection that stays
  open; `selectRefused`, `queueError` and `errorState` are replies of the server.
- Qt writes to a connecting socket into a buffer that is sent when it connects,
  and drops it when the connect fails. `QThread::quit` ends the nested loop too.
- A nested loop that is already running a reconnect does not start another: the
  socket is then connecting, never unconnected.
- A session is terminal: when its thread has finished nothing can happen, so
  the runs do not check deadlock; `EveryCommandEnds` and `DisconnectReturns` are
  what is asked instead.

### Scan

State of the client: the command under way with its cursor (`cmd`), the mode in which the
next reply is handled (`incrementalProcessing`), `result`, and the calls of the user's
callback so far. State of the server: what the collection holds (`present`), what it has
held ever since the scan began (`throughout`) and the commands it does not know. A
cursor is the number of buckets the server has gone through; a page covers as many of
the next buckets as the server likes, and another client may add or remove an element
between any two steps.

| Code | Actions |
|---|---|
| `retrieveCollection`, `retrieveCollectionIncrementally` | `Retrieve` |
| the callback that `processScanCommand` sets | `TryIscan`, `ReportError`, `EndOnInvalid`, `LastPage`, `NextPage` |
| `ScanCommand::setCursor` | `SetCursor` |
| the server, the other clients | `ServerAnswers`, `ServerKnowsNoScan`, `ServerFails`, `Change` |
| `cancelRunningCommands` | `ConnectionLost`: the callback is never called |

What the model takes for granted:

- A collection is a set of elements: duplicates and order, which SCAN does not promise,
  are left out. Only elements that stay in the collection have to be delivered.
- A cursor is below 2^63, as `getCursor` reads it with `toLongLong`; a larger one
  would read as 0 and end the scan early.
- The database of the command is left out: all pages but those of ISCAN carry the
  one of the first command (the new `ScanCommand` of ISCAN has none).

### Cluster

State of the caller's thread: `submitted`, `outbox` (the signals `connected`, the replies to
the library's own commands and the deletion of contexts, queued to the Connection),
`serverInfo` (populated or not), `clusterSlots`, `notVisitedMasterNodes` and `contexts`
(each `callAfterConnect` that still listens). State of the transporter thread: the three
queues, `wakeup`, `pendingClusterRedirect`, `redirectTimer`, `followedClusterRedirects`, and
`nested`, the nested loops of `connectToHost` that wait, by who called `reconnectTo`. The
environment: the node in `config`, `socket`, `requests`, and `owner`, the node of each slot.

| Code | Actions |
|---|---|
| `runCommands`; `getClusterKeys`, `flushDbKeys` | `Submit`; `StartWalk` |
| `auth`, `refreshServerInfo`, `getClusterSlots`; `callAfterConnect`; `m_collectClusterNodeKeys`, `m_cmdCallback` | `ReceiveSignal` |
| `reconnectTo` called by a walk, by the timers of a redirect or of a choice | `WalkReconnects`, `RedirectTimer` |
| the end of `connectToHost` and of the timers | `ConnectSucceeds` |
| `addCommands`, the `authOk` handler | `AddCommands`, `AuthOk` |
| `processCommandQueue`, `pickNextCommandForCurrentNode`, `pickClusterNodeForNextCommand` | `QueueIsEmpty`, `RunInternalCommand`, `RunPickedCommand`, `PickClusterNode` |
| `readyRead`, `sendResponse`, `processClusterRedirect` | `AbortRedirects`, `FollowRedirect`, `CompleteCommand` |
| the cluster | `Answer`, `MoveSlot` |

What the model takes for granted:

- The session starts when a first handshake has loaded the slots, and
  `m_connectionInitialized` stays set: no reconnect resets it. It ends with the first error:
  too many redirects (`aborted`), or a reconnect while commands run (`lost`: `abort()`
  emits `disconnected`, which is "Connection was interrupted"), or a PING that gets another
  reply than PONG (`authError`). Connects succeed.
- A reconnect out of a socket that is still connecting leaves what runs in
  `m_runningCommands`, and from then on a reply may be given to another command than it
  answers. What the callback then makes of it is in the model: another reply than that to INFO is
  an empty `m_serverInfo`, of no cluster; another than that to CLUSTER SLOTS is an empty
  list of nodes (`SlotsIn`); any reply goes for a visit.
- `wakeup` says only whether some timer of `processCommandQueue` is pending. Where the code
  returns without setting its timer again another one may be left: `PickClusterNode` has both.
  Branches that only set the timer again change nothing and are no actions.
- A redirect reaches the node it names: `overrideClusterHost` is set, or the ports of the
  nodes differ. With `overrideClusterHost` nodes may share a port (`Port`), and
  `pickNextCommandForCurrentNode` takes them for one.
- A node's answer is worked out when the reply is read. An answer given earlier is one given
  before the slots moved, so nothing is lost.
- The cluster answers `CLUSTER SLOTS` with a master for every slot in use. What a walk asks
  of a node (the pages of a scan, or FLUSHDB) is one command without a key.
- A key of a slot in migration (`Importing`) is with the importing node, which serves it only
  after ASKING. The library never sends ASKING.

### Lifecycle

State of the caller's thread: `up`, `session`, the `contexts` of `callAfterConnect`, the
`waiter` of `connect(true)`, `infoKnown`, and `events`: what transporters of this and of earlier
sessions have queued to it, each with its session. The transporter of the session is `link`,
`initialized`, `calls` and its three queues, reduced to one command per step.

| Code | Actions |
|---|---|
| `runCommand` with auto-connect, `callAfterConnect` | `Run`; in handlers, `RunCommands` |
| `connect`, `connect(true)`, its waiter | `Connect`, `ConnectAndWait`, `ConnectReturns`, `ConnectTimesOut` |
| `disconnect` | `Disconnect` |
| handlers of `connected` and `errorOccurred` | `HandleConnected`, `HandleError` |
| `auth`: replies to AUTH, PING, INFO | `HandleAuth`, `HandlePong`, `HandleInfo` |
| `deleteLater` of a context | `HandleDelete` |
| the transporter | `LinkUp`, `LinkFails`, `LinkLost`, `Reconnect`, `TakeCall`, `Send` |
| the server | `AnswerUser`, `AnswerHandshake`, `RefuseHandshake`, `RefuseAuth` |

What the model takes for granted:

- `autoConnect` is set, Mode::Normal, no sentinel, no NOPERM reply to INFO.
- Everything is called from the thread of the Connection (`Pipeline` has the other case).
- `connect(true)` spins a loop in which `deleteLater` from outside is not delivered (`held`), as in
  Qt; in it the user may call anything but another `connect(true)`.
- What a callback of a command does is a call of the user, which may come at any time.
- A wrong password ends the session; any other error to AUTH goes on with PING, which the server then
  answers or refuses (`RefuseAuth`).

Two variables are history. `overlap`: an event of an old session was handled in another one, or a
session connected a second time; `AuthorisedFirst` and `ConnectTellsAlone` hold only without it. `recalled`: the
commands of which a context was called again while its posted deletion had not been delivered;
`RunsOnce` makes an exception of those, and of nothing else. The next section says what the code does then.

### PubSub

State: as in `Transporter`, `posted`, `inbox`, `commands`, `running`; besides, `subscriptions`
(the owner of each channel's emitter), `monitorMode` (`m_currentMode`), and in the server
`subscriber` and `monitoring`. `stream` holds replies and messages together.

| Code | Actions |
|---|---|
| `runCommand`; `destroyed` of an owner | `Submit`; `DestroyOwner` |
| `disconnect` and `connect` | `Restart` |
| `addCommands`, `cancelCommands` with the emitters | `AddCommand`, `CancelCommands` |
| `processCommandQueue`, `runCommand` | `RunCommand` |
| `sendResponse`: a message or Mode::Monitor; nothing running; a reply | `Emit`, `UnexpectedReply`, `CompleteCommand` |
| `addSubscriptionsFromRunningCommand`, UNSUBSCRIBE | in `CompleteCommand` |
| the server | `ServerExecutes`, `Publish` |

What the model takes for granted:

- The connection does not fail, but it may be closed and opened; the handshake is one
  PING, already written when a session begins.
- `MCPubSub` enumerates a plain command, SUBSCRIBE of one channel and of two by different owners, UNSUBSCRIBE
  and MONITOR. An UNSUBSCRIBE without arguments is in the module but not in the run.
- A message of the server is an array that begins with "message"; patterns work alike.

`disturbed` is history: the server was to send more replies to a command than
`sendResponse` counts, or a running command was cancelled; positions say nothing then.

### Pipeline

State: where the Connection's thread is in `disconnect` (`main`), where a call of `pipelinedCmd` is
(`pc`, `caller`, the `list` left, the pipelines `chunks` and the one that is being built, `chunk`), the mutex `blockingOp`, `stopping`,
`transporter`, `thread`, and the commands of all lists in the order they were `executed`.

| Code | Actions |
|---|---|
| `pipelinedCmd`: the lock, the loop, the end | `PipelinedCmd`, `GiveUp`, `BuildPipeline`, `Built`, `RunCommands`, `RunLastCommand`, `Throw` |
| `disconnect`: `tryLock`, `quit` and `wait`, the rest | `Disconnect`, `TryLock`, `TryLockTimesOut`, `Quit`, `Clear` |
| `connect`; `authOk` | `Connect`, `AuthOk` |
| the transporter | `Execute` |

A list may be empty. `m_stoppingTransporter` is looked at before each command, so a call without any does not look at it:
it posts an empty list, or connects, and throws.

What the model takes for granted: Mode::Normal; the worker has no event loop; the check of
`runCommand` and the connect that follows it are one step; a QThread object that is destroyed
while its thread runs ends the process (`thread = "crashed"`), as Qt says.

### Reader

State: what is on the `wire`, `available` in the socket, kept in the hiredis `buffer`, and what
was `delivered`. A reply is a number of fragments; the first one says how many. `ServerSends`,
`Arrive` and `Reconnect` are the environment, `ReadyRead` and `ReadGarbage` are `readyRead` with
`feedBuffer` and `getNextResponse`. The grammar of RESP is that of hiredis and is not modelled. That a
protocol error is never forgotten is hiredis's too. A fragment of a later reply
that falls into the middle of an earlier one may be an error or be swallowed: both are
there.

### Text

State: the arguments that are `meant`, the `line` typed, the escape sequence that has begun, and
what `splitCommandString` has collected. `Blank`, `TypeBare`, `OpenQuote`, `TypeQuoted`,
`CloseQuote`, `Mistype` are the user, `DecodeCharacter` is the loop of `printableStringToBinary`
and `SplitByte` that of `splitCommandString`; both look only backward, so they run one
character behind each other, and the state after any character is the end of a line.
Characters are classes: hexadecimal digits, another letter, the braces, a blank, the other bytes that `isSpace` takes
for spaces (`S`: 09 to 0D, 85, A0), the two quotes, the backslash, and any other byte that is no text (`H`). `S` and `H` are
typed as they are (a tab, the second byte of a letter such as à) or as `\xhh`, as `printableString` shows them;
`FromHex` says which digits make which. The user types well: quotes begin a word, a space that is
meant is typed inside quotes (outside of them it is a `Blank`, which separates), and mistyped
escape sequences are an action of their own. The bytes that are removed from the line (EF BE), CRC16 and the table of
key positions are left out.

## Runs

Bounds: `MaxCommands` user commands and `MaxFaults` failures, in every order with
everything else. Batches are chosen so that each kind of command meets each
failure that it can tell apart; two commands are enough for a reply to reach the
wrong one (`Session`, `Cancel`), and two failures for a retry to fail itself (`Liveness`, where one
command in a database is two to run: its SELECT and itself). The eight kinds of failure are spread over `Session`, `Cancel` and `Liveness`:
some break a property of another run, as the proofs say.

| Run | Explores | Shows |
|---|---|---|
| `Session` | 2 commands (plain, in database 1, of high priority, SELECT, pipeline, transaction in database 1), 1 failure: the socket, the connect, a protocol error, a refused SELECT; 940 thousand states | `TypeOK`, `RepliesMatch`, `DatabaseTracked`, `AnsweredOnce`, `NothingLost` |
| `Cancel` | 3 commands of a destroyed owner (a transaction among them) and of nobody, 1 error reply; 479 thousand states | `CancelledOwnersLeave`, `FirstInFirstOut`, `KeepsPromise` |
| `Liveness` | 1 command, plain or in a database, 2 failures of the socket, the connect, its timer, or an error that answers nothing; 376 thousand states | `WaitingHasWakeup`, `EveryCommandEnds`, `DisconnectReturns`, `KeepsPromise` |
| `WrongDatabase` | 1 command with a database, 1 failure | `RunsInItsDatabase` is violated |
| `Lifecycle` | 2 sessions started by the user, 1 command, which may start one itself, AUTH, 1 failure; 672 thousand states | `AuthorisedFirst`, `RunsOnce`, `ConnectTellsAlone`, `AutoConnectSettles` |
| `PubSub` | 3 commands of 2 owners on 2 channels, 1 message, 2 sessions; 294 thousand states | `TypeOK`, `InStep`, `TableMatchesServer`, `CancelledSubscribersLeave`, `MessagesReachTheirSubscriber`, `EverySessionOpens` |
| `Pipeline` | up to 3 lists of 4 commands in all, some of them empty, on 2 threads, limits of 2 and 1, 3 sessions; 573 thousand states | `TypeOK`, `ListsRunInOrder`, `BlockingOpIsRespected`, `ThreadOutlivesItsObject`, `ListsAreRun`, `DisconnectReturns` |
| `Reader` | 3 replies of up to 3 fragments, 2 losses of the connection; 3.5 thousand states | `DeliveredInOrder`, `EveryReplyDelivered` |
| `Scan` | 3 elements in 3 buckets, pages of every size, every change by another client, errors, invalid replies, a lost connection; 36 thousand states | `TypeOK`, `Complete`, `ScanEnds` |
| `Cluster` | 3 nodes, 3 slots, 2 calls (key commands, or one and a walk), 1 slot that moves, 1 in migration, a limit of 1 redirect; 173 thousand states | `StableClusterServes`, `UndisturbedWalk`, `EveryCallEnds` |
| `Walks` | 2 nodes, 1 slot that moves, 3 calls (key commands, or either walk, or both), a limit of 1 redirect; 1.3 million states | `TypeOK`, `SlotOrder` |
| `Text` | 5 keys; 632 thousand states | `ArgumentsAreKept`, `HashesAsTheServer` |

Three buckets, one of them empty, are the least with a first, a middle and a last page
and with a page that has nothing in it. `CancelledOwnersLeave` and `FirstInFirstOut` hold only
under conditions that this run meets (nothing reconnects or is put back, the owner's commands have normal priority): the next section
says how they break without. In `Cluster` two calls are enough for two commands of one slot, and for a
walk that is disturbed; the first node holds one of the slots, the second slot is on
a node with the same port and the slot that moves goes to a node with another port, so that both
reasons for a redirect and the choice of another node occur; the third slot is the one in migration. The limit of 1 redirect
(`MAX_CLUSTER_REDIRECTS` is 5) makes `StableClusterServes` stronger: one redirect suffices.
`Walks` is for what `Cluster` has no calls for: two walks that reconnect into each other while a
key command is redirected, after which PING, INFO, CLUSTER SLOTS and a visit each get a reply to
something else.
Two sessions in `Lifecycle` and `PubSub` are the least in which something of an old one meets a new
one; with one failure the handshake may fail at each of its commands, and one command is enough to run twice. In `Pipeline` a
limit of two (`pipelineCommandsLimit` is 1000, or 100 without a transporter) and four commands give a list that fills its
pipelines exactly and one that is a command longer; three sessions let a worker start one while
`disconnect` ends another. In `Reader` a stream with three replies of three fragments has every kind
of cut: in a reply, between two, across several. Five keys are enough for
a quote in quotes with a character on either side, and for `{`, `}` and a character in any order.

**Fairness** (`FairSpec`): weak fairness of the handlers of the two event loops
(Qt delivers a posted event when the loop turns), of the thread's start and end,
of the server's answers and of the end of a connect (the waiter has a timer, and
`quit` ends its loop). In `Scan`: the server answers and the event loop delivers what
has been answered. In `Cluster`: the two event loops, the timers, the end of a connect and the
answers. In `Lifecycle`: both event loops and the server, and not the timer of `connect(true)`. In
`PubSub`: the transporter's event loop and the server. In `Pipeline`: a call goes on, `disconnect` gets
the mutex when it stays free and goes on from there, a handshake ends and the transporter sends; the
timeout of `tryLock` is not relied on. In `Reader`:
what is on its way arrives and is read. Nothing makes anybody submit, disconnect or fail.

## What the code does otherwise

One run expects a violation; it is a disagreement with a sentence of the repository, quoted in
`PROJECT.json`: `WrongDatabase`. After a reconnect in the middle of `executeCmd` the command is written
before its SELECT, in database 0.

The models show more, which no run is spent on. Where a property below is conditional, its condition
excludes exactly this.

The transporter:

- `cancelCommands` removes a running command whose request is written; its reply completes the next
  command (`RepliesMatch` fails once there are owners).
- A command put back after a protocol error gets no timer (`WaitingHasWakeup` fails with
  `protocolError`).
- `queueIsEmpty`, which `waitForIdle` waits for, is emitted while replies are still to come
  (the guard of `QueueIsEmpty`).
- `cancelCommands` never looks at `m_internalCommands`, nor at the command that an
  interrupted `executeCmd` has still to run: `CancelledOwnersLeave` fails for commands
  of high priority, and for commands that name a database once a reconnect may happen.
- `reAddRunningCommandToQueue` puts commands back in reverse order: `FirstInFirstOut`
  fails once `unknown` may happen.
- A transaction with a command that cannot be queued has two error replies and only the
  first ends it: `RepliesMatch` fails with `queueError`.
- `disconnect` during a reconnect clears the socket that `executeCmd` writes to next (action
  `Crash`): when the SELECT of a command waits for the reconnect, the thread goes on with the command itself and
  dereferences null. `DisconnectReturns` of `Transporter` allows this crash (`InterruptedAtSelect`) and no other.

Sessions:

- A reply to INFO or PING of an old session that is handled in a new one goes on with the new one's
  handshake: `connect(true)` may return true, "on success" in `connection.h`, before the new server has answered.
  Any step of the handshake handled while there is no session starts one.
- `connect(true)` that times out returns false while the session goes on.
- A context of `callAfterConnect` listens until its deletion is delivered: a second `authOk` or
  `error` before that calls it again, and its command may run twice, or after its future was cancelled
  (`RunsOnce` excepts the commands of such contexts).
- A second handshake on a connection that had been initialised runs beside users' commands, which may reach
  the server before AUTH does.
- Each `auth` adds its handlers again, so that after a reconnect an authentication error is
  reported several times.
- `runCommands` and `pipelinedCmd` of a worker that have to connect leave a context on a
  thread without an event loop, which never runs.
- `pipelinedCmd({})` never looks at `m_stoppingTransporter`: it posts an empty list, or connects, also beside a
  `disconnect` that has got the mutex, and then throws (`BlockingOpIsRespected` is about calls with commands).
- Pipelines of a list that had to connect first run with the first one last.

Publish/subscribe:

- SUBSCRIBE of several channels is confirmed several times and counted once: the other confirmations
  complete the commands behind it.
- A second owner's SUBSCRIBE to a channel replaces the first, and the end of either leaves the other
  without messages although the server goes on sending.
- SUBSCRIBE and MONITOR without a callback have no effect in the library.
- Mode::Monitor belongs to the Connection and survives `disconnect`: the reply to the next
  handshake is taken for a line of MONITOR and the session never opens (`EverySessionOpens`
  excludes it).
- A reconnect inside the transporter loses the server's subscriptions while the table stays; an
  ordinary array reply that starts with "message" is taken for a message.

Cluster and scans:

- `NextPage` goes on without `incrementalProcessing` (`connection.cpp:621`): an incremental scan of
  more than one page calls back once, with everything, and never with `final` set.
- `setCursor` leaves the cursor of ISCAN at 0, so that a server that knows ISCAN instead of SCAN is
  asked for its first page for ever.
- `ASK` is followed without `ASKING`, like `MOVED`: a key of a slot in migration is sent to and fro until
  the session is given up, although nothing moves.
- A walk takes any `authOk` for that of its own reconnect. A key command posted meanwhile moves the
  connection, or adds a handshake of its own, and the walk calls back with a node visited twice and
  another not at all. Two walks share the callback members. With no masters the callback is never called.
- A walk that starts while a handshake is under way, for example right after
  the connection was reconnected for a command, may call back twice (`UndisturbedWalk` needs the
  connection to be idle when the walk starts); a walk's `reconnectTo` while a command runs
  ends the session.
- A walk can make a command be redirected several times although no slot moves.

Replies and text:

- The parser is not reset by a reconnect: the rest of a torn reply swallows the beginning of the new
  stream or is an error that nothing clears (`DeliveredInOrder` and `EveryReplyDelivered` exclude it).
- A reply of a type that the library does not know (the doubles of RESP3) ends the loop of `readyRead`
  and is lost.
- Outside quotes a byte that `QChar::isSpace` takes for a space ends the argument and is lost, also when it was
  written `\xhh` or is part of a letter such as à (C3 A0): `\xFF\xA0` comes out as `\xFF`. Inside quotes it is
  kept.
- A quote inside a word throws away what is before it in the word; a backslash at the end of a line, an
  unfinished `\x` and the character after an invalid one are dropped; `printableString` does
  not escape backslashes, so that an argument that ends in one cannot be quoted; the
  bytes EF BE are removed wherever they are, also from the middle of a character.
- The table of key positions has several commands twice, and the last entry counts.

## Proofs

`TransporterProofs` proves `TypeCorrect == Spec => []TypeOK` for every value of the
constants that satisfies the module's assumptions. `TypeOK` is inductive as it
stands. The argument has a lemma for each operator that builds commands or
queues (`WithSelectType`, `TaggedType`, ...) and one for each group of actions
(`CallerType`, `ThreadType`, `QueueType`, `ConnectType`, `ReplyType`, `ServerType`); that a
filtered queue holds only what the queue held comes from `SubsequencesProofs`, where the
rank of a position is shown to be a bijection between the kept positions and
`1..Cardinality`.

Its second part is `ControlInvariant`, which says how the event loops restrict the handlers, and which
the other proofs about the transporter start from: `shutdownStart` is the last call ever posted
(`ShutdownIsLast`); nothing waits before `init` (`StartsEmpty`); the thread that runs has a socket until
`shutdownStart` (`NoSocketNoCalls`); a nested loop waits for a socket that is connecting, or that
`shutdownStart` has taken away (`NestedConnects`); and only a reconnect interrupts `executeCmd`
(`SuspendedInLoop`).

Its third part proves that a waiting command has a timer, `ASSUME "protocolError" \notin Faults
PROVE Spec => []WaitingHasWakeup`: whatever is posted and whatever else fails, the queue is never left
asleep. (With protocol errors it is false, as said above.)
`WaitingHasWakeup` alone is not inductive: `addCommands` sets no timer when there is no
socket. `WakeupInvariant` adds `ControlInvariant`, and that no reply on its way is a protocol error
(`NoProtocolErrors`), so that `sendResponse` puts nothing back.

Its fourth part proves that a session keeps its promise, `ImplementsPromise == Spec => KeepsPromise`, for all
batches, owners, bounds and combinations of failures. The invariant under it, `PromiseInvariant`, says
where every command is: those in the queues, in the requests under way and in the rest of an
interrupted `executeCmd` are what was posted, with the number and the owner they were posted with
(`HandsGenuine`), no two of them with the same number (`HandsApart`); the same of the
calls in the inbox, where each `cancel` is of an owner that is gone (`InboxGenuine`); and the inbox, the
hands and the answers have no number in common (`OnePlace`). It gives
`InOnePlace == Spec => []AnsweredOnce` at once. It is also what the
refinement needs: a handler that moves commands changes no fate (`HandsStep`), one that drops
them drops those of an owner that is gone, or posts an error, or runs in a session that is over
(`Excused`), and `sendResponse` answers the command at the head, which is nowhere else (`CompleteStep`).
The delicate cases are those of `runCommand` (`RunCommandsStep`): a reconnect puts the head of what `executeCmd` runs
back and suspends the rest, and loses no rest suspended before, because a reconnect begins only on
an unconnected socket, so in no nested loop of another one; without a
socket the write that follows crashes, but then `shutdownStart` has run. What follows from
`Calls` follows for a session: `NoneForgotten == Spec => []NothingLost` is proved from the
refinement and from `OneEnd`, not from the handlers again.

Its fifth part proves that nothing is left of an owner for which `cancelCommands` has run,
`CancelledLeave == ASSUME OwnedAreTame PROVE Spec => []CancelledOwnersLeave`. In the invariant, `LeaveInvariant`, each owner that is gone
has its cancel still in the inbox or nothing in hand (`GoneOrPending`), and a batch in the inbox has nothing of an owner that is
gone unless its cancel comes after the batch (`AddsBeforeCancel`): the inbox is first in, first out, and
nobody posts for an object that is destroyed. No other handler brings a command back: all that is in hand comes from what was
in hand or from SELECT (`WithinStep`, for any set of commands that is `Closed` so). What is left is where `cancelCommands` does not look,
`m_internalCommands` and the rest of an interrupted `executeCmd`; `NoneInside` says that nothing owned is there. `OwnedAreTame`
makes it so: no owned command has high priority, and, unless `closed`, `connectFail` and `unknown` are all
excluded, none names a database (only such a command is behind a SELECT when a reconnect interrupts `executeCmd`). TLC breaks
the property without either half: two commands and one fault suffice.

Its sixth part proves that each reply reaches the command it answers, `RepliesAreDelivered`, and that
`m_dbNumber` follows the server, `DatabaseIsTracked`. `RepliesMatch` speaks of the
oldest reply alone and is far from inductive: when it has been read, the next must fit the next command.
The invariant is `Exchange`, over the whole of what is under way. The running commands have
consecutive tags, up to the last one given (`Consecutive`); the requests that the server has not
come to are those of the last of them (`Pending`); and the unread replies are a block for each of the others, in
their order (`InBlocks`). A block is what is left of the answer (`Whole`): one reply; for a
pipeline as many as it still counts down from; for a transaction a run of OK and QUEUED and one
reply that is neither. There is a lemma for each thing that can happen to an exchange: requests are written (`Sends`), the
first pending one is executed (`Executes`), a reply is read that is not the last of its
block (`ReadsOn`) or that is (`ReadsLast`). `Tracks` goes through the same four: the server's database is
that of the last SELECT whose OK is unread, or, if there is none, `m_dbNumber`. `Wired` says
when there can be an exchange at all: nothing is under way without a socket, replies come from a connected one
only, and only a nested loop connects, so that `resetDbIndex` is never missed. Both theorems have conditions, and each
is there because TLC breaks the property without it: `destroyed = {}`, since
`cancelCommands` forgets running commands whose replies still come; no `errorState`, which is
a reply to nothing; no `queueError`, which is two final replies to one transaction; and for the first, no `timeout`:
what is written while the socket goes on connecting after the waiter gave up is sent when it has connected, although
`errorOccurred` has emptied `m_runningCommands`. The second needs no such condition, because
a timeout leaves the session broken, of which `DatabaseTracked` says nothing. `DisturbedStays`, that a session so
disturbed does not recover, is read off the refinement of `Calls` (`PromiseStep`).

Its last part proves that commands are written in the order they were posted, `WrittenInOrder`, from three
things said of one healthy session. `InLine`: the commands that run are before those that wait, these before each batch still
in the inbox, and the batches are in the order of the calls that posted them; a command of the transporter's own
(authentication, SELECT) or of high priority is not compared. `Smooth`: only commands of high priority
are in `m_internalCommands`, no rest of an `executeCmd` is suspended, and no socket is unconnected while `init` is over, so that
no reconnect takes a running command back. And no reply on its way is a protocol error (`WakeupInvariant`).
The condition excludes exactly what puts a command back in the code: `unknown`, whose `reAddRunningCommandToQueue` turns
the running commands round, and `protocolError`, after which `sendResponse` tries again. Owners may be destroyed at will: a
filtered queue keeps its order (`OrderOfSubsequence`).

`ScanProofs` proves `ScanTypes == Spec => []TypeOK` and `ScanIsComplete == Spec => []Complete` for every collection, number of
buckets and cut into pages. `ScanInvariant` adds to `Complete` that what the buckets
up to the cursor held, and still hold, is in the result (`CollectedSoFar`), that an
unread page holds what its buckets held (`PageHolds`), that elements counted on are present
(`StillPresent`), and that the result is cleared only at the first page (`ClearsNothing`).

`PipelineProofs` proves `DisconnectWaitsForCalls == Spec => []BlockingOpIsRespected` and
`ThreadIsSafe == Spec => []ThreadOutlivesItsObject`, for all limits, lists and interleavings; the first says nothing of
calls with an empty list, which the model has and the code does not protect.
`PipelineInvariant` adds what the two rest on: the mutex is held exactly during a call
(`MutexIsOfCall`) and `m_stoppingTransporter` is set exactly during `disconnect`
(`StoppingIsOfDisconnect`); the Connection's thread is never in both (`OneAtATime`);
`disconnect` loses its patience only while it waits (`Patience`); a call that starts
after the mutex was free still has a command to look at before it posts, and so will see
`m_stoppingTransporter`, or it has no command at all (`CallWillGiveUp`); and a thread that runs beside the end of
`disconnect` was started by a worker's auto-connect (`ThreadHasTransporter`,
`RestartedByWorker`).

`ListsAreInOrder == Spec => []ListsRunInOrder` says that the commands of all lists run in the order in
which `pipelinedCmd` was given them. The commands are numbers, so that the claim is one about a
single run of consecutive numbers, through three places: those executed, then those of the calls posted to the
transporter (`Covers`: each posted pipeline begins where the one before it ends), then those a call still has
in hand (`StillToPost`: the pipelines it has built and the rest of its list). `AllInOrder` says that
these follow each other without a gap while the session is `Undisturbed`: nobody disconnects or connects and no
context waits to post its pipeline later. Each action moves a boundary between two of the places; `RunCommands` and
`RunLastCommand` need that what is posted is exactly what was built before the rest.

`PubSubProofs` proves `GoneSubscribersLeave == Spec => []CancelledSubscribersLeave`. A confirmation
puts the owner of the first running command into `m_subscriptions`, so that nothing of an owner that is
gone may be in `m_runningCommands` either, nor in `m_commands`, nor be posted later:
`CancelInvariant` adds to the property that whatever an owner has posted is in the inbox before its
cancel (`AddsBeforeCancel`), which holds because the inbox keeps its order and a destroyed owner posts
nothing more.

The other four theorems of that module stand on each other. `PlaceInvariant` says that a command posted is in
one place: once in the inbox, or once in a queue, and its request is written once (`InOnePlace`); with
the types of the stream, of the emitters and of the rest (`StreamTypes`, `OtherTypes`) it gives
`PubSubTypes == Spec => []TypeOK`.

`RepliesStayInStep == Spec => []InStep`: as for `RepliesMatch`, the property sees the oldest reply and the proof needs them all.
`InStride` says of a stream in which replies and messages are mixed that it is `Aligned`: the requests not
executed are those of the last running commands (`RequestsLast`); a command that is confirmed
several times has none running behind it (`DoubtsLast`); a reply is for a running command
(`RepliesExpected`) and a command executed has one on the way (`ExecutedAnswered`); and replies come in the order
of the running commands (`RepliesOrdered`), whatever lies between. It holds while the connection is `Calm`, that is neither
disturbed nor in Mode::Monitor; what the server sends to a monitor comes after the reply to MONITOR
(`FeedAfterMonitor`), so that it meets the mode. The proof showed an exception that `InStep` used to make,
for a first running command that is confirmed several times, to be needless, and the property
was strengthened.

`TableIsTheServers` and `MessagesArrive` prove `TableMatchesServer` and `MessagesReachTheirSubscriber`. The table
and the server agree only when nothing is under way; in between the confirmations have still to be read. `Becomes(c, n, x)` says
what the entry of channel `c` will be once the first `n` items of the stream have been read: the invariant `Following` says
that after all of them it is what the server has (`TableFollows`), and that just before a message it is the
subscriber that the message is for (`MessagesFollow`). The server's steps add an item at the end, which changes the first
claim and leaves the second; `sendResponse` takes one from the front, after which the entry already is what it
was to become. That a confirmation completes its own SUBSCRIBE, whose owner goes into the table,
is `InStride`. Both have the hypothesis `OwnedMonitors`, that a MONITOR is given a callback: one
without an owner never switches `m_currentMode`, its lines are counted as replies, and a confirmation then
completes the wrong command. TLC breaks both properties without it.

`ClusterProofs` proves `SlotsInOrder == Spec => []SlotOrder`, for all nodes, ports, slots, moves of the slots between the nodes
and walks. The commands of a slot stand in one line: those answered, the one that runs, those in `m_commands`, those posted; and
in each place they are in the order of their numbers (`LineInvariant`). What keeps the line is that one command of the
user's runs at a time (`OneKeyRuns`), so that the redirected one, put back before all that wait, jumps no queue; that nothing of
the user's gets into `m_internalCommands` (`NoKeyInside`); and that what node a command is for is a matter of its slot,
so that the first command for the current node is the first of its slot (`RunPickedLine`). Which node is asked, what it answers
and how stale the slots are does not come into it, nor whether a reply is given to the right command: `SlotOrder` holds
also where two walks reconnect into each other and replies get out of step.

`ClusterTypes == Spec => []TypeOK` holds there too. Two parts of `TypeOK` are not a matter of single assignments. That
`followedClusterRedirects` stays within `MaxRedirects` needs `OneRedirect`: from its timer to the end of its nested loop one
redirect at most is under way, it is pending all the while, and it was begun with one left to follow; so that however many walks
have put their loops around it, the end of the connect counts one. That a reply finds a command in `m_runningCommands`, be it the
wrong one, is `RequestsHaveCommands` of `LineInvariant`. With the walks that have started, which are finitely many (`Started`) because
they count as calls, these make the invariant `Types`.

`StableClusterIsServed == ASSUME MaxRedirects >= 1 PROVE Spec => []StableClusterServes` is about the opposite: a cluster that is left
alone, of whatever nodes, ports, slots and commands. One redirect is necessary, because a node is recognised by its port, and enough.
`Quiet` is the condition of the property; once disturbed it does not come back (`QuietBefore`). While it holds, nothing but commands for
keys and those of the handshake is under way, and the slots that are known are the true ones (`NobodyWalks`); replies and commands
are in step, and a redirect is pending just while one timer or one nested loop is under way, with no key command running
(`OneReconnect`). On this rests the argument proper, `Homing`: a command that was redirected is the first in the
queue and on its way to its node, and when it arrives the counter is 1 and stays so only until this same command, which
`pickNextCommandForCurrentNode` finds first, has been answered there; so that a redirect always meets a counter of 0 (`RedirectServes`). The limit
needs `LineInvariant` too: the key whose reply is read is one that was posted, and no other key command runs.

`UndisturbedWalkVisitsAll == Spec => []UndisturbedWalk` is about `getClusterKeys` and `flushDbKeys`, for all nodes, moves of slots and
walks, and finitely many slots (Redis has 16384: `SlotsAssumption`). The history variable `alone` of a walk says that nothing was under way
when it started, and that no command was posted and no other walk started since. While it holds, one thing at a
time is under way on the whole connection, with one exception (`OnItsWay`): the question for the masters, the call to reconnect
to a node, the nested loop that waits for it, a command of the handshake there, then the command of the walk,
while the context of `callAfterConnect` may still have to be deleted. The context is there when `authOk` is emitted and
is gone before the next one is made, which is why each `authOk` calls back once. Beside it `Covers` adds
up: the nodes visited, the one that the connection goes to, and those left in `m_notVisitedMasterNodes` are the masters, and
as many as they. When a walk ends, nothing of it is left on the connection, and nothing returns (`NothingStays`), whatever
others do then; so it does not call back again.

`LifecycleProofs` proves what `Lifecycle` says of commands and of the handshake, for all commands, any number of sessions and any
failures, with or without AUTH. It has two invariants.

`CallerInvariant` is about the caller's thread and holds however sessions and handshakes overlap. A context that was called has its
deletion pending, in `events` or, while `connect(true)` spins its loop, in `held`. Of a command of which no context was called
again there is at most one context whose deletion is not pending, and as long as there is one the command is neither
posted nor cancelled (`LoneContexts`); a command that was not asked for has no context (`NotAsked`); and no event or
context is of a session to come (`NothingAhead`), so that a new context is not taken for an old one. `authOk` and `error` call all the
contexts: those whose deletion was pending put their commands into `recalled`, the others become pending. From it follows
`CommandsRunOnce == Spec => RunsOnce`, whose exception is `recalled` and nothing else: which
handshakes overlap, and where deletions wait, does not matter.

`Alone` is under `ServerHasAccepted == Spec => []AuthorisedFirst` and `ConnectTellsTheTruth == Spec => ConnectTellsAlone`, and holds until two
handshakes overlap (`OverlapStays`: after that nothing more is said). At its centre is `OneHandshake`: the handshake of the session
that is up is one thing at a time, an event for the caller's thread, a call to the transporter, a command that waits or one that runs,
and none of these twice. Whatever follows from the acceptance of the server (a good answer to PING, INFO, `authOk`,
`m_connectionInitialized`) is therefore a sign of it (`AcceptedIsAuthed`), and as the connection of the session is its first one
(`FirstConnect`: where it is not, the second handshake overlaps), of acceptance on that connection. A new session finds nothing of its own
in the event queue (`NothingAhead`, `StartAlone`). Events of an old session need no case of their own: who handles one has two
handshakes that overlap, or deletes a context.

`TransporterProofs` also proves `OneEnd` of the abstract session that it refers to as `Promise`:
`Spec => []Promise!DroppedForOwner /\ [][Promise!SettledForGood]_(Promise!vars)`. The first part says that `Calls` is
the promise it is meant to be, and as every session implements it (`ImplementsPromise`), the theorem is one
about the code.

`PipelinesAreTyped == Spec => []TypeOK` of `Pipeline` needs to know what is in a list of lists that
`FlattenSeq` makes into one: its elements are elements of the lists (`FlattenType`).
`FlattenSeq` is a fold, that is a recursive function, and the lemma is an induction over its length.
The induction theorems of the library have an operator for a parameter, which the provers cannot
instantiate; `Induction` states the same of a set, which they can: a set of numbers that has 0, and n + 1
with each n, has all of them. That the recursive function is the one its equation says is proved by the
theorem on recursive functions of `WellFoundedInduction`, whose parameter is a definition.

`ParsingProofs` is about the two parsers, `Reader` and `Text`.

`RepliesInOrder == Spec => []DeliveredInOrder`, for replies of any sizes, any number of them and
any number of lost connections. The invariant (`ReaderInvariant`) looks at everything that is not
delivered as one stream: what the reader keeps, what is in the socket's buffer, what is on the wire
(`OnTheWay`). As long as nothing was torn this stream is `Whole` replies, one behind the other from the
one after the last delivered to the last sent (`Stream`), and the reader holds but the beginning of one
(`Begun`). The server adds a reply at the end, the network moves the
boundaries, and a loss throws away all of it: `torn` says whether it cuts a reply that the reader has begun. What
`readyRead` takes off is computed by the recursive function `Ends`, the places where replies end;
`EndsFacts` proves by induction that it is the least place after the one before where a reply is
complete, `EndsAreBoundaries` that on a stream in order these are the ends of the replies, and `StreamIsRead`
that what is delivered is therefore the next replies, each from its own fragments, and what is kept the
beginning of one.

`ArgumentsArrive == TextSpec => []ArgumentsAreKept`, for lines of any length. Between two keys the
decoder and the splitter have nothing left (`Settled`): the arguments found, with the one being collected, are those
that are meant. While a key is read its byte is typed as it is or as `\xhh`, and in one of two places or one of four
(`Coming`, `HexComing`), and a quote with its backslash in one of three (`EscapeComing`); `Before` says for each
byte in which state of the splitter it will be right: a byte that `isSpace` takes for a space is a character inside quotes
and the end of an argument outside, however it was typed. Nothing is said of a line that was
mistyped, from then on.

`SlotIsTheServers == TextSpec => []HashesAsTheServer`, for every argument of the command, whatever braces
it has. The server's rule (`HasTag`) is about the parts that a key is put together from, and
`calcKeyHashSlot` about two places; `TagMeans` translates one into the other, `TagIsHashed` and `HashedIsTag` are the two
directions.

Only model-checked, by what they wait for:

- Everything under fairness, because liveness and `ENABLED` are out of the prover's reach: `EveryCommandEnds`, `DisconnectReturns`,
  `ListsAreRun`, `AutoConnectSettles`, `EverySessionOpens`, `EveryCallEnds`, `EveryReplyDelivered`, `ScanEnds`.

## Plan

`Lifecycle` with sentinel and cluster branches of `auth`; `pipelinedCmd` in Mode::Cluster.

## Not modelled

SSL (its waiter differs from the plain one only in its signals) and proxies; the SSH tunnel
(its transporter is not in this repository); `ConnectionConfig` (a variant map read and written as
JSON); `ServerInfo::fromString` (a text into a map); `getNamespaceItems` and `namespace_scan.lua` (one
EVAL whose script runs in the server); the sentinel branch of `auth`; `waitForIdle` beyond the
signal it waits for; hiredis (third party; an empty submodule here); the command-line client; the
tests; `docs/html` (generated by doxygen). The data of these has no behaviour over time
that a model would add to a test.

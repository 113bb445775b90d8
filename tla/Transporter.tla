---------------------------- MODULE Transporter ----------------------------
(***************************************************************************)
(* One session of a Connection with its transporter, from the start of the *)
(* transporter thread to its end: transporters/abstracttransporter.cpp,    *)
(* transporters/defaulttransporter.cpp and the half of connection.cpp that *)
(* posts to them.  Mode::Normal, a plain TCP socket, no subscriptions.     *)
(*                                                                         *)
(* Two threads.  The caller's thread owns the Connection; the transporter  *)
(* thread owns the queues and the socket.  Every signal between them is    *)
(* queued: `inbox' holds the calls posted to the transporter thread,       *)
(* `outbox' those posted to the caller's.  QTimer::singleShot(0, ...,      *)
(* processCommandQueue) is a pending `wakeups'.  A reconnect spins an      *)
(* event loop inside runCommand (SignalWaiter), so other handlers run      *)
(* while the interrupted executeCmd is `suspended'.                        *)
(***************************************************************************)
EXTENDS Integers, FiniteSets, SequencesExt, Subsequences

CONSTANTS
    Batches,     \* what one runCommand/runCommands call may post: sequences of commands
    Owners,      \* QObjects that own callbacks
    NoOwner,     \* the owner of a command that nobody's destruction cancels
    Faults,      \* the kinds of failure that may occur
    MaxCommands, \* bound: user commands posted in the session
    MaxFaults    \* bound: failures in the session

NoDb == -1

FaultKinds == {"closed", "unknown", "connectFail", "timeout", "errorState",
               "protocolError", "selectRefused", "queueError"}

\* A command: the number the model gives it (0: made by the library itself),
\* its kind, m_dbIndex, m_owner, m_hiPriorityCommand, and an argument: the
\* commands left in a pipeline, which is never empty, or the index that SELECT names.
Command ==
    {cmd \in [id : Nat, kind : {"plain", "select", "handshake", "pipeline", "transaction"},
               db : Nat \union {NoDb}, owner : Owners \union {NoOwner},
               hi : BOOLEAN, arg : Nat] :
        cmd.kind = "pipeline" => cmd.arg > 0}

ASSUME BatchesAssumption ==
    /\ Batches \subseteq Seq(Command) \ {<<>>}
    /\ \A b \in Batches : \A k \in DOMAIN b : b[k].kind \in {"plain", "select", "pipeline", "transaction"}
ASSUME OwnersAssumption == NoOwner \notin Owners
ASSUME FaultsAssumption == Faults \subseteq FaultKinds
ASSUME BoundsAssumption == MaxCommands \in Nat /\ MaxFaults \in Nat

VARIABLES
    \* the caller's thread
    submitted,              \* the owners of the user commands posted, in order
    destroyed,              \* owners destroyed
    stoppingTransporter,    \* m_stoppingTransporter: disconnect() waits for the thread
    outbox,                 \* signals queued to the Connection
    dbNumber,               \* m_dbNumber (written by the transporter thread too)
    \* the transporter thread
    thread,                 \* "starting", "running", "finished" or "crashed"
    inbox,                  \* calls queued to the transporter
    commands,               \* m_commands
    internalCommands,       \* m_internalCommands
    runningCommands,        \* m_runningCommands, each with the tag of its request
    connectionInitialized,  \* m_connectionInitialized
    reconnectEnabled,       \* m_reconnectEnabled
    wakeups,                \* pending single-shot timers of processCommandQueue
    nested,                 \* the nested event loop: "none", "init", "reconnect"; "resume"
                            \* when it has ended and its caller goes on; "inline" when
                            \* error() goes on to call processCommandQueue
    suspended,              \* commands that the interrupted executeCmd has still to run
    \* the socket and the server behind it
    socket,                 \* "null", "unconnected", "connecting" or "connected"
    requests,               \* written and not yet executed by the server
    replies,                \* sent by the server and not yet read
    serverDb,               \* the database selected on this connection
    sent,                   \* requests written so far; the last tag given
    faults,                 \* failures so far
    \* history
    answered                \* user commands whose deferred has completed

callerVars == <<submitted, destroyed, stoppingTransporter, outbox, dbNumber>>
queueVars  == <<commands, internalCommands, runningCommands, wakeups>>
threadVars == <<thread, inbox, connectionInitialized, reconnectEnabled>>
loopVars   == <<nested, suspended>>
netVars    == <<socket, requests, replies, serverDb, sent>>
vars == <<callerVars, queueVars, threadVars, loopVars, netVars, faults, answered>>

-----------------------------------------------------------------------------

Call == [type : {"add"}, batch : Seq(Command)]
        \union [type : {"cancel"}, owner : Owners]
        \union [type : {"authOk"}] \union [type : {"shutdown"}]
Request == [tag : Nat, cmd : Command]
Reply == [tag : Nat, status : {"value", "ok", "pong", "queued", "error",
                               "errorState", "protocolError"}]
Signal == {"connected", "pong", "refused", "error"}

\* Every variable stays in its type; an argument of the queues never leaves Command.
TypeOK ==
    /\ submitted \in Seq(Owners \union {NoOwner})
    /\ destroyed \subseteq Owners
    /\ stoppingTransporter \in BOOLEAN
    /\ outbox \in Seq(Signal)
    /\ dbNumber \in Nat
    /\ thread \in {"starting", "running", "finished", "crashed"}
    /\ inbox \in Seq(Call)
    /\ commands \in Seq(Command)
    /\ internalCommands \in Seq(Command)
    /\ runningCommands \in Seq(Request)
    /\ connectionInitialized \in BOOLEAN
    /\ reconnectEnabled \in BOOLEAN
    /\ wakeups \in Nat
    /\ nested \in {"none", "init", "reconnect", "resume", "inline"}
    /\ suspended \in Seq(Command)
    /\ socket \in {"null", "unconnected", "connecting", "connected"}
    /\ requests \in Seq(Request)
    /\ replies \in Seq(Reply)
    /\ serverDb \in Nat
    /\ sent \in Nat
    /\ faults \in Nat
    /\ answered \subseteq Nat

Init ==
    /\ submitted = <<>>
    /\ destroyed = {}
    /\ stoppingTransporter = FALSE
    /\ outbox = <<>>
    /\ dbNumber = 0
    /\ thread = "starting"
    /\ inbox = <<>>
    /\ commands = <<>>
    /\ internalCommands = <<>>
    /\ runningCommands = <<>>
    /\ connectionInitialized = FALSE
    /\ reconnectEnabled = TRUE
    /\ wakeups = 0
    /\ nested = "none"
    /\ suspended = <<>>
    /\ socket = "null"
    /\ requests = <<>>
    /\ replies = <<>>
    /\ serverDb = 0
    /\ sent = 0
    /\ faults = 0
    /\ answered = {}

-----------------------------------------------------------------------------
(* Operators shared by the handlers. *)

SelectCommand(db) ==
    [id |-> 0, kind |-> "select", db |-> NoDb, owner |-> NoOwner, hi |-> FALSE, arg |-> db]
HandshakeCommand ==
    [id |-> 0, kind |-> "handshake", db |-> NoDb, owner |-> NoOwner, hi |-> TRUE, arg |-> 0]

IsConnected == ~stoppingTransporter /\ thread \in {"starting", "running"}

\* The transporter thread is at an event loop, the outer one or a nested one.
AtEventLoop == thread = "running" /\ nested \notin {"resume", "inline"}

Spend(fault) == fault \in Faults /\ faults < MaxFaults /\ faults' = faults + 1

\* The commands of a list that are, or are not, for the internal queue.
HiPriority(cmds) == {k \in DOMAIN cmds : cmds[k].hi}
LowPriority(cmds) == {k \in DOMAIN cmds : ~cmds[k].hi}
OwnedBy(cmds, owner) == {k \in DOMAIN cmds : cmds[k].owner = owner}

\* QTimer::singleShot(0, this, &processCommandQueue), besides w pending ones.
\* Mutant: it is forgotten.
NoTimer(w) == w
SetTimer(w) == w + 1

\* Mutant: new commands are put in front.
PutInFront(queue, cmds) == cmds \o queue
Enqueue(queue, cmds) == queue \o cmds

\* The commands of a queue that are left when an owner is gone.
\* Mutants: all of them; none of them.
KeepAll(cmds, owner) == cmds
KeepNone(cmds, owner) == <<>>
WithoutOwner(cmds, owner) == Subsequence(cmds, DOMAIN cmds \ OwnedBy(cmds, owner))

CommandsOf(running) == [k \in DOMAIN running |-> running[k].cmd]

\* errorOccurred: cancelRunningCommands runs at once (same thread), the
\* Connection hears of it later.  Mutant: it never does.
CancelSilently ==
    /\ runningCommands' = <<>>
    /\ UNCHANGED outbox
ErrorOccurred ==
    /\ runningCommands' = <<>>
    /\ outbox' = Append(outbox, "error")

-----------------------------------------------------------------------------
(* The caller's thread. *)

\* runCommand, runCommands: one addCommandsToWorker for the whole list.
Submit(batch) ==
    /\ IsConnected
    /\ Len(submitted) + Len(batch) <= MaxCommands
    /\ \A k \in DOMAIN batch : batch[k].owner \notin destroyed
    /\ inbox' = Append(inbox, [type |-> "add",
                               batch |-> [k \in DOMAIN batch |->
                                            [batch[k] EXCEPT !.id = Len(submitted) + k]]])
    /\ submitted' = submitted \o [k \in DOMAIN batch |-> batch[k].owner]
    /\ UNCHANGED <<destroyed, stoppingTransporter, outbox, dbNumber, queueVars, thread,
                   connectionInitialized, reconnectEnabled, loopVars, netVars, faults, answered>>

\* A callback's owner is deleted: destroyed() is queued to cancelCommands.
DestroyOwner(owner) ==
    /\ IsConnected
    /\ owner \notin destroyed
    /\ destroyed' = destroyed \union {owner}
    /\ inbox' = Append(inbox, [type |-> "cancel", owner |-> owner])
    /\ UNCHANGED <<submitted, stoppingTransporter, outbox, dbNumber, queueVars, thread,
                   connectionInitialized, reconnectEnabled, loopVars, netVars, faults, answered>>

\* disconnect(): shutdownStart, then quit() and wait() for the thread.  The
\* caller does nothing more until the thread has finished.
Shutdown ==
    /\ IsConnected
    /\ stoppingTransporter' = TRUE
    /\ inbox' = Append(inbox, [type |-> "shutdown"])

Disconnect ==
    /\ Shutdown
    /\ UNCHANGED <<submitted, destroyed, outbox, dbNumber, queueVars, thread,
                   connectionInitialized, reconnectEnabled, loopVars, netVars, faults, answered>>

\* What the Connection posts back on a signal of the transporter: auth() sends
\* its PING with high priority; PONG gives authOk; anything else disconnects.
HandleSignal(signal) ==
    \/ /\ signal = "connected"
       /\ inbox' = Append(inbox, [type |-> "add", batch |-> <<HandshakeCommand>>])
       /\ UNCHANGED stoppingTransporter
    \/ /\ signal = "pong"
       /\ inbox' = Append(inbox, [type |-> "authOk"])
       /\ UNCHANGED stoppingTransporter
    \/ /\ signal \in {"refused", "error"}
       /\ Shutdown

ReceiveSignal ==
    /\ IsConnected
    /\ outbox # <<>>
    /\ HandleSignal(Head(outbox))
    /\ outbox' = Tail(outbox)
    /\ UNCHANGED <<submitted, destroyed, dbNumber, queueVars, thread,
                   connectionInitialized, reconnectEnabled, loopVars, netVars, faults, answered>>

-----------------------------------------------------------------------------
(* The transporter thread: its start and its end, and the calls queued to it. *)

\* QThread::started -> init(): initSocket, then connectToHost waits in a nested loop.
TransporterInit ==
    /\ thread = "starting"
    /\ thread' = "running"
    /\ socket' = "connecting"
    /\ nested' = "init"
    /\ UNCHANGED <<callerVars, queueVars, inbox, connectionInitialized, reconnectEnabled,
                   suspended, requests, replies, serverDb, sent, faults, answered>>

\* disconnectFromHost drops everything, socket included.
DisconnectFromHost ==
    /\ runningCommands' = <<>>
    /\ commands' = <<>>
    /\ internalCommands' = <<>>
    /\ connectionInitialized' = FALSE
    /\ socket' = "null"
    /\ requests' = <<>>
    /\ replies' = <<>>

\* The outer loop has ended: QThread::finished -> disconnectFromHost, and
\* disconnect() goes on in the caller's thread.
Quit ==
    /\ AtEventLoop /\ nested = "none"
    /\ stoppingTransporter
    /\ DisconnectFromHost
    /\ thread' = "finished"
    /\ inbox' = <<>>
    /\ wakeups' = 0
    /\ stoppingTransporter' = FALSE
    /\ dbNumber' = 0
    /\ UNCHANGED <<submitted, destroyed, outbox, reconnectEnabled, loopVars, serverDb,
                   sent, faults, answered>>

\* Takes the oldest call, which must be of this type, out of the inbox.
Receive(type) ==
    /\ AtEventLoop
    /\ inbox # <<>> /\ Head(inbox).type = type
    /\ inbox' = Tail(inbox)

AddCommands ==
    /\ Receive("add")
    /\ LET batch == Head(inbox).batch
       IN  /\ internalCommands' = Enqueue(internalCommands, Subsequence(batch, HiPriority(batch)))
           /\ commands' = Enqueue(commands, Subsequence(batch, LowPriority(batch)))
    /\ wakeups' = IF socket # "null" THEN SetTimer(wakeups) ELSE wakeups
    /\ UNCHANGED <<callerVars, runningCommands, thread, connectionInitialized,
                   reconnectEnabled, loopVars, netVars, faults, answered>>

AuthOk ==
    /\ Receive("authOk")
    /\ connectionInitialized' = TRUE
    /\ wakeups' = SetTimer(wakeups)
    /\ UNCHANGED <<callerVars, commands, internalCommands, runningCommands, thread,
                   reconnectEnabled, loopVars, netVars, faults, answered>>

\* cancelCommands forgets the owner's running commands, whose requests are
\* already written, and its waiting ones; internalCommands is left alone.
CancelCommands ==
    /\ Receive("cancel")
    /\ LET owner   == Head(inbox).owner
           running == CommandsOf(runningCommands)
       IN  /\ runningCommands' =
                  Subsequence(runningCommands, DOMAIN running \ OwnedBy(running, owner))
           /\ commands' = WithoutOwner(commands, owner)
    /\ UNCHANGED <<callerVars, internalCommands, wakeups, thread, connectionInitialized,
                   reconnectEnabled, loopVars, netVars, faults, answered>>

ShutdownStart ==
    /\ Receive("shutdown")
    /\ DisconnectFromHost
    /\ UNCHANGED <<callerVars, wakeups, thread, reconnectEnabled, loopVars, serverDb,
                   sent, faults, answered>>

-----------------------------------------------------------------------------
(* processCommandQueue and what it runs. *)

\* Mutant: SELECT without asking hasDbIndex.
AlwaysSelect(cmd) == <<SelectCommand(cmd.db), cmd>>

\* The commands executeCmd runs for cmd.
WithSelect(cmd) == IF cmd.db # NoDb THEN <<SelectCommand(cmd.db), cmd>> ELSE <<cmd>>

Tagged(todo) == [k \in DOMAIN todo |-> [tag |-> sent + k, cmd |-> todo[k]]]

\* Control goes back to the loop that called the handler.
Return ==
    /\ nested' = IF nested \in {"resume", "inline"} THEN "none" ELSE nested
    /\ suspended' = IF nested = "resume" THEN <<>> ELSE suspended

\* The rest of executeCmd: runCommand on each of todo, then a timer for the
\* next command.  c is m_commands now, w the timers besides that one.
\* sendCommand writes (Qt buffers what is written while connecting).
Transmit(todo, c, w) ==
    /\ todo = <<>> \/ socket \in {"connecting", "connected"}
    /\ runningCommands' = runningCommands \o Tagged(todo)
    /\ requests' = requests \o Tagged(todo)
    /\ sent' = sent + Len(todo)
    /\ commands' = c
    /\ wakeups' = SetTimer(w)
    /\ Return
    /\ UNCHANGED <<outbox, thread, socket, replies>>

\* What executeCmd has still to run when runCommand returns from the reconnect.
\* Mutant: nothing.
RestForgotten(todo) == <<>>
Rest(todo) == Tail(todo)

\* runCommand on an unconnected socket puts its command back, in front of
\* m_commands, and reconnects; the commands after it have to wait for that.
Reconnect(todo, c, w) ==
    /\ todo # <<>>
    /\ socket = "unconnected" /\ reconnectEnabled
    /\ commands' = <<Head(todo)>> \o c
    /\ suspended' = Rest(todo)
    /\ nested' = "reconnect"
    /\ socket' = "connecting"
    /\ requests' = <<>>
    /\ replies' = <<>>
    /\ wakeups' = w
    /\ UNCHANGED <<outbox, thread, runningCommands, sent>>

\* runCommand when reconnecting was given up: an error, and the command is gone.
Refuse(todo, c, w) ==
    /\ todo # <<>>
    /\ socket = "unconnected" /\ ~reconnectEnabled
    /\ outbox' = outbox \o [k \in DOMAIN todo |-> "error"]
    /\ runningCommands' = <<>>
    /\ commands' = c
    /\ wakeups' = SetTimer(w)
    /\ Return
    /\ UNCHANGED <<thread, socket, requests, replies, sent>>

\* isSocketReconnectRequired() is false without a socket, and sendCommand writes to it.
Crash(todo, c, w) ==
    /\ todo # <<>>
    /\ socket = "null"
    /\ thread' = "crashed"
    /\ commands' = c
    /\ wakeups' = w
    /\ UNCHANGED <<outbox, runningCommands, loopVars, socket, requests, replies, sent>>

RunCommands(todo, c, w) ==
    /\ \/ Transmit(todo, c, w)
       \/ Reconnect(todo, c, w)
       \/ Refuse(todo, c, w)
       \/ Crash(todo, c, w)
    /\ UNCHANGED <<submitted, destroyed, stoppingTransporter, dbNumber, inbox,
                   connectionInitialized, reconnectEnabled, serverDb, answered>>

\* processCommandQueue runs: a timer fired, or the error handler called it.
ProcessingQueue ==
    /\ thread = "running"
    /\ nested = "inline" \/ (nested # "resume" /\ wakeups > 0)
OtherWakeups == IF nested = "inline" THEN wakeups ELSE wakeups - 1

HiPriorityRunning == HiPriority(CommandsOf(runningCommands)) # {}

\* Nothing waits: queueIsEmpty is emitted and no timer is set.
QueueIsEmpty ==
    /\ ProcessingQueue
    /\ commands = <<>> /\ internalCommands = <<>>
    /\ wakeups' = OtherWakeups
    /\ Return
    /\ UNCHANGED <<callerVars, commands, internalCommands, runningCommands, threadVars,
                   netVars, faults, answered>>

\* The internal queue goes first, whatever is running.
RunInternalCommand ==
    /\ ProcessingQueue
    /\ internalCommands # <<>>
    /\ internalCommands' = Tail(internalCommands)
    /\ RunCommands(WithSelect(Head(internalCommands)), commands, OtherWakeups)
    /\ UNCHANGED faults

\* Wait while a high-priority command runs or the session is not authorised.
Poll ==
    /\ ProcessingQueue
    /\ internalCommands = <<>> /\ commands # <<>>
    /\ HiPriorityRunning \/ ~connectionInitialized
    /\ wakeups' = SetTimer(OtherWakeups)
    /\ Return
    /\ UNCHANGED <<callerVars, commands, internalCommands, runningCommands, threadVars,
                   netVars, faults, answered>>

RunNextCommand ==
    /\ ProcessingQueue
    /\ internalCommands = <<>> /\ commands # <<>>
    /\ ~HiPriorityRunning /\ connectionInitialized
    /\ RunCommands(WithSelect(Head(commands)), Tail(commands), OtherWakeups)
    /\ UNCHANGED <<internalCommands, faults>>

\* Mutant: executeCmd goes on only when the reconnect succeeded.
ResumeConnected ==
    /\ thread = "running" /\ nested = "resume" /\ socket = "connected"
    /\ RunCommands(suspended, commands, wakeups)
    /\ UNCHANGED <<internalCommands, faults>>

\* The nested loop of a reconnect has ended: executeCmd goes on.
Resume ==
    /\ thread = "running" /\ nested = "resume"
    /\ RunCommands(suspended, commands, wakeups)
    /\ UNCHANGED <<internalCommands, faults>>

-----------------------------------------------------------------------------
(* connectToHost: how its nested event loop ends. *)

\* init() has nothing to go on with, a reconnect has.
EndNestedLoop ==
    /\ nested \in {"init", "reconnect"}
    /\ nested' = IF nested = "init" THEN "none" ELSE "resume"

\* resetDbIndex, after a reconnect.  Mutant: it is not called.
KeepDbIndex == UNCHANGED dbNumber
ResetDbIndex == dbNumber' = IF nested = "reconnect" THEN 0 ELSE dbNumber

\* connected() is emitted.
ConnectSucceeds ==
    /\ thread = "running" /\ socket = "connecting"
    /\ EndNestedLoop
    /\ socket' = "connected"
    /\ serverDb' = 0
    /\ outbox' = Append(outbox, "connected")
    /\ ResetDbIndex
    /\ UNCHANGED <<submitted, destroyed, stoppingTransporter, queueVars, threadVars,
                   suspended, requests, replies, sent, faults, answered>>

ConnectFails ==
    /\ thread = "running" /\ socket = "connecting"
    /\ EndNestedLoop
    /\ Spend("connectFail")
    /\ ErrorOccurred
    /\ socket' = "unconnected"
    /\ requests' = <<>>
    /\ UNCHANGED <<submitted, destroyed, stoppingTransporter, dbNumber, commands,
                   internalCommands, wakeups, threadVars, suspended, replies, serverDb,
                   sent, answered>>

\* The timer of the waiter: the socket goes on connecting.
ConnectTimesOut ==
    /\ thread = "running" /\ socket = "connecting"
    /\ EndNestedLoop
    /\ Spend("timeout")
    /\ ErrorOccurred
    /\ UNCHANGED <<submitted, destroyed, stoppingTransporter, dbNumber, commands,
                   internalCommands, wakeups, threadVars, suspended, netVars, answered>>

\* quit() ends every event loop of the thread, the nested one too.
ConnectInterrupted ==
    /\ thread = "running" /\ stoppingTransporter
    /\ EndNestedLoop
    /\ ErrorOccurred
    /\ UNCHANGED <<submitted, destroyed, stoppingTransporter, dbNumber, commands,
                   internalCommands, wakeups, threadVars, suspended, netVars, faults, answered>>

\* Connected after the waiter gave up: nobody listens for it.
ConnectsLate ==
    /\ AtEventLoop /\ nested = "none"
    /\ socket = "connecting"
    /\ socket' = "connected"
    /\ serverDb' = 0
    /\ UNCHANGED <<callerVars, queueVars, threadVars, loopVars, requests, replies, sent,
                   faults, answered>>

-----------------------------------------------------------------------------
(* Errors of the established socket. *)

\* What was under way on the connection is lost.
ConnectionLost ==
    /\ AtEventLoop /\ nested = "none"
    /\ socket \in {"connecting", "connected"}
    /\ socket' = "unconnected"
    /\ requests' = <<>>
    /\ replies' = <<>>

\* Any error but UnknownSocketError, and that one when nothing is running.
SocketError ==
    /\ ConnectionLost
    /\ Spend("closed")
    /\ ErrorOccurred
    /\ UNCHANGED <<submitted, destroyed, stoppingTransporter, dbNumber, commands,
                   internalCommands, wakeups, threadVars, loopVars, serverDb, sent, answered>>

\* reAddRunningCommandToQueue: each running command is put in front of its queue
\* in turn, so that the last one comes first; then processCommandQueue is called.
UnknownSocketError ==
    /\ ConnectionLost
    /\ Spend("unknown")
    /\ runningCommands # <<>>
    /\ LET running == CommandsOf(runningCommands)
       IN  /\ internalCommands' =
                  Reverse(Subsequence(running, HiPriority(running))) \o internalCommands
           /\ commands' = Reverse(Subsequence(running, LowPriority(running))) \o commands
    /\ runningCommands' = <<>>
    /\ nested' = "inline"
    /\ UNCHANGED <<callerVars, wakeups, threadVars, suspended, serverDb, sent, answered>>

-----------------------------------------------------------------------------
(* readyRead: sendResponse for the oldest reply. *)

ReadReply ==
    /\ AtEventLoop
    /\ replies # <<>>
    /\ replies' = Tail(replies)

\* readyRead stops delivering once m_stoppingTransporter is set.
DiscardReply ==
    /\ ReadReply
    /\ stoppingTransporter
    /\ UNCHANGED <<callerVars, queueVars, threadVars, loopVars, socket, requests, serverDb,
                   sent, faults, answered>>

\* No command is running: only an error-state message (DENIED, LOADING,
\* MISCONF) matters, it gives up reconnecting.
UnexpectedReply ==
    /\ ReadReply
    /\ ~stoppingTransporter
    /\ runningCommands = <<>>
    /\ IF Head(replies).status = "errorState"
       THEN reconnectEnabled' = FALSE /\ ErrorOccurred
       ELSE UNCHANGED <<reconnectEnabled, runningCommands, outbox>>
    /\ UNCHANGED <<submitted, destroyed, stoppingTransporter, dbNumber, commands,
                   internalCommands, wakeups, thread, inbox, connectionInitialized, loopVars,
                   socket, requests, serverDb, sent, faults, answered>>

\* Mutant: the OK of MULTI is taken for the reply of the transaction.
QueuedOnly(cmd, status) ==
    \/ cmd.kind = "transaction" /\ status = "queued"
    \/ cmd.kind = "pipeline" /\ cmd.arg > 1

\* This reply is not the last one of the first running command.
Intermediate(cmd, status) ==
    \/ cmd.kind = "transaction" /\ status \in {"ok", "queued"}
    \/ cmd.kind = "pipeline" /\ cmd.arg > 1

IntermediateReply ==
    /\ ReadReply
    /\ ~stoppingTransporter
    /\ runningCommands # <<>>
    /\ LET cmd == Head(runningCommands).cmd
       IN  /\ Intermediate(cmd, Head(replies).status)
           /\ runningCommands' = IF cmd.kind = "pipeline"
                                 THEN [runningCommands EXCEPT ![1].cmd.arg = cmd.arg - 1]
                                 ELSE runningCommands
    /\ UNCHANGED <<callerVars, commands, internalCommands, wakeups, threadVars, loopVars,
                   socket, requests, serverDb, sent, faults, answered>>

\* Mutant: the command stays at the head.
Peek == UNCHANGED runningCommands
Dequeue == runningCommands' = Tail(runningCommands)

\* The oldest reply is taken as the answer to the first running command.
FinalReply ==
    /\ ReadReply
    /\ ~stoppingTransporter
    /\ runningCommands # <<>>
    /\ ~Intermediate(Head(runningCommands).cmd, Head(replies).status)
    /\ Dequeue

\* Re-try on protocol errors: back in front of m_commands.
RetryCommand ==
    /\ FinalReply
    /\ Head(replies).status = "protocolError"
    /\ commands' = <<Head(runningCommands).cmd>> \o commands
    /\ UNCHANGED <<callerVars, internalCommands, wakeups, threadVars, loopVars,
                   socket, requests, serverDb, sent, faults, answered>>

\* The deferred completes and the callback is queued; an OK for SELECT sets
\* m_dbNumber; the reply to the handshake is for Connection::auth.
CompleteCommand ==
    /\ FinalReply
    /\ Head(replies).status # "protocolError"
    /\ LET cmd == Head(runningCommands).cmd
           status == Head(replies).status
       IN  /\ dbNumber' = IF cmd.kind = "select" /\ status = "ok" THEN cmd.arg ELSE dbNumber
           /\ outbox' = IF cmd.kind # "handshake" THEN outbox
                        ELSE Append(outbox, IF status = "pong" THEN "pong" ELSE "refused")
           /\ answered' = answered \union ({cmd.id} \ {0})
    /\ UNCHANGED <<submitted, destroyed, stoppingTransporter, commands, internalCommands,
                   wakeups, threadVars, loopVars, socket, requests, serverDb, sent, faults>>

-----------------------------------------------------------------------------
(* The server (external): executes the requests in order. *)

\* The replies to a command that succeeds.
SuccessStatuses(cmd) ==
    CASE cmd.kind = "plain"       -> <<"value">>
      [] cmd.kind = "select"      -> <<"ok">>
      [] cmd.kind = "handshake"   -> <<"pong">>
      [] cmd.kind = "pipeline"    -> [k \in 1..cmd.arg |-> "value"]
      [] cmd.kind = "transaction" -> <<"ok">> \o [k \in 1..cmd.arg |-> "queued"] \o <<"value">>

\* MULTI, a command that cannot be queued, the others, EXECABORT.
QueueErrorStatuses(cmd) ==
    <<"ok", "error">> \o [k \in 1..(cmd.arg - 1) |-> "queued"] \o <<"error">>

Respond(statuses) ==
    /\ thread = "running"
    /\ socket = "connected"
    /\ requests # <<>>
    /\ requests' = Tail(requests)
    /\ replies' = replies \o [k \in DOMAIN statuses |->
                                [tag |-> Head(requests).tag, status |-> statuses[k]]]
    /\ UNCHANGED <<callerVars, queueVars, threadVars, loopVars, socket, sent, answered>>

ServerExecutes ==
    /\ requests # <<>>
    /\ LET cmd == Head(requests).cmd
       IN  /\ Respond(SuccessStatuses(cmd))
           /\ serverDb' = IF cmd.kind = "select" THEN cmd.arg ELSE serverDb
    /\ UNCHANGED faults

\* A proxy or a server that keeps the connection open after a protocol error.
ServerProtocolError ==
    /\ requests # <<>> /\ Head(requests).cmd.kind \in {"plain", "select", "handshake"}
    /\ Spend("protocolError")
    /\ Respond(<<"protocolError">>)
    /\ UNCHANGED serverDb

ServerRefusesSelect ==
    /\ requests # <<>> /\ Head(requests).cmd.kind = "select"
    /\ Spend("selectRefused")
    /\ Respond(<<"error">>)
    /\ UNCHANGED serverDb

ServerAbortsTransaction ==
    /\ requests # <<>>
    /\ Head(requests).cmd.kind = "transaction" /\ Head(requests).cmd.arg > 0
    /\ Spend("queueError")
    /\ Respond(QueueErrorStatuses(Head(requests).cmd))
    /\ UNCHANGED serverDb

\* DENIED, LOADING or MISCONF, sent to a client that asked nothing.
ServerErrorState ==
    /\ thread = "running" /\ socket = "connected"
    /\ Spend("errorState")
    /\ replies' = Append(replies, [tag |-> 0, status |-> "errorState"])
    /\ UNCHANGED <<callerVars, queueVars, threadVars, loopVars, socket, requests,
                   serverDb, sent, answered>>

-----------------------------------------------------------------------------

CallerNext ==
    \/ \E batch \in Batches : Submit(batch)
    \/ \E owner \in Owners : DestroyOwner(owner)
    \/ Disconnect
    \/ ReceiveSignal

InboxNext == AddCommands \/ AuthOk \/ CancelCommands \/ ShutdownStart

QueueNext == QueueIsEmpty \/ RunInternalCommand \/ Poll \/ RunNextCommand \/ Resume

ConnectNext ==
    \/ ConnectSucceeds \/ ConnectFails \/ ConnectTimesOut \/ ConnectInterrupted
    \/ ConnectsLate \/ SocketError \/ UnknownSocketError

ReplyNext ==
    DiscardReply \/ UnexpectedReply \/ IntermediateReply \/ RetryCommand \/ CompleteCommand

ServerNext ==
    \/ ServerExecutes \/ ServerProtocolError \/ ServerRefusesSelect
    \/ ServerAbortsTransaction \/ ServerErrorState

Next ==
    \/ CallerNext \/ TransporterInit \/ Quit \/ InboxNext \/ QueueNext
    \/ ConnectNext \/ ReplyNext \/ ServerNext

Spec == Init /\ [][Next]_vars

\* Both threads run their event loops, the waiter of a nested loop has a timer,
\* and the server answers.  Nobody has to fail, to submit or to disconnect.
Fairness ==
    /\ WF_vars(TransporterInit)
    /\ WF_vars(Quit)
    /\ WF_vars(ReceiveSignal)
    /\ WF_vars(InboxNext)
    /\ WF_vars(QueueNext)
    /\ WF_vars(ConnectSucceeds)
    /\ WF_vars(ConnectInterrupted)
    /\ WF_vars(ReplyNext)
    /\ WF_vars(ServerExecutes)

FairSpec == Spec /\ Fairness

-----------------------------------------------------------------------------
(* Properties. *)

Ids(cmds) == {cmds[k].id : k \in DOMAIN cmds} \ {0}
Posted == UNION {Ids(inbox[k].batch) : k \in {j \in DOMAIN inbox : inbox[j].type = "add"}}
InHand == commands \o internalCommands \o CommandsOf(runningCommands) \o suspended

\* Nobody disconnects and no error waits to make the Connection do so.
Healthy ==
    /\ IsConnected
    /\ \A k \in DOMAIN outbox : outbox[k] \notin {"error", "refused"}

\* No command is forgotten, whatever fails and is retried: while the session
\* is healthy, each one whose owner lives is answered, posted, or in a queue
\* of the transporter (the queues, reAddRunningCommandToQueue, runCommand's
\* diversion through a reconnect).
NothingLost ==
    Healthy => \A id \in DOMAIN submitted :
        submitted[id] \in destroyed \/ id \in answered \union Posted \union Ids(InHand)

\* No command is in two places, or in a queue again once its deferred has
\* completed: a retry or a reconnect moves a command and never copies it.
AnsweredOnce ==
    /\ \A j, k \in DOMAIN InHand : j # k /\ InHand[j].id = InHand[k].id => InHand[j].id = 0
    /\ Ids(InHand) \intersect (answered \union Posted) = {}
    /\ answered \intersect Posted = {}

\* The oldest unread reply answers the first running command, the one
\* sendResponse will give it to, and every running command has its request or
\* a reply on the way.
RepliesMatch ==
    ~stoppingTransporter =>
        /\ replies # <<>> =>
               runningCommands # <<>> /\ Head(runningCommands).tag = Head(replies).tag
        /\ \A k \in DOMAIN runningCommands :
               \/ \E j \in DOMAIN requests : requests[j].tag = runningCommands[k].tag
               \/ \E j \in DOMAIN replies : replies[j].tag = runningCommands[k].tag

\* A command that waits in a queue has a timer of processCommandQueue that
\* will look at it, at the outer loop and while the first connect is under
\* way; a reconnect sets one when it is over.
WaitingHasWakeup ==
    thread = "running" /\ nested \in {"none", "init"} /\ commands \o internalCommands # <<>>
        => wakeups > 0

\* When nothing is under way, m_dbNumber is the database the server has selected.
DatabaseTracked ==
    Healthy /\ socket = "connected" /\ requests \o replies = <<>> => dbNumber = serverDb

\* A command that names a database finds it selected when the server comes to it.
RunsInItsDatabase ==
    socket = "connected" /\ requests # <<>> /\ Head(requests).cmd.db # NoDb
        => serverDb = Head(requests).cmd.db

\* Commands of normal priority are written in the order they were posted.
FirstInFirstOut ==
    Healthy =>
        LET line == CommandsOf(runningCommands) \o commands
            user == {k \in DOMAIN line : line[k].id # 0 /\ ~line[k].hi}
        IN  \A j, k \in user : j < k => line[j].id < line[k].id

\* Once cancelCommands has run for an owner, no command of it is left to run.
CancelledOwnersLeave ==
    \A owner \in destroyed :
        (\A k \in DOMAIN inbox : inbox[k] # [type |-> "cancel", owner |-> owner])
            => OwnedBy(InHand, owner) = {}

\* What has become of each command, seen from outside.
Fate == [id \in DOMAIN submitted |->
            IF id \in answered THEN "answered"
            ELSE IF thread # "crashed" /\ id \in Posted \union Ids(InHand) THEN "waiting"
            ELSE "dropped"]
SessionState ==
    IF ~IsConnected THEN "closed" ELSE IF Healthy THEN "open" ELSE "broken"

Promise == INSTANCE Calls WITH
    MaxCalls <- MaxCommands, owner <- submitted, fate <- Fate, gone <- destroyed,
    session <- SessionState

\* The session keeps the promise of Calls through reconnects, retries and the
\* destruction of owners: a command is answered once or dropped, and dropped
\* only for its owner's sake or when an error is on its way that closes the session.
KeepsPromise == Promise!Spec

\* Every command is answered or the session ends, if only by a crash.
EveryCommandEnds ==
    \A id \in 1..MaxCommands :
        id \in DOMAIN submitted ~> id \in answered \/ thread \in {"finished", "crashed"}

\* disconnect() returns, whether the thread it waits for is in a nested loop or not.
\* The one exception is an executeCmd whose SELECT waits for a reconnect: with the
\* socket gone, it goes on to write the command behind the SELECT, and crashes.
InterruptedAtSelect == nested = "resume" /\ suspended # <<>> /\ socket = "null"
DisconnectReturns ==
    stoppingTransporter ~>
        thread = "finished" \/ (thread = "crashed" /\ InterruptedAtSelect)

=============================================================================

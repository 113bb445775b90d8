------------------------------ MODULE Cluster ------------------------------
(***************************************************************************)
(* A session in cluster mode: the branches of abstracttransporter.cpp for  *)
(* Mode::Cluster (the choice of a node for each command, redirects,        *)
(* reconnectTo), the handshake that loads the slots, and the walk over the *)
(* master nodes of getClusterKeys and flushDbKeys in connection.cpp.       *)
(*                                                                         *)
(* As in Transporter, `inbox' and `outbox' are the calls queued to the     *)
(* transporter thread and to the caller's.  The session starts when a      *)
(* first handshake has loaded the slots, and ends with the first error.    *)
(***************************************************************************)
EXTENDS Integers, FiniteSets, SequencesExt, Subsequences

CONSTANTS
    Nodes,        \* the master nodes
    Port,         \* the port of each node
    Slots,        \* the hash slots of the keys in use
    Importing,    \* for each slot in migration, the node that imports it
    Walks,        \* what may walk over the nodes: getClusterKeys, flushDbKeys
    MaxRedirects, \* MAX_CLUSTER_REDIRECTS
    MaxCalls,     \* bound: key commands posted and walks started
    Moves,        \* bound: the moves of a slot to a node, each made at most once
    FirstOwner,   \* the node of each slot at first
    FirstNode     \* the node that is connected at first

ASSUME SlotsAssumption == IsFiniteSet(Slots)
ASSUME PortAssumption == Port \in [Nodes -> Nat]
ASSUME ImportingAssumption == \E S \in SUBSET Slots : Importing \in [S -> Nodes]
ASSUME FirstAssumption == FirstOwner \in [Slots -> Nodes] /\ FirstNode \in Nodes
ASSUME BoundsAssumption == {MaxRedirects, MaxCalls} \subseteq Nat
ASSUME MovesAssumption == Moves \subseteq Slots \X Nodes

\* A user's command for the key of a slot, a command of a walk, and those of
\* the library, which have high priority.
KeyCommand == [kind : {"key"}, id : 1..MaxCalls, slot : Slots]
VisitCommand == [kind : {"visit"}, walk : Walks]
MastersCommand == [kind : {"masters"}, walk : Walks]
HandshakeCommand == [kind : {"ping", "info", "slots"}]
Command == KeyCommand \union VisitCommand \union MastersCommand \union HandshakeCommand
HiPriority(cmd) == cmd.kind \in {"ping", "info", "slots", "masters"}

Topology == [Slots -> Nodes]
NoSlots == <<>>

VARIABLES
    session,           \* "up", "lost", or "aborted" for too many redirects
    \* the caller's thread
    submitted,         \* the slots of the key commands posted, in order
    outbox,            \* signals and replies queued to the Connection
    serverInfo,        \* whether m_serverInfo is populated
    clusterSlots,      \* m_clusterSlots
    notVisitedMasterNodes, \* m_notVisitedMasterNodes
    contexts,          \* the walks whose callAfterConnect waits, each with its number
    contextCount,      \* callAfterConnect calls so far
    \* the transporter thread
    inbox,             \* calls queued to the transporter
    commands,          \* m_commands
    internalCommands,  \* m_internalCommands
    runningCommands,   \* m_runningCommands
    wakeup,            \* whether a timer of processCommandQueue is pending
    pendingClusterRedirect,   \* m_pendingClusterRedirect
    redirectTimer,     \* the reconnectTo that a timer will call: <<>> or one entry
    followedClusterRedirects, \* m_followedClusterRedirects
    nested,            \* who waits in a nested loop of connectToHost, innermost last
    \* the connection and the cluster
    config,            \* the node that m_config names
    socket,            \* "connecting" or "connected", to that node
    requests,          \* written, and their replies not yet read
    owner,             \* the node of each slot
    moved,             \* the moves made so far
    \* history
    answered,          \* the ids of the key commands answered, in order
    walk               \* of each walk: the masters listed, the nodes visited, the calls
                       \* of its callback, and whether the connection was its own

callerVars == <<submitted, serverInfo, clusterSlots, notVisitedMasterNodes, contexts,
                contextCount>>
queueVars == <<commands, internalCommands, runningCommands>>
redirectVars == <<pendingClusterRedirect, redirectTimer, followedClusterRedirects, nested>>
netVars == <<config, socket, requests>>
clusterVars == <<owner, moved>>
historyVars == <<answered, walk>>
vars == <<session, callerVars, outbox, inbox, queueVars, wakeup, redirectVars, netVars,
          clusterVars, historyVars>>

-----------------------------------------------------------------------------

Reason == {"walk", "redirect", "pick"}
Call == [type : {"add"}, cmd : Command] \union [type : {"authOk"}]
        \union [type : {"reconnectTo"}, node : Nodes]
Reply == [type : {"pong", "info", "value", "moved", "ask"}, node : Nodes]
         \union [type : {"slots"}, node : Nodes, slots : Topology]
Signal == [type : {"connected"}] \union [type : {"reply"}, cmd : Command, reply : Reply]
          \union [type : {"deleteLater"}, upTo : Nat]

\* Every variable stays in its type; at most one redirect is pending.
TypeOK ==
    /\ session \in {"up", "lost", "aborted"}
    /\ submitted \in Seq(Slots)
    /\ outbox \in Seq(Signal)
    /\ serverInfo \in BOOLEAN
    /\ clusterSlots \in Topology \union {NoSlots}
    /\ notVisitedMasterNodes \in Seq(Nodes)
    /\ contexts \in Seq([walk : Walks, no : Nat])
    /\ contextCount \in Nat
    /\ inbox \in Seq(Call)
    /\ commands \in Seq(Command)
    /\ internalCommands \in Seq(Command)
    /\ runningCommands \in Seq(Command)
    /\ wakeup \in BOOLEAN
    /\ pendingClusterRedirect \in BOOLEAN
    /\ redirectTimer \in {<<>>} \union {<<t>> : t \in [node : Nodes, reason : Reason]}
    /\ followedClusterRedirects \in 0..MaxRedirects
    /\ nested \in Seq(Reason)
    /\ config \in Nodes
    /\ socket \in {"connecting", "connected"}
    /\ requests \in Seq(Command)
    /\ owner \in Topology
    /\ moved \subseteq Moves
    /\ answered \in Seq(1..MaxCalls)
    /\ walk \in [Walks -> [masters : SUBSET Nodes, visited : Seq(Nodes), calls : Nat,
                           started : BOOLEAN, alone : BOOLEAN]]

Init ==
    /\ session = "up"
    /\ submitted = <<>>
    /\ outbox = <<>>
    /\ serverInfo = TRUE
    /\ owner = FirstOwner
    /\ clusterSlots = FirstOwner
    /\ notVisitedMasterNodes = <<>>
    /\ contexts = <<>>
    /\ contextCount = 0
    /\ inbox = <<>>
    /\ commands = <<>>
    /\ internalCommands = <<>>
    /\ runningCommands = <<>>
    /\ wakeup = FALSE
    /\ pendingClusterRedirect = FALSE
    /\ redirectTimer = <<>>
    /\ followedClusterRedirects = 0
    /\ nested = <<>>
    /\ config = FirstNode
    /\ socket = "connected"
    /\ requests = <<>>
    /\ moved = {}
    /\ answered = <<>>
    /\ walk = [w \in Walks |-> [masters |-> {}, visited |-> <<>>, calls |-> 0,
                                started |-> FALSE, alone |-> TRUE]]

-----------------------------------------------------------------------------
(* The caller's thread. *)

Add(cmd) == [type |-> "add", cmd |-> cmd]
ReconnectCall(node) == [type |-> "reconnectTo", node |-> node]

\* A walk is under way, and its callback has not been called.
Active(w) == walk[w].started /\ walk[w].calls = 0

\* Nothing is under way on the connection.
Idle ==
    /\ inbox = <<>> /\ outbox = <<>> /\ contexts = <<>>
    /\ commands = <<>> /\ internalCommands = <<>> /\ runningCommands = <<>>
    /\ redirectTimer = <<>> /\ nested = <<>>

\* The walks when someone else uses the connection besides those in W.
Disturbed(W) == [w \in Walks |-> IF w \in W THEN walk[w] ELSE
                                 [walk[w] EXCEPT !.alone = @ /\ ~Active(w)]]

Calls == Len(submitted) + Cardinality({w \in Walks : walk[w].started})

Submit(slot) ==
    /\ Calls < MaxCalls
    /\ inbox' = Append(inbox, Add([kind |-> "key", id |-> Len(submitted) + 1, slot |-> slot]))
    /\ submitted' = Append(submitted, slot)
    /\ walk' = Disturbed({})
    /\ UNCHANGED <<session, serverInfo, clusterSlots, notVisitedMasterNodes, contexts,
                   contextCount, outbox, queueVars, wakeup, redirectVars, netVars,
                   clusterVars, answered>>

\* getClusterKeys, flushDbKeys: getMasterNodes asks for the slots.
StartWalk(w) ==
    /\ Calls < MaxCalls
    /\ ~walk[w].started
    /\ inbox' = Append(inbox, Add([kind |-> "masters", walk |-> w]))
    /\ walk' = [Disturbed({w}) EXCEPT
                  ![w].started = TRUE,
                  ![w].alone = Idle]
    /\ UNCHANGED <<session, callerVars, outbox, queueVars, wakeup, redirectVars, netVars,
                   clusterVars, answered>>

\* emit authOk: the transporter hears of it, and each callAfterConnect context
\* calls back, which posts the command of its walk, and deletes itself later.
EmitAuthOk ==
    /\ inbox' = inbox \o <<[type |-> "authOk"]>>
                      \o [k \in DOMAIN contexts |->
                            Add([kind |-> "visit", walk |-> contexts[k].walk])]
    /\ outbox' = IF contexts = <<>> THEN Tail(outbox)
                 ELSE Append(Tail(outbox), [type |-> "deleteLater", upTo |-> contextCount])
    /\ UNCHANGED <<notVisitedMasterNodes, contexts, contextCount, walk>>

\* Mutant: the last node leaves the list instead.
RemoveLastHost(hosts) == Front(hosts)
RemoveFirstHost(hosts) == Tail(hosts)

\* clusterConnectToNextMasterNode(onConnect), where hosts is the list of nodes.
ConnectToNextMasterNode(w, hosts) ==
    /\ IF hosts = <<>>
       THEN /\ notVisitedMasterNodes' = hosts
            /\ UNCHANGED <<contexts, contextCount, inbox>>
       ELSE /\ notVisitedMasterNodes' = RemoveFirstHost(hosts)
            /\ contexts' = Append(contexts, [walk |-> w, no |-> contextCount + 1])
            /\ contextCount' = contextCount + 1
            /\ inbox' = Append(inbox, ReconnectCall(Head(hosts)))
    /\ outbox' = Tail(outbox)

\* The Connection posts one more command of the handshake.
Continue(kind) ==
    /\ inbox' = Append(inbox, Add([kind |-> kind]))
    /\ outbox' = Tail(outbox)
    /\ UNCHANGED <<notVisitedMasterNodes, contexts, contextCount, walk>>

\* The nodes of r.value().toList(): there are none in another reply than the one expected.
SlotsIn(reply) == IF reply.type = "slots" THEN reply.slots ELSE NoSlots

\* auth(): PING, then INFO and CLUSTER SLOTS unless m_serverInfo is populated.
\* Where replies are out of step, something else than PONG is an authError, which
\* ends the session, and something else than INFO an empty m_serverInfo, of a server
\* that is no cluster.
Handshake(kind, reply) ==
    \/ /\ kind = "ping" /\ reply.type # "pong"
       /\ session' = "lost"
       /\ outbox' = Tail(outbox)
       /\ UNCHANGED <<inbox, serverInfo, clusterSlots, notVisitedMasterNodes, contexts,
                      contextCount, walk>>
    \/ /\ kind = "ping" /\ reply.type = "pong"
       /\ IF serverInfo THEN EmitAuthOk ELSE Continue("info")
       /\ UNCHANGED <<session, serverInfo, clusterSlots>>
    \/ /\ kind = "info"
       /\ serverInfo' = (reply.type = "info")
       /\ IF reply.type = "info" THEN Continue("slots") ELSE EmitAuthOk
       /\ UNCHANGED <<session, clusterSlots>>
    \/ /\ kind = "slots"
       /\ clusterSlots' = SlotsIn(reply)
       /\ EmitAuthOk
       /\ UNCHANGED <<session, serverInfo>>

\* The reply to a command of walk w.  Any reply goes for a visit: to FLUSHDB, and to
\* SCAN as a collection that is empty.
WalkGoesOn(w, cmd, reply) ==
    \/ /\ cmd.kind = "masters"
       /\ LET masters == Range(SlotsIn(reply))
          IN  /\ walk' = [walk EXCEPT ![w].masters = masters]
              /\ \E hosts \in SetToSeqs(masters) : ConnectToNextMasterNode(w, hosts)
    \/ /\ cmd.kind = "visit"
       /\ walk' = [walk EXCEPT ![w].visited = Append(@, reply.node),
                               ![w].calls = IF notVisitedMasterNodes = <<>> THEN @ + 1 ELSE @]
       /\ ConnectToNextMasterNode(w, notVisitedMasterNodes)

ReceiveSignal ==
    /\ outbox # <<>>
    /\ LET signal == Head(outbox)
       IN  \/ /\ signal.type = "connected"
              /\ Continue("ping")
              /\ UNCHANGED <<session, serverInfo, clusterSlots>>
           \/ /\ signal.type = "deleteLater"
              /\ contexts' = Subsequence(contexts,
                                          {k \in DOMAIN contexts : contexts[k].no > signal.upTo})
              /\ outbox' = Tail(outbox)
              /\ UNCHANGED <<session, inbox, serverInfo, clusterSlots, notVisitedMasterNodes,
                             contextCount, walk>>
           \/ /\ signal.type = "reply" /\ signal.cmd.kind \in {"ping", "info", "slots"}
              /\ Handshake(signal.cmd.kind, signal.reply)
           \/ /\ signal.type = "reply" /\ signal.cmd.kind \in {"masters", "visit"}
              /\ WalkGoesOn(signal.cmd.walk, signal.cmd, signal.reply)
              /\ UNCHANGED <<session, serverInfo, clusterSlots>>
    /\ UNCHANGED <<submitted, queueVars, wakeup, redirectVars, netVars, clusterVars,
                   answered>>

-----------------------------------------------------------------------------
(* The transporter thread: reconnecting. *)

Receive(type) ==
    /\ inbox # <<>> /\ Head(inbox).type = type
    /\ inbox' = Tail(inbox)

\* reconnectTo, reconnect, connectToHost: abort() drops what is under way, and
\* the disconnected signal is an error if something was running.  The nested
\* loop that follows may be inside another one.
ReconnectTo(node, reason) ==
    /\ config' = node
    /\ socket' = "connecting"
    /\ requests' = <<>>
    /\ nested' = Append(nested, reason)
    /\ IF socket = "connected" /\ runningCommands # <<>>
       THEN session' = "lost" /\ runningCommands' = <<>>
       ELSE UNCHANGED <<session, runningCommands>>

WalkReconnects ==
    /\ Receive("reconnectTo")
    /\ ReconnectTo(Head(inbox).node, "walk")
    /\ UNCHANGED <<callerVars, outbox, commands, internalCommands, wakeup,
                   pendingClusterRedirect, redirectTimer, followedClusterRedirects,
                   clusterVars, historyVars>>

\* The single-shot timer of processClusterRedirect or pickClusterNodeForNextCommand.
RedirectTimer ==
    /\ redirectTimer # <<>>
    /\ ReconnectTo(Head(redirectTimer).node, Head(redirectTimer).reason)
    /\ redirectTimer' = <<>>
    /\ UNCHANGED <<callerVars, outbox, inbox, commands, internalCommands, wakeup,
                   pendingClusterRedirect, followedClusterRedirects, clusterVars, historyVars>>

\* Every nested loop ends at once, the innermost first; each emits connected(),
\* and after those of the timers no redirect is pending.  Mutants: the timer of
\* pickClusterNodeForNextCommand does not reset it; every reconnect is counted.
PendingAfterPick == pendingClusterRedirect /\ \A k \in DOMAIN nested : nested[k] # "redirect"
StillPending == pendingClusterRedirect /\ \A k \in DOMAIN nested : nested[k] = "walk"
EveryCounted == followedClusterRedirects + Len(nested)
Counted == followedClusterRedirects + Cardinality({k \in DOMAIN nested : nested[k] = "redirect"})

ConnectSucceeds ==
    /\ socket = "connecting"
    /\ socket' = "connected"
    /\ nested' = <<>>
    /\ outbox' = outbox \o [k \in DOMAIN nested |-> [type |-> "connected"]]
    /\ pendingClusterRedirect' = StillPending
    /\ followedClusterRedirects' = Counted
    /\ UNCHANGED <<session, callerVars, inbox, queueVars, wakeup, redirectTimer, config,
                   requests, clusterVars, historyVars>>

-----------------------------------------------------------------------------
(* The transporter thread: the queue. *)

AddCommands ==
    /\ Receive("add")
    /\ LET cmd == Head(inbox).cmd
       IN  IF HiPriority(cmd)
           THEN internalCommands' = Append(internalCommands, cmd) /\ UNCHANGED commands
           ELSE commands' = Append(commands, cmd) /\ UNCHANGED internalCommands
    /\ wakeup' = TRUE
    /\ UNCHANGED <<session, callerVars, outbox, runningCommands, redirectVars, netVars,
                   clusterVars, historyVars>>

AuthOk ==
    /\ Receive("authOk")
    /\ wakeup' = TRUE
    /\ UNCHANGED <<session, callerVars, outbox, queueVars, redirectVars, netVars, clusterVars,
                   historyVars>>

\* processCommandQueue goes on.  Where it only sets its timer again (a redirect
\* is pending, no slots are known, a command runs) nothing changes: no action.
ProcessingQueue == wakeup /\ ~pendingClusterRedirect

QueueIsEmpty ==
    /\ ProcessingQueue
    /\ commands = <<>> /\ internalCommands = <<>>
    /\ wakeup' = FALSE
    /\ UNCHANGED <<session, callerVars, outbox, inbox, queueVars, redirectVars, netVars,
                   clusterVars, historyVars>>

RunCommand(cmd) ==
    /\ runningCommands' = Append(runningCommands, cmd)
    /\ requests' = Append(requests, cmd)
    /\ UNCHANGED <<session, callerVars, outbox, inbox, wakeup, redirectVars, config, socket,
                   clusterVars, historyVars>>

RunInternalCommand ==
    /\ ProcessingQueue
    /\ internalCommands # <<>>
    /\ internalCommands' = Tail(internalCommands)
    /\ RunCommand(Head(internalCommands))
    /\ UNCHANGED commands

\* In cluster mode one command of the user's runs at a time.
Choosing ==
    /\ ProcessingQueue
    /\ internalCommands = <<>> /\ commands # <<>>
    /\ clusterSlots # NoSlots /\ runningCommands = <<>>

\* pickNextCommandForCurrentNode: a command without a key, or one whose node
\* has the port of the current one.
ForCurrentNode(cmd) ==
    cmd.kind = "key" => Port[clusterSlots[cmd.slot]] = Port[config]

\* Mutant: the last such command.
PickLast(k) ==
    ForCurrentNode(commands[k]) /\ \A j \in DOMAIN commands : j > k => ~ForCurrentNode(commands[j])
Pick(k) ==
    ForCurrentNode(commands[k]) /\ \A j \in DOMAIN commands : j < k => ~ForCurrentNode(commands[j])

RunPickedCommand ==
    /\ Choosing
    /\ \E k \in DOMAIN commands :
           /\ Pick(k)
           /\ commands' = RemoveAt(commands, k)
           /\ RunCommand(commands[k])
    /\ UNCHANGED internalCommands

\* pickClusterNodeForNextCommand; processCommandQueue returns without a timer.
PickClusterNode ==
    /\ Choosing
    /\ \A k \in DOMAIN commands : ~ForCurrentNode(commands[k])
    /\ pendingClusterRedirect' = TRUE
    /\ redirectTimer' = <<[node |-> clusterSlots[Head(commands).slot], reason |-> "pick"]>>
    /\ wakeup' \in BOOLEAN
    /\ UNCHANGED <<session, callerVars, outbox, inbox, queueVars, followedClusterRedirects,
                   nested, netVars, clusterVars, historyVars>>

-----------------------------------------------------------------------------
(* The transporter thread: sendResponse. *)

\* What a node answers (external): it executes the commands for its slots and
\* redirects the others; a key of a slot in migration is with the importing
\* node, which serves it only after ASKING.
Answer(cmd) ==
    CASE cmd.kind \in {"slots", "masters"} -> [type |-> "slots", node |-> config, slots |-> owner]
      [] cmd.kind = "ping" -> [type |-> "pong", node |-> config]
      [] cmd.kind = "info" -> [type |-> "info", node |-> config]
      [] cmd.kind = "key" /\ owner[cmd.slot] # config ->
             [type |-> "moved", node |-> owner[cmd.slot]]
      [] cmd.kind = "key" /\ owner[cmd.slot] = config /\ cmd.slot \in DOMAIN Importing ->
             [type |-> "ask", node |-> Importing[cmd.slot]]
      [] OTHER -> [type |-> "value", node |-> config]

\* The reply to the first request is read, and taken for that of the first
\* running command.  It is worked out only here: an answer given earlier is one
\* given before the slots moved.
ReadReply ==
    /\ socket = "connected"
    /\ requests # <<>>
    /\ requests' = Tail(requests)
    /\ runningCommands' = Tail(runningCommands)

Redirect(reply) == reply.type \in {"moved", "ask"}

Exhausted == followedClusterRedirects >= MaxRedirects

\* errorOccurred and disconnectFromHost.
AbortRedirects ==
    /\ ReadReply
    /\ Redirect(Answer(Head(requests)))
    /\ Exhausted
    /\ session' = "aborted"
    /\ UNCHANGED <<callerVars, outbox, inbox, commands, internalCommands, wakeup,
                   redirectVars, config, socket, clusterVars, historyVars>>

\* processClusterRedirect: the slots are outdated and the handshake on the
\* other node will load them again.
FollowRedirect ==
    /\ ReadReply
    /\ Redirect(Answer(Head(requests)))
    /\ ~Exhausted
    /\ commands' = <<Head(runningCommands)>> \o commands
    /\ IF pendingClusterRedirect
       THEN UNCHANGED <<pendingClusterRedirect, redirectTimer, serverInfo, clusterSlots>>
       ELSE /\ pendingClusterRedirect' = TRUE
            /\ redirectTimer' = <<[node |-> Answer(Head(requests)).node,
                                   reason |-> "redirect"]>>
            /\ serverInfo' = FALSE
            /\ clusterSlots' = NoSlots
    /\ UNCHANGED <<session, submitted, notVisitedMasterNodes, contexts, contextCount, outbox,
                   inbox, internalCommands, wakeup, followedClusterRedirects, nested,
                   config, socket, clusterVars, historyVars>>

\* The counter when a key command has succeeded.  Mutant: it goes on counting.
NotReset == followedClusterRedirects
ResetCounter == 0

\* The deferred completes.  What the callback does is of interest here for the
\* library's own commands and the walks.
CompleteCommand ==
    /\ ReadReply
    /\ LET reply == Answer(Head(requests))
           cmd == Head(runningCommands)
       IN  /\ ~Redirect(reply)
           /\ IF cmd.kind = "key"
              THEN /\ answered' = Append(answered, cmd.id)
                   /\ followedClusterRedirects' = ResetCounter
                   /\ UNCHANGED outbox
              ELSE /\ outbox' = Append(outbox, [type |-> "reply", cmd |-> cmd, reply |-> reply])
                   /\ UNCHANGED <<answered, followedClusterRedirects>>
    /\ UNCHANGED <<session, callerVars, inbox, commands, internalCommands, wakeup,
                   pendingClusterRedirect, redirectTimer, nested, config, socket,
                   clusterVars, walk>>

-----------------------------------------------------------------------------

\* The cluster (external) gives a slot to another node.
MoveSlot(slot, node) ==
    /\ <<slot, node>> \in Moves \ moved
    /\ owner' = [owner EXCEPT ![slot] = node]
    /\ moved' = moved \union {<<slot, node>>}
    /\ UNCHANGED <<session, callerVars, outbox, inbox, queueVars, wakeup, redirectVars,
                   netVars, historyVars>>

-----------------------------------------------------------------------------

CallerNext ==
    \/ \E slot \in Slots : Submit(slot)
    \/ \E w \in Walks : StartWalk(w)
    \/ ReceiveSignal

InboxNext == WalkReconnects \/ AddCommands \/ AuthOk
QueueNext == QueueIsEmpty \/ RunInternalCommand \/ RunPickedCommand \/ PickClusterNode
ReplyNext == AbortRedirects \/ FollowRedirect \/ CompleteCommand

Next ==
    /\ session = "up"
    /\ \/ CallerNext \/ InboxNext \/ RedirectTimer \/ ConnectSucceeds \/ QueueNext
       \/ ReplyNext
       \/ \E slot \in Slots, node \in Nodes : MoveSlot(slot, node)

Spec == Init /\ [][Next]_vars

\* Both event loops run, a node that is reconnected to accepts and answers.
FairSpec ==
    /\ Spec
    /\ WF_vars(session = "up" /\ ReceiveSignal)
    /\ WF_vars(session = "up" /\ InboxNext)
    /\ WF_vars(session = "up" /\ RedirectTimer)
    /\ WF_vars(session = "up" /\ ConnectSucceeds)
    /\ WF_vars(session = "up" /\ QueueNext)
    /\ WF_vars(session = "up" /\ ReplyNext)

-----------------------------------------------------------------------------
(* Properties. *)

\* The commands of a slot are answered in the order they were posted, through
\* redirects (processClusterRedirect) and the choice of other commands for the
\* current node (pickNextCommandForCurrentNode).
SlotOrder ==
    \A j, k \in DOMAIN answered :
        j < k /\ submitted[answered[j]] = submitted[answered[k]] => answered[j] < answered[k]

\* While the slots stay where they are, nobody asks for a key of one in migration
\* and nobody walks over the nodes, the session is not given up for redirects, if
\* only one is allowed: a key command is sent to a wrong node only when that has
\* the port of the right one, and the redirected command is the first to be chosen there.
StableClusterServes ==
    moved = {} /\ Range(submitted) \intersect DOMAIN Importing = {}
    /\ (\A w \in Walks : ~walk[w].started) => session # "aborted"

\* A walk that has the connection to itself calls back once, when it has
\* visited each of the master nodes, once.
WalkAlone(w) ==
    walk[w].calls > 0 =>
        /\ walk[w].calls = 1
        /\ Range(walk[w].visited) = walk[w].masters
        /\ Len(walk[w].visited) = Cardinality(walk[w].masters)
UndisturbedWalk == \A w \in Walks : walk[w].alone => WalkAlone(w)

\* Time and again every key command is answered and every walk has called back,
\* unless the session ends.
EveryCallEnds ==
    []<>(session # "up" \/ (Len(answered) = Len(submitted) /\ \A w \in Walks : ~Active(w)))

=============================================================================

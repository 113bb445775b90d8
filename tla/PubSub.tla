------------------------------- MODULE PubSub -------------------------------
(***************************************************************************)
(* Subscriptions and MONITOR on one Connection: the half of sendResponse   *)
(* and cancelCommands (transporters/abstracttransporter.cpp) that          *)
(* Transporter leaves out.  What the server sends without being asked      *)
(* arrives on the same stream as the replies; a message finds its          *)
(* subscriber in m_subscriptions, a reply finds its command by position.   *)
(*                                                                         *)
(* The connection does not fail, but it may be closed and opened again,    *)
(* which makes a new transporter.  The handshake is one command, and a     *)
(* session begins with it already written.                                 *)
(***************************************************************************)
EXTENDS Integers, FiniteSets, SequencesExt, Subsequences

CONSTANTS
    Shapes,       \* the commands that users run
    Owners,       \* QObjects that own callbacks
    NoOwner,      \* no callback
    Channels,
    Feed,         \* QByteArray(): the key of the subscription to MONITOR
    MaxCommands,  \* bound: user commands posted
    MaxMessages,  \* bound: messages and lines of MONITOR sent by the server
    MaxSessions   \* bound: sessions

Keys == Channels \union {Feed}
Command == [kind : {"plain", "subscribe", "unsubscribe", "monitor"},
            channels : SUBSET Channels, owner : Owners \union {NoOwner}]

ASSUME ShapesAssumption ==
    /\ Shapes \subseteq Command
    /\ \A s \in Shapes : /\ s.kind \in {"plain", "monitor"} => s.channels = {}
                         /\ s.kind = "subscribe" => s.channels # {} /\ s.owner # NoOwner
ASSUME ChannelsAssumption == IsFiniteSet(Channels)
ASSUME NamesAssumption == NoOwner \notin Owners /\ Feed \notin Channels
ASSUME BoundsAssumption ==
    /\ MaxCommands \in Nat
    /\ MaxMessages \in Nat
    /\ MaxSessions \in Nat \ {0}

VARIABLES
    \* the caller's thread
    posted,         \* the user commands, in order: a command is known by its place here
    destroyed,      \* owners destroyed
    session,        \* sessions started
    inbox,          \* calls queued to the transporter
    \* the transporter thread
    commands,       \* m_commands
    running,        \* m_runningCommands; 0 is the handshake
    subscriptions,  \* m_subscriptions: the owner of each key's emitter, NoOwner without one
    monitorMode,    \* m_currentMode is Mode::Monitor
    initialized,    \* m_connectionInitialized
    \* the server
    requests,       \* written and not yet executed
    stream,         \* sent by the server and not yet read
    subscriber,     \* the owner whose SUBSCRIBE is in force, NoOwner if none is
    monitoring,     \* MONITOR is in force
    sent,           \* messages and lines of MONITOR so far
    \* history
    disturbed       \* a reply is expected that sendResponse cannot tell from another's

callerVars == <<posted, destroyed, session>>
threadVars == <<commands, running, subscriptions, monitorMode, initialized>>
serverVars == <<requests, subscriber, monitoring, sent>>
vars == <<callerVars, inbox, threadVars, serverVars, stream, disturbed>>

Call == [type : {"add"}, id : Nat] \union [type : {"cancel"}, owner : Owners]
Item == [type : {"reply"}, id : Nat, ok : BOOLEAN]
        \union [type : {"message"}, channel : Channels, to : Owners \union {NoOwner}]
        \union [type : {"feed"}]

Command0 == [kind |-> "plain", channels |-> {}, owner |-> NoOwner]
Cmd(id) == IF id = 0 THEN Command0 ELSE posted[id]

\* Every variable stays in its type, nothing is in a queue or on the stream but
\* commands that were posted, and no command runs twice at a time.
TypeOK ==
    /\ posted \in Seq(Command)
    /\ destroyed \subseteq Owners
    /\ session \in 1..MaxSessions
    /\ inbox \in Seq(Call)
    /\ Range(commands) \subseteq DOMAIN posted
    /\ Range(running) \subseteq DOMAIN posted \union {0}
    /\ IsInjective(running)
    /\ subscriptions \in [Keys -> Owners \union {NoOwner}]
    /\ monitorMode \in BOOLEAN
    /\ initialized \in BOOLEAN
    /\ Range(requests) \subseteq DOMAIN posted \union {0}
    /\ stream \in Seq(Item)
    /\ subscriber \in [Channels -> Owners \union {NoOwner}]
    /\ monitoring \in BOOLEAN
    /\ sent \in 0..MaxMessages
    /\ disturbed \in BOOLEAN

Nobody(keys) == [k \in keys |-> NoOwner]

\* A session begins: connected, with the PING of auth() written.
Init ==
    /\ posted = <<>>
    /\ destroyed = {}
    /\ session = 1
    /\ inbox = <<>>
    /\ commands = <<>>
    /\ running = <<0>>
    /\ subscriptions = Nobody(Keys)
    /\ monitorMode = FALSE
    /\ initialized = FALSE
    /\ requests = <<0>>
    /\ stream = <<>>
    /\ subscriber = Nobody(Channels)
    /\ monitoring = FALSE
    /\ sent = 0
    /\ disturbed = FALSE

-----------------------------------------------------------------------------
(* The caller's thread. *)

Submit(shape) ==
    /\ Len(posted) < MaxCommands
    /\ shape.owner \notin destroyed
    /\ posted' = Append(posted, shape)
    /\ inbox' = Append(inbox, [type |-> "add", id |-> Len(posted) + 1])
    /\ UNCHANGED <<destroyed, session, threadVars, serverVars, stream, disturbed>>

\* destroyed() is connected to cancelCommands when a command of the owner is run.
DestroyOwner(owner) ==
    /\ owner \notin destroyed
    /\ \E id \in DOMAIN posted : posted[id].owner = owner
    /\ destroyed' = destroyed \union {owner}
    /\ inbox' = Append(inbox, [type |-> "cancel", owner |-> owner])
    /\ UNCHANGED <<posted, session, threadVars, serverVars, stream, disturbed>>

\* m_runningCommands of a new transporter, with its handshake.
\* Mutant: a transporter is kept.
KeepRunning == Append(running, 0)
NewRunning == <<0>>

\* disconnect() and connect(): everything goes with the transporter, but
\* m_currentMode belongs to the Connection.
Restart ==
    /\ session < MaxSessions
    /\ session' = session + 1
    /\ inbox' = <<>>
    /\ commands' = <<>>
    /\ running' = NewRunning
    /\ subscriptions' = Nobody(Keys)
    /\ initialized' = FALSE
    /\ requests' = <<0>>
    /\ stream' = <<>>
    /\ subscriber' = Nobody(Channels)
    /\ monitoring' = FALSE
    /\ disturbed' = FALSE
    /\ UNCHANGED <<posted, destroyed, monitorMode, sent>>

-----------------------------------------------------------------------------
(* The calls queued to the transporter, and its queue. *)

AddCommand ==
    /\ inbox # <<>> /\ Head(inbox).type = "add"
    /\ inbox' = Tail(inbox)
    /\ commands' = Append(commands, Head(inbox).id)
    /\ UNCHANGED <<callerVars, running, subscriptions, monitorMode, initialized, serverVars,
                   stream, disturbed>>

OwnedBy(owner, ids) == {k \in DOMAIN ids : Cmd(ids[k]).owner = owner}
WithoutOwner(owner, ids) == Subsequence(ids, DOMAIN ids \ OwnedBy(owner, ids))

\* Mutant: the subscriptions of a destroyed owner stay.
KeepSubscriptions(owner) == subscriptions
Unsubscribed(owner) ==
    [k \in Keys |-> IF subscriptions[k] = owner THEN NoOwner ELSE subscriptions[k]]

\* A running command is forgotten although its reply is on the way.
CancelCommands ==
    /\ inbox # <<>> /\ Head(inbox).type = "cancel"
    /\ LET owner == Head(inbox).owner
       IN  /\ running' = WithoutOwner(owner, running)
           /\ commands' = WithoutOwner(owner, commands)
           /\ subscriptions' = Unsubscribed(owner)
           /\ disturbed' = (disturbed \/ OwnedBy(owner, running) # {})
    /\ inbox' = Tail(inbox)
    /\ UNCHANGED <<callerVars, monitorMode, initialized, serverVars, stream>>

\* The server confirms each channel of such a command.
ConfirmedTwice(id) ==
    Cmd(id).kind \in {"subscribe", "unsubscribe"} /\ Cardinality(Cmd(id).channels) # 1
Replies(items) == Subsequence(items, {k \in DOMAIN items : items[k].type = "reply"})
UnderWay == Range(requests) \union {i.id : i \in Range(Replies(stream))}

\* processCommandQueue and runCommand.  The library counts one reply to each
\* command: with a second confirmation on the way the next one is in danger.
RunCommand ==
    /\ initialized
    /\ commands # <<>>
    /\ commands' = Tail(commands)
    /\ running' = Append(running, Head(commands))
    /\ requests' = Append(requests, Head(commands))
    /\ disturbed' = (disturbed \/ \E id \in UnderWay : ConfirmedTwice(id))
    /\ UNCHANGED <<callerVars, inbox, subscriptions, monitorMode, initialized, subscriber,
                   monitoring, sent, stream>>

-----------------------------------------------------------------------------
(* readyRead: sendResponse for the next item of the stream. *)

\* Mutant: only "pmessage" is looked for.
NeverMessage(item) == FALSE
IsMessage(item) == item.type = "message"

\* Response::getChannel
ChannelOf(item) == IF IsMessage(item) THEN item.channel ELSE Feed

Read ==
    /\ stream # <<>>
    /\ stream' = Tail(stream)
    /\ UNCHANGED <<callerVars, inbox, commands, serverVars, disturbed>>

\* To the emitter of the channel, if there is one.  In Monitor mode every reply
\* goes that way.
Emit ==
    /\ Read
    /\ IsMessage(Head(stream)) \/ monitorMode
    /\ UNCHANGED <<running, subscriptions, monitorMode, initialized>>

UnexpectedReply ==
    /\ Read
    /\ ~IsMessage(Head(stream)) /\ ~monitorMode
    /\ running = <<>>
    /\ UNCHANGED <<running, subscriptions, monitorMode, initialized>>

\* Mutants: only the first channel; UNSUBSCRIBE removes nothing.
FirstChannel(cmd) == IF cmd.channels = {} THEN {} ELSE {CHOOSE c \in cmd.channels : TRUE}
NoChannels(cmd) == {}
\* The channels of addSubscriptionsFromRunningCommand, and those that
\* UNSUBSCRIBE removes; without an argument it is no UNSUBSCRIBE to isUnSubscriptionCommand.
SubscribedBy(cmd) == IF cmd.kind = "subscribe" THEN cmd.channels ELSE {}
UnsubscribedBy(cmd) == IF cmd.kind = "unsubscribe" THEN cmd.channels ELSE {}

Dequeue == running' = Tail(running)

\* The reply completes the first running command, whatever it says.  Without a
\* callback there is no emitter, and neither SUBSCRIBE nor MONITOR has an effect.
CompleteCommand ==
    /\ Read
    /\ ~IsMessage(Head(stream)) /\ ~monitorMode
    /\ running # <<>>
    /\ Dequeue
    /\ LET cmd == Cmd(Head(running))
           monitors == cmd.kind = "monitor" /\ cmd.owner # NoOwner
       IN  /\ subscriptions' =
                  [k \in Keys |->
                      IF cmd.owner # NoOwner /\ (k \in SubscribedBy(cmd) \/ (monitors /\ k = Feed))
                      THEN cmd.owner
                      ELSE IF k \in UnsubscribedBy(cmd) THEN NoOwner ELSE subscriptions[k]]
           /\ monitorMode' = (monitorMode \/ monitors)
    /\ initialized' = (initialized \/ Head(running) = 0)

-----------------------------------------------------------------------------
(* The server (external). *)

ServerStep == UNCHANGED <<callerVars, inbox, threadVars, disturbed>>

InForce == {c \in Channels : subscriber[c] # NoOwner}

\* The confirmations of (UN)SUBSCRIBE, one for each channel; UNSUBSCRIBE without
\* channels ends all subscriptions, with one confirmation if there is none.
Confirmations(cmd) ==
    IF cmd.channels # {} THEN Cardinality(cmd.channels)
    ELSE IF cmd.kind = "unsubscribe" /\ InForce # {} THEN Cardinality(InForce) ELSE 1

\* A subscriber may not run MONITOR: an error, after which nothing is monitored.
ServerExecutes ==
    /\ requests # <<>>
    /\ LET id == Head(requests)
           cmd == Cmd(id)
           ended == IF cmd.channels = {} THEN InForce ELSE cmd.channels
           ok == cmd.kind \notin {"plain", "monitor"} \/ InForce = {}
       IN  /\ stream' = stream \o [k \in 1..Confirmations(cmd) |->
                                      [type |-> "reply", id |-> id, ok |-> ok]]
           /\ monitoring' = (monitoring \/ (cmd.kind = "monitor" /\ ok))
           /\ subscriber' =
                  [c \in Channels |->
                      IF cmd.kind = "subscribe" /\ c \in cmd.channels THEN cmd.owner
                      ELSE IF cmd.kind = "unsubscribe" /\ c \in ended THEN NoOwner
                      ELSE subscriber[c]]
    /\ requests' = Tail(requests)
    /\ UNCHANGED sent
    /\ ServerStep

\* Another client publishes, or does anything under MONITOR.
Publish ==
    /\ sent < MaxMessages
    /\ \/ \E c \in InForce :
              stream' = Append(stream, [type |-> "message", channel |-> c, to |-> subscriber[c]])
       \/ monitoring /\ stream' = Append(stream, [type |-> "feed"])
    /\ sent' = sent + 1
    /\ UNCHANGED <<requests, subscriber, monitoring>>
    /\ ServerStep

-----------------------------------------------------------------------------

ReadNext == Emit \/ UnexpectedReply \/ CompleteCommand

Next ==
    \/ \E shape \in Shapes : Submit(shape)
    \/ \E owner \in Owners : DestroyOwner(owner)
    \/ Restart
    \/ AddCommand \/ CancelCommands \/ RunCommand
    \/ ReadNext
    \/ ServerExecutes \/ Publish

Spec == Init /\ [][Next]_vars

\* The transporter's event loop and the server go on; nobody has to do anything else.
Fairness ==
    /\ WF_vars(AddCommand \/ CancelCommands)
    /\ WF_vars(RunCommand)
    /\ WF_vars(ReadNext)
    /\ WF_vars(ServerExecutes)

FairSpec == Spec /\ Fairness

-----------------------------------------------------------------------------
(* Properties. *)

\* Whatever messages come between, the oldest reply on the stream belongs to the
\* first running command, the one that sendResponse completes with it, unless
\* commands were run before every confirmation of a SUBSCRIBE had come, a
\* running one was cancelled, or MONITOR has made the stream one of lines.
InStep ==
    LET replies == Replies(stream)
    IN  ~disturbed /\ ~monitoring /\ ~monitorMode /\ running # <<>> /\ replies # <<>> =>
            Head(replies).id = Head(running)

BareUnsubscribe == \E id \in DOMAIN posted : posted[id].kind = "unsubscribe" /\ posted[id].channels = {}

\* When nothing is under way, m_subscriptions names for each channel the owner
\* whose subscription is in force on the server, or nobody once that owner is
\* destroyed; an UNSUBSCRIBE without arguments is not understood.
TableMatchesServer ==
    ~disturbed /\ ~monitorMode /\ requests = <<>> /\ stream = <<>> =>
        \A c \in Channels :
            \/ subscriptions[c] = subscriber[c]
            \/ subscriptions[c] = NoOwner /\ subscriber[c] \in destroyed
            \/ subscriber[c] = NoOwner /\ BareUnsubscribe

\* Once cancelCommands has run for an owner nothing is sent to it again: no
\* subscription, no running and no waiting command is left of it, although the
\* confirmation of its SUBSCRIBE may come later.
CancelledSubscribersLeave ==
    \A owner \in destroyed :
        (\A k \in DOMAIN inbox : inbox[k] # [type |-> "cancel", owner |-> owner]) =>
            /\ \A k \in Keys : subscriptions[k] # owner
            /\ OwnedBy(owner, running) = {} /\ OwnedBy(owner, commands) = {}

\* A message goes to the owner whose subscription was in force when the server
\* sent it, or to nobody once that owner is destroyed.
MessagesReachTheirSubscriber ==
    [][Read /\ ~disturbed /\ ~monitorMode /\ Head(stream).type = "message" =>
          \/ subscriptions[Head(stream).channel] = Head(stream).to
          \/ subscriptions[Head(stream).channel] = NoOwner /\ Head(stream).to \in destroyed
      ]_vars

\* The handshake of every session ends, in the first session and in later ones,
\* whatever was on its way when the last one ended, unless an earlier session has
\* left the Connection in Monitor mode.
EverySessionOpens == []<>(initialized \/ monitorMode)

=============================================================================

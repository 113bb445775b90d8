----------------------------- MODULE Lifecycle -----------------------------
(***************************************************************************)
(* A Connection over several sessions, as its caller's thread sees it:     *)
(* connect(), disconnect(), auto-connect with callAfterConnect, and the    *)
(* handshake of auth() (connection.cpp).  The transporter is here only     *)
(* what Transporter shows it to be: it connects, perhaps again, answers    *)
(* what is posted in order, or reports an error.  Mode::Normal.            *)
(*                                                                         *)
(* What the transporter thread emits is queued to the caller's thread and  *)
(* is delivered there even when that transporter is gone: `events' may     *)
(* hold signals and replies of an old session beside those of the new one. *)
(***************************************************************************)
EXTENDS Integers, SequencesExt, Subsequences

CONSTANTS
    Commands,     \* the commands that the user may run, each of them once
    UseAuth,      \* the configuration has credentials: AUTH goes before PING
    Faults,       \* the kinds of failure that may occur
    MaxSessions,  \* bound: sessions that the user may start or end
    MaxFaults     \* bound: failures

FaultKinds == {"connectFail", "closed", "lost", "refused"}

ASSUME CommandsAssumption == Commands \intersect {"auth", "ping", "info", "authOk"} = {}
ASSUME UseAuthAssumption == UseAuth \in BOOLEAN
ASSUME FaultsAssumption == Faults \subseteq FaultKinds
ASSUME BoundsAssumption ==
    /\ MaxSessions \in Nat
    /\ MaxFaults \in Nat

VARIABLES
    \* the caller's thread
    asked,        \* commands that the user has run
    up,           \* isConnected()
    session,      \* sessions started
    events,       \* posted to the caller's thread: signals of a session, and replies with ok:
                  \* PONG to PING, no wrong password to AUTH, no error to INFO
    held,         \* deletions posted in the outer loop, not delivered in a nested one
    contexts,     \* the callAfterConnect contexts that listen, the oldest first: their
                  \* command and the session they were born in
    infoKnown,    \* m_serverInfo is populated
    waiter,       \* the SignalWaiter of connect(true): "none", "waiting", "true", "false"
    \* the transporter of the session
    link,         \* "none", "connecting", "connected" or "lost"
    initialized,  \* m_connectionInitialized
    calls,        \* queued to the transporter
    internal,     \* m_internalCommands
    waiting,      \* m_commands
    running,      \* m_runningCommands
    authed,       \* the server accepts commands on this connection
    faults,       \* failures so far
    \* history
    posted,       \* how often each command was posted to a transporter, up to 2
    cancelled,    \* commands whose future was cancelled
    recalled,     \* commands whose context was called again, its deletion being posted
    ready,        \* a handshake of this very session has ended well
    left,         \* the user has disconnected
    overlap       \* an event of an old session was handled, or a session connected again

callerVars == <<asked, held, infoKnown, waiter>>
sessionVars == <<up, session>>
queueVars == <<initialized, internal, waiting, running>>
historyVars == <<posted, cancelled, recalled, left>>
vars == <<callerVars, sessionVars, events, contexts, link, calls, queueVars, authed, faults,
          historyVars, ready, overlap>>

Handshakes == {"auth", "ping", "info"}
FirstHandshake == IF UseAuth THEN "auth" ELSE "ping"

Init ==
    /\ asked = {}
    /\ up = FALSE
    /\ session = 0
    /\ events = <<>>
    /\ held = <<>>
    /\ contexts = <<>>
    /\ infoKnown = FALSE
    /\ waiter = "none"
    /\ link = "none"
    /\ initialized = FALSE
    /\ calls = <<>>
    /\ internal = <<>>
    /\ waiting = <<>>
    /\ running = <<>>
    /\ authed = FALSE
    /\ faults = 0
    /\ posted = [c \in Commands |-> 0]
    /\ cancelled = {}
    /\ recalled = {}
    /\ left = FALSE
    /\ ready = FALSE
    /\ overlap = FALSE

-----------------------------------------------------------------------------
(* Operators shared by the handlers of the caller's thread. *)

IsUser(c) == c \in Commands

\* connect(): a transporter in a thread of its own, and what is posted to it at once.
StartSession(posts) ==
    /\ ~up
    /\ up' = TRUE
    /\ session' = session + 1
    /\ link' = "connecting"
    /\ calls' = posts
    /\ UNCHANGED <<queueVars, authed>>

\* disconnect(): the thread has ended and its transporter is gone.
EndSession ==
    /\ up' = FALSE
    /\ link' = "none"
    /\ initialized' = FALSE
    /\ calls' = <<>>
    /\ internal' = <<>>
    /\ waiting' = <<>>
    /\ running' = <<>>
    /\ authed' = FALSE
    /\ ready' = FALSE
    /\ UNCHANGED session

\* Mutant: it lives on.
KeepWaiter == UNCHANGED waiter
\* shutdownStart and authError abort the waiter of connect(true), authOk is its success.
AbortWaiter == waiter' = IF waiter = "none" THEN "none" ELSE "false"
WaiterSucceeds == waiter' = IF waiter = "none" THEN "none" ELSE "true"

CountPosts(cmds) ==
    posted' = [c \in Commands |->
                  LET n == posted[c] + Cardinality({k \in DOMAIN cmds : cmds[k] = c})
                  IN  IF n > 2 THEN 2 ELSE n]

\* runCommand on each of cmds.  Without a session the first one starts it and
\* waits in a context of callAfterConnect, the others are posted to it.
\* extra is posted by other slots of the same signal to a session that was there.
RunCommands(cmds, extra) ==
    \/ /\ up
       /\ calls' = calls \o cmds \o extra
       /\ CountPosts(cmds)
       /\ UNCHANGED <<sessionVars, contexts, link, queueVars, authed>>
    \/ /\ ~up /\ cmds = <<>>
       /\ UNCHANGED <<sessionVars, contexts, link, calls, queueVars, authed, posted>>
    \/ /\ ~up /\ cmds # <<>>
       /\ contexts' = Append(contexts, [born |-> session + 1, cmd |-> Head(cmds)])
       /\ StartSession(Tail(cmds))
       /\ CountPosts(Tail(cmds))

\* deleteLater of every context, unless its deletion is already posted.
\* Mutant: a context is not deleted once it was called.
Deletion(born) == [type |-> "delete", session |-> born]
IsCondemned(context) == Contains(events \o held, Deletion(context.born))
NoDeletions == <<>>
Deletions ==
    LET called == Subsequence(contexts, {k \in DOMAIN contexts : ~IsCondemned(contexts[k])})
    IN  [k \in DOMAIN called |-> Deletion(called[k].born)]

\* The commands of contexts that are called although their deletion is posted.
CalledAgain == {c \in Commands : \E k \in DOMAIN contexts :
                                     contexts[k].cmd = c /\ IsCondemned(contexts[k])}

\* emit authOk(): every context runs its command.
EmitAuthOk ==
    /\ RunCommands([k \in DOMAIN contexts |-> contexts[k].cmd], <<"authOk">>)
    /\ events' = Tail(events) \o Deletions
    /\ WaiterSucceeds
    /\ ready' = (ready \/ (up /\ Head(events).session = session))
    /\ recalled' = recalled \union CalledAgain
    /\ UNCHANGED cancelled

\* Mutant: nobody is told.
CancelNothing == UNCHANGED cancelled
CancelContexts ==
    cancelled' = cancelled \union ({contexts[k].cmd : k \in DOMAIN contexts} \ Handshakes)

\* emit error(), after the session was ended: every context cancels its future.
DisconnectOnError ==
    /\ EndSession
    /\ AbortWaiter
    /\ CancelContexts
    /\ recalled' = recalled \union CalledAgain
    /\ events' = Tail(events) \o Deletions
    /\ UNCHANGED <<contexts, posted>>

-----------------------------------------------------------------------------
(* The user. *)

\* runCommand, from any slot.
Run(c) ==
    /\ c \notin asked
    /\ up \/ session < MaxSessions
    /\ asked' = asked \union {c}
    /\ RunCommands(<<c>>, <<>>)
    /\ UNCHANGED <<events, held, infoKnown, waiter, faults, cancelled, recalled, left, ready,
                   overlap>>

Connect ==
    /\ session < MaxSessions
    /\ StartSession(<<>>)
    /\ UNCHANGED <<callerVars, events, contexts, faults, historyVars, ready, overlap>>

DeletesAt == {k \in DOMAIN events : events[k].type = "delete"}

\* connect(true) spins an event loop, in which deletions posted outside wait.
ConnectAndWait ==
    /\ waiter = "none"
    /\ session < MaxSessions
    /\ StartSession(<<>>)
    /\ waiter' = "waiting"
    /\ held' = Subsequence(events, DeletesAt)
    /\ events' = Subsequence(events, DOMAIN events \ DeletesAt)
    /\ UNCHANGED <<asked, infoKnown, contexts, faults, historyVars, ready, overlap>>

\* Back in the outer loop, which may still have to deliver what the nested one left.
LeaveLoop ==
    /\ waiter' = "none"
    /\ events' = held \o events
    /\ held' = <<>>
    /\ UNCHANGED <<asked, infoKnown, sessionVars, contexts, link, calls, queueVars, authed,
                   faults, historyVars, ready, overlap>>

\* A signal has quit the loop.  Events posted before may be delivered first, and
\* the last signal decides the result.
ConnectReturns == waiter \in {"true", "false"} /\ LeaveLoop

\* The timer: false, and the session goes on.
ConnectTimesOut == waiter = "waiting" /\ LeaveLoop

Disconnect ==
    /\ up
    /\ session <= MaxSessions
    /\ EndSession
    /\ AbortWaiter
    /\ left' = TRUE
    /\ UNCHANGED <<asked, held, infoKnown, events, contexts, faults, posted, cancelled, recalled,
                   overlap>>

-----------------------------------------------------------------------------
(* The events of the caller's thread. *)

Handle(type) ==
    /\ events # <<>>
    /\ Head(events).type = type
    /\ overlap' = (overlap \/ (type # "delete" /\ ~(up /\ Head(events).session = session)))
    /\ UNCHANGED <<asked, held, faults, left>>

\* A command of the handshake goes the way of any other: it connects when it has to.
Continue(handshake) ==
    /\ RunCommands(<<handshake>>, <<>>)
    /\ events' = Tail(events)
    /\ UNCHANGED <<infoKnown, waiter, cancelled, recalled, ready>>

\* auth()
HandleConnected == Handle("connected") /\ Continue(FirstHandshake)

HandleError == Handle("error") /\ DisconnectOnError /\ UNCHANGED infoKnown

\* WRONGPASS: authError, and then error.  Any other answer goes on with PING.
HandleAuth ==
    /\ Handle("auth")
    /\ IF Head(events).ok THEN Continue("ping")
       ELSE DisconnectOnError /\ UNCHANGED infoKnown

\* testConnection: anything but PONG is an authError.
HandlePong ==
    /\ Handle("ping")
    /\ \/ ~Head(events).ok /\ DisconnectOnError /\ UNCHANGED infoKnown
       \/ Head(events).ok /\ ~infoKnown /\ Continue("info")
       \/ Head(events).ok /\ infoKnown /\ EmitAuthOk /\ UNCHANGED infoKnown

\* refreshServerInfo: an error that is no NOPERM is parsed like INFO, into nothing.
HandleInfo ==
    /\ Handle("info")
    /\ infoKnown' = Head(events).ok
    /\ EmitAuthOk

HandleDelete ==
    /\ Handle("delete")
    /\ contexts' = Subsequence(contexts, {k \in DOMAIN contexts :
                                            contexts[k].born # Head(events).session})
    /\ events' = Tail(events)
    /\ UNCHANGED <<infoKnown, waiter, sessionVars, link, calls, queueVars, authed, posted,
                   cancelled, recalled, ready>>

-----------------------------------------------------------------------------
(* The transporter of the session, and the server. *)

TransporterStep == UNCHANGED <<callerVars, sessionVars, contexts, historyVars, ready>>
Emit(type) == events' = Append(events, [type |-> type, session |-> session])
Spend(fault) == fault \in Faults /\ faults < MaxFaults /\ faults' = faults + 1

\* connectToHost, the first or a later one.  m_connectionInitialized stays as it is.
LinkUp ==
    /\ link = "connecting"
    /\ link' = "connected"
    /\ authed' = ~UseAuth
    /\ overlap' = (overlap \/ initialized \/ running \o internal # <<>>)
    /\ Emit("connected")
    /\ TransporterStep
    /\ UNCHANGED <<calls, queueVars, faults>>

\* errorOccurred cancels what is running.
LinkFails ==
    /\ \/ link = "connecting" /\ Spend("connectFail")
       \/ link = "connected" /\ Spend("closed")
    /\ link' = "lost"
    /\ running' = <<>>
    /\ authed' = FALSE
    /\ Emit("error")
    /\ TransporterStep
    /\ UNCHANGED <<calls, initialized, internal, waiting, overlap>>

IsHandshake(c) == c \in Handshakes
HandshakesAt == {k \in DOMAIN running : IsHandshake(running[k])}

\* UnknownSocketError with commands running: back into the queues with them.
LinkLost ==
    /\ link = "connected"
    /\ Spend("lost")
    /\ running # <<>>
    /\ link' = "lost"
    /\ internal' = Reverse(Subsequence(running, HandshakesAt)) \o internal
    /\ waiting' = Reverse(Subsequence(running, DOMAIN running \ HandshakesAt)) \o waiting
    /\ running' = <<>>
    /\ authed' = FALSE
    /\ overlap' = TRUE
    /\ TransporterStep
    /\ UNCHANGED <<events, calls, initialized>>

\* Mutant: the transporter does not wait for authOk.
NeedsNoAuth == TRUE
MayRunUser == initialized

NextToRun == IF internal # <<>> THEN <<Head(internal)>>
             ELSE IF waiting # <<>> /\ MayRunUser /\ ~\E k \in DOMAIN running : IsHandshake(running[k])
                  THEN <<Head(waiting)>> ELSE <<>>

\* runCommand on an unconnected socket reconnects.
Reconnect ==
    /\ link = "lost"
    /\ NextToRun # <<>>
    /\ link' = "connecting"
    /\ TransporterStep
    /\ UNCHANGED <<events, calls, queueVars, authed, faults, overlap>>

TakeCall ==
    /\ up /\ calls # <<>>
    /\ calls' = Tail(calls)
    /\ LET call == Head(calls)
       IN  /\ initialized' = (initialized \/ call = "authOk")
           /\ internal' = IF IsHandshake(call) THEN Append(internal, call) ELSE internal
           /\ waiting' = IF IsUser(call) THEN Append(waiting, call) ELSE waiting
    /\ TransporterStep
    /\ UNCHANGED <<events, link, running, authed, faults, overlap>>

Send ==
    /\ link = "connected"
    /\ NextToRun # <<>>
    /\ running' = running \o NextToRun
    /\ IF internal # <<>> THEN internal' = Tail(internal) /\ UNCHANGED waiting
       ELSE waiting' = Tail(waiting) /\ UNCHANGED internal
    /\ TransporterStep
    /\ UNCHANGED <<events, link, calls, initialized, authed, faults, overlap>>

\* The server answers the first running command; the reply is queued to its owner.
Answered ==
    /\ link = "connected"
    /\ running # <<>>
    /\ running' = Tail(running)
    /\ TransporterStep
    /\ UNCHANGED <<link, calls, initialized, internal, waiting, overlap>>

ReplyTo(handshake, ok) ==
    events' = Append(events, [type |-> handshake, session |-> session, ok |-> ok])

AnswerUser == Answered /\ IsUser(Head(running)) /\ UNCHANGED <<events, authed, faults>>

AnswerHandshake ==
    /\ Answered
    /\ IsHandshake(Head(running))
    /\ authed' = (authed \/ Head(running) = "auth")
    /\ ReplyTo(Head(running), authed')
    /\ UNCHANGED faults

\* Wrong credentials.
RefuseHandshake ==
    /\ Answered
    /\ Head(running) = FirstHandshake
    /\ Spend("refused")
    /\ ReplyTo(FirstHandshake, FALSE)
    /\ UNCHANGED authed

\* AUTH gets another error, be it that the server needs no password, or that it goes
\* on to refuse what comes.
RefuseAuth ==
    /\ Answered
    /\ Head(running) = "auth"
    /\ Spend("refused")
    /\ authed' \in {authed, TRUE}
    /\ ReplyTo("auth", TRUE)

-----------------------------------------------------------------------------

UserNext == (\E c \in Commands : Run(c)) \/ Connect \/ ConnectAndWait \/ Disconnect

HandlerNext ==
    HandleConnected \/ HandleError \/ HandleAuth \/ HandlePong \/ HandleInfo \/ HandleDelete

TransporterNext ==
    \/ LinkUp \/ LinkFails \/ LinkLost \/ Reconnect \/ TakeCall \/ Send
    \/ AnswerUser \/ AnswerHandshake \/ RefuseHandshake \/ RefuseAuth

Next == UserNext \/ ConnectReturns \/ ConnectTimesOut \/ HandlerNext \/ TransporterNext

Spec == Init /\ [][Next]_vars

\* Two event loops and the server go on.  Nobody has to run anything, to connect,
\* to disconnect or to fail, and the timer of the waiter is not relied upon.
Fairness ==
    /\ WF_vars(ConnectReturns)
    /\ WF_vars(HandlerNext)
    /\ WF_vars(LinkUp \/ Reconnect \/ TakeCall \/ Send \/ AnswerUser \/ AnswerHandshake)

FairSpec == Spec /\ Fairness

-----------------------------------------------------------------------------
(* Properties. *)

\* A command is posted to a transporter once, and never once its future was
\* cancelled, however sessions and their signals overlap, unless a context of
\* callAfterConnect was called again by a second authOk or error before its deletion
\* was delivered: that one may run its command twice, or after cancelling it.
RunsOnce ==
    [][\A c \in Commands :
           posted'[c] # posted[c] =>
               (posted'[c] = 1 /\ c \notin cancelled) \/ c \in recalled']_vars

\* The server is asked nothing but the handshake before it has accepted it on
\* this very connection, as long as no handshakes overlap.
AuthorisedFirst ==
    ~overlap /\ link = "connected" =>
        \A k \in DOMAIN running : IsUser(running[k]) => authed

\* The same, as long as no handshakes overlap.
ConnectTellsAlone ==
    [][waiter = "true" /\ waiter' = "none" /\ ~overlap => ready]_vars

\* A command that had to connect first is posted or its future cancelled, unless
\* somebody disconnects.
AutoConnectSettles ==
    \A c \in Commands :
        (\E k \in DOMAIN contexts : contexts[k].cmd = c)
            ~> (posted[c] > 0 \/ c \in cancelled \/ left)

=============================================================================

------------------------- MODULE TransporterProofs -------------------------
(***************************************************************************)
(* Theorems about Transporter, for every set of batches, every combination *)
(* of failures and every bound: the types of its variables; when which     *)
(* handler runs; that each of its steps is a step of Calls or changes      *)
(* nothing that can be seen from outside; that nothing is left of an owner *)
(* for which cancelCommands has run; and, through retries, reconnects,     *)
(* pipelines and transactions, that replies reach the commands they        *)
(* answer, that m_dbNumber follows the database the server has selected,   *)
(* and that commands are written in the order they were posted.            *)
(***************************************************************************)
EXTENDS Transporter, SubsequencesProofs

-----------------------------------------------------------------------------
(* The types of the operators that the actions use. *)

Status == {"value", "ok", "pong", "queued", "error", "errorState", "protocolError"}

LEMMA SelectType == ASSUME NEW db \in Nat PROVE SelectCommand(db) \in Command
BY DEF SelectCommand, Command, NoDb

LEMMA HandshakeType == HandshakeCommand \in Command
BY DEF HandshakeCommand, Command, NoDb

LEMMA WithSelectType == ASSUME NEW cmd \in Command PROVE WithSelect(cmd) \in Seq(Command)
<1>1. cmd.db \in Nat \union {NoDb}
    BY DEF Command
<1>2. cmd.db # NoDb => SelectCommand(cmd.db) \in Command
    BY <1>1, SelectType
<1> QED
    BY <1>2 DEF WithSelect

LEMMA TaggedType ==
    ASSUME NEW todo \in Seq(Command), sent \in Nat
    PROVE  Tagged(todo) \in Seq(Request)
<1>1. Len(todo) \in Nat /\ DOMAIN todo = 1..Len(todo)
    BY LenProperties
<1>2. \A k \in 1..Len(todo) : [tag |-> sent + k, cmd |-> todo[k]] \in Request
    BY ElementOfSeq DEF Request
<1> QED
    BY <1>1, <1>2 DEF Tagged

LEMMA CommandsOfType ==
    ASSUME NEW running \in Seq(Request)
    PROVE  /\ CommandsOf(running) \in Seq(Command)
           /\ DOMAIN CommandsOf(running) = DOMAIN running
<1>1. Len(running) \in Nat /\ DOMAIN running = 1..Len(running)
    BY LenProperties
<1>2. \A k \in 1..Len(running) : running[k].cmd \in Command
    <2>1. \A k \in 1..Len(running) : running[k] \in Request
        BY ElementOfSeq
    <2>2. \A request \in Request : request.cmd \in Command
        BY DEF Request
    <2> QED
        BY <2>1, <2>2
<1> QED
    BY <1>1, <1>2 DEF CommandsOf

LEMMA ReverseElements ==
    ASSUME NEW S, NEW s \in Seq(S)
    PROVE  /\ Reverse(s) \in Seq(S)
           /\ \A i \in DOMAIN s : \E k \in DOMAIN Reverse(s) : Reverse(s)[k] = s[i]
<1>1. Len(s) \in Nat /\ DOMAIN s = 1..Len(s) /\ \A i \in 1..Len(s) : s[i] \in S
    BY LenProperties, ElementOfSeq
<1>2. \A i \in 1..Len(s) : (Len(s) - i) + 1 \in 1..Len(s)
    BY <1>1
<1>3. Reverse(s) \in [1..Len(s) -> S]
    BY <1>1, <1>2 DEF Reverse
<1>4. Reverse(s) \in Seq(S)
    BY <1>1, <1>3
<1>5. \A i \in 1..Len(s) : Reverse(s)[(Len(s) - i) + 1] = s[i]
    BY <1>1, <1>2 DEF Reverse
<1> QED
    BY <1>1, <1>2, <1>3, <1>4, <1>5

\* What a server that makes no protocol error replies.
GoodStatus == Status \ {"protocolError"}

LEMMA GoodStatuses == Seq(GoodStatus) \subseteq Seq(Status)
<1> SUFFICES ASSUME NEW s \in Seq(GoodStatus) PROVE s \in Seq(Status)
    OBVIOUS
<1>1. Len(s) \in Nat /\ s \in [1..Len(s) -> GoodStatus]
    BY LenProperties
<1>2. s \in [1..Len(s) -> Status]
    BY <1>1 DEF GoodStatus
<1> QED
    BY <1>1, <1>2

LEMMA SuccessStatusesType ==
    ASSUME NEW cmd \in Command
    PROVE  SuccessStatuses(cmd) \in Seq(GoodStatus)
<1>1. cmd.arg \in Nat /\ cmd.kind \in {"plain", "select", "handshake", "pipeline", "transaction"}
    BY DEF Command
<1>2. /\ [k \in 1..cmd.arg |-> "value"] \in Seq(GoodStatus)
      /\ [k \in 1..cmd.arg |-> "queued"] \in Seq(GoodStatus)
    BY <1>1 DEF Status, GoodStatus
<1>3. <<"value">> \in Seq(GoodStatus) /\ <<"ok">> \in Seq(GoodStatus) /\ <<"pong">> \in Seq(GoodStatus)
    BY DEF Status, GoodStatus
<1>4. <<"ok">> \o [k \in 1..cmd.arg |-> "queued"] \o <<"value">> \in Seq(GoodStatus)
    BY <1>2, <1>3, ConcatProperties
<1> QED
    BY <1>1, <1>2, <1>3, <1>4 DEF SuccessStatuses

LEMMA QueueErrorStatusesType ==
    ASSUME NEW cmd \in Command, cmd.arg > 0
    PROVE  QueueErrorStatuses(cmd) \in Seq(GoodStatus)
<1>1. cmd.arg - 1 \in Nat
    BY DEF Command
<1>2. [k \in 1..(cmd.arg - 1) |-> "queued"] \in Seq(GoodStatus)
    BY <1>1 DEF Status, GoodStatus
<1>3. <<"ok", "error">> \in Seq(GoodStatus) /\ <<"error">> \in Seq(GoodStatus)
    BY DEF Status, GoodStatus
<1> QED
    BY <1>2, <1>3, ConcatProperties DEF QueueErrorStatuses

-----------------------------------------------------------------------------
(* Type correctness. *)

LEMMA EmptyTypes ==
    /\ <<>> \in Seq(Command) /\ <<>> \in Seq(Request) /\ <<>> \in Seq(Reply)
    /\ <<>> \in Seq(Call) /\ <<>> \in Seq(Signal) /\ <<>> \in Seq(Owners \union {NoOwner})
BY EmptySeq

\* The part of the state the queue-running handlers write stays in its type.
LEMMA RunCommandsType ==
    ASSUME TypeOK,
           NEW todo \in Seq(Command), NEW c \in Seq(Command), NEW w \in Nat,
           RunCommands(todo, c, w),
           internalCommands' \in Seq(Command), faults' = faults
    PROVE  TypeOK'
<1>1. /\ Tagged(todo) \in Seq(Request)
      /\ Len(todo) \in Nat
    BY TaggedType, LenProperties DEF TypeOK
<1>2. CASE Transmit(todo, c, w)
    <2>1. runningCommands' \in Seq(Request) /\ requests' \in Seq(Request)
        BY <1>1, <1>2, ConcatProperties DEF TypeOK, Transmit
    <2>2. sent' \in Nat /\ wakeups' \in Nat
        BY <1>1, <1>2 DEF TypeOK, Transmit, SetTimer
    <2>3. suspended' \in Seq(Command) /\ nested' \in {"none", "init", "reconnect", "resume", "inline"}
        BY <1>2 DEF TypeOK, Transmit, Return
    <2> QED
        BY <1>2, <2>1, <2>2, <2>3 DEF TypeOK, Transmit, RunCommands
<1>3. CASE Reconnect(todo, c, w)
    <2>1. Head(todo) \in Command /\ Tail(todo) \in Seq(Command)
        BY <1>3, HeadTailProperties DEF Reconnect, Rest
    <2>2. <<Head(todo)>> \o c \in Seq(Command)
        BY <2>1, ConcatProperties
    <2> QED
        BY <1>3, <2>1, <2>2 DEF TypeOK, Reconnect, Rest, RunCommands
<1>4. CASE Refuse(todo, c, w)
    <2>1. [k \in DOMAIN todo |-> "error"] \in Seq(Signal)
        BY LenProperties DEF Signal
    <2>2. outbox' \in Seq(Signal)
        BY <1>4, <2>1, ConcatProperties DEF TypeOK, Refuse
    <2>3. suspended' \in Seq(Command) /\ nested' \in {"none", "init", "reconnect", "resume", "inline"}
        BY <1>4 DEF TypeOK, Refuse, Return
    <2>4. /\ runningCommands' \in Seq(Request) /\ commands' \in Seq(Command) /\ wakeups' \in Nat
          /\ UNCHANGED <<thread, socket, requests, replies, sent>>
        BY <1>4, EmptyTypes DEF Refuse, SetTimer
    <2> QED
        BY <2>2, <2>3, <2>4 DEF TypeOK, RunCommands
<1>5. CASE Crash(todo, c, w)
    <2>1. thread' \in {"starting", "running", "finished", "crashed"}
        BY <1>5 DEF Crash
    <2>2. nested' = nested /\ suspended' = suspended
        BY <1>5 DEF Crash, loopVars
    <2> QED
        BY <1>5, <2>1, <2>2 DEF TypeOK, Crash, RunCommands
<1> QED
    BY <1>2, <1>3, <1>4, <1>5 DEF RunCommands

\* Every call and signal that is posted belongs to its type.
LEMMA CallTypes ==
    /\ \A batch \in Seq(Command) : [type |-> "add", batch |-> batch] \in Call
    /\ \A owner \in Owners : [type |-> "cancel", owner |-> owner] \in Call
    /\ [type |-> "authOk"] \in Call
    /\ [type |-> "shutdown"] \in Call
BY DEF Call

LEMMA ReceiveType ==
    ASSUME TypeOK, NEW type, Receive(type)
    PROVE  /\ inbox' \in Seq(Call)
           /\ type = "add" => Head(inbox).batch \in Seq(Command)
           /\ type = "cancel" => Head(inbox).owner \in Owners
<1>1. Head(inbox) \in Call /\ Tail(inbox) \in Seq(Call)
    BY HeadTailProperties DEF TypeOK, Receive
<1>2. Head(inbox).type = type /\ inbox' = Tail(inbox)
    BY DEF Receive
<1> QED
    BY <1>1, <1>2 DEF Call

LEMMA ErrorOccurredType ==
    ASSUME TypeOK, ErrorOccurred
    PROVE  runningCommands' \in Seq(Request) /\ outbox' \in Seq(Signal)
<1>1. "error" \in Signal
    BY DEF Signal
<1> QED
    BY <1>1, AppendProperties DEF TypeOK, ErrorOccurred

\* The initial state is type-correct.
LEMMA InitType == Init => TypeOK
<1> SUFFICES ASSUME Init PROVE TypeOK
    OBVIOUS
<1> QED
    BY EmptyTypes DEF Init, TypeOK

\* The caller's thread posts one call at a time; shutdownStart ends its session.
Posts(call) ==
    /\ inbox' = Append(inbox, call)
    /\ call.type = "shutdown" => stoppingTransporter'

LEMMA CallerPosts == ASSUME TypeOK, CallerNext PROVE \E call \in Call : Posts(call)
<1>1. ASSUME NEW batch \in Batches, Submit(batch)
      PROVE  \E call \in Call : inbox' = Append(inbox, call) /\ call.type # "shutdown"
    <2> DEFINE posted == [k \in DOMAIN batch |->
                            [batch[k] EXCEPT !.id = Len(submitted) + k]]
    <2>1. /\ Len(batch) \in Nat /\ DOMAIN batch = 1..Len(batch)
          /\ \A k \in 1..Len(batch) : batch[k] \in Command
        BY BatchesAssumption, LenProperties, ElementOfSeq
    <2>2. Len(submitted) \in Nat
        BY LenProperties DEF TypeOK
    <2>3. \A k \in 1..Len(batch) : [batch[k] EXCEPT !.id = Len(submitted) + k] \in Command
        BY <2>1, <2>2 DEF Command
    <2>4. posted \in Seq(Command)
        BY <2>1, <2>3
    <2>5. inbox' = Append(inbox, [type |-> "add", batch |-> posted])
        BY <1>1 DEF Submit
    <2> HIDE DEF posted
    <2> QED
        BY <2>4, <2>5, CallTypes
<1>2. ASSUME NEW owner \in Owners, DestroyOwner(owner)
      PROVE  \E call \in Call : inbox' = Append(inbox, call) /\ call.type # "shutdown"
    BY <1>2, CallTypes DEF DestroyOwner
<1>3. ASSUME Shutdown
      PROVE  \E call \in Call : inbox' = Append(inbox, call) /\ stoppingTransporter'
    BY <1>3, CallTypes DEF Shutdown
<1>4. ASSUME ReceiveSignal, ~Shutdown
      PROVE  \E call \in Call : inbox' = Append(inbox, call) /\ call.type # "shutdown"
    <2>1. <<HandshakeCommand>> \in Seq(Command)
        BY HandshakeType
    <2>2. \/ inbox' = Append(inbox, [type |-> "add", batch |-> <<HandshakeCommand>>])
          \/ inbox' = Append(inbox, [type |-> "authOk"])
        BY <1>4 DEF ReceiveSignal, HandleSignal
    <2> QED
        BY <2>1, <2>2, CallTypes
<1> QED
    BY <1>1, <1>2, <1>3, <1>4 DEF CallerNext, Disconnect, Posts

\* What the caller's thread does keeps the types.
LEMMA CallerType == ASSUME TypeOK, CallerNext PROVE TypeOK'
<1>1. inbox' \in Seq(Call)
    <2>1. PICK call \in Call : Posts(call)
        BY CallerPosts
    <2> QED
        BY <2>1, AppendProperties DEF TypeOK, Posts
<1>2. stoppingTransporter' \in BOOLEAN
    BY DEF TypeOK, CallerNext, Submit, DestroyOwner, Disconnect, ReceiveSignal, HandleSignal, Shutdown
<1>3. ASSUME NEW batch \in Batches, Submit(batch) PROVE TypeOK'
    <2>1. Len(batch) \in Nat /\ DOMAIN batch = 1..Len(batch)
        BY BatchesAssumption, LenProperties
    <2>2. \A k \in 1..Len(batch) : batch[k] \in Command
        BY BatchesAssumption, ElementOfSeq
    <2>3. \A k \in 1..Len(batch) : batch[k].owner \in Owners \union {NoOwner}
        BY <2>2 DEF Command
    <2>4. [k \in DOMAIN batch |-> batch[k].owner] \in Seq(Owners \union {NoOwner})
        BY <2>1, <2>3
    <2>5. submitted' \in Seq(Owners \union {NoOwner})
        BY <1>3, <2>4, ConcatProperties DEF TypeOK, Submit
    <2> QED
        BY <1>1, <1>3, <2>5 DEF TypeOK, Submit, queueVars, loopVars, netVars
<1>4. ASSUME NEW owner \in Owners, DestroyOwner(owner) PROVE TypeOK'
    BY <1>1, <1>4 DEF TypeOK, DestroyOwner, queueVars, loopVars, netVars
<1>5. CASE Disconnect
    BY <1>1, <1>2, <1>5 DEF TypeOK, Disconnect, Shutdown, queueVars, loopVars, netVars
<1>6. CASE ReceiveSignal
    <2>1. outbox' \in Seq(Signal)
        BY <1>6, HeadTailProperties DEF TypeOK, ReceiveSignal
    <2> QED
        BY <1>1, <1>2, <1>6, <2>1 DEF TypeOK, ReceiveSignal, queueVars, loopVars, netVars
<1> QED
    BY <1>3, <1>4, <1>5, <1>6 DEF CallerNext

LEMMA FilterType ==
    ASSUME NEW cmds \in Seq(Command)
    PROVE  /\ Subsequence(cmds, HiPriority(cmds)) \in Seq(Command)
           /\ Subsequence(cmds, LowPriority(cmds)) \in Seq(Command)
           /\ \A owner : WithoutOwner(cmds, owner) \in Seq(Command)
<1>1. /\ HiPriority(cmds) \in SUBSET DOMAIN cmds
      /\ LowPriority(cmds) \in SUBSET DOMAIN cmds
      /\ \A owner : DOMAIN cmds \ OwnedBy(cmds, owner) \in SUBSET DOMAIN cmds
    BY DEF HiPriority, LowPriority
<1> QED
    BY <1>1, SubsequenceElements DEF WithoutOwner

\* The start, the end and the calls of the transporter thread keep the types.
LEMMA ThreadType == ASSUME TypeOK, TransporterInit \/ Quit \/ InboxNext PROVE TypeOK'
<1>1. CASE TransporterInit
    BY <1>1 DEF TypeOK, TransporterInit, callerVars, queueVars
<1>2. CASE Quit
    BY <1>2, EmptyTypes DEF TypeOK, Quit, DisconnectFromHost, loopVars
<1>3. CASE AddCommands
    <2>1. inbox' \in Seq(Call) /\ Head(inbox).batch \in Seq(Command)
        BY <1>3, ReceiveType DEF AddCommands
    <2>2. internalCommands' \in Seq(Command) /\ commands' \in Seq(Command)
        BY <1>3, <2>1, FilterType, ConcatProperties DEF TypeOK, AddCommands, Enqueue
    <2>3. wakeups' \in Nat
        BY <1>3 DEF TypeOK, AddCommands, SetTimer
    <2> QED
        BY <1>3, <2>1, <2>2, <2>3 DEF TypeOK, AddCommands, callerVars, loopVars, netVars
<1>4. CASE AuthOk
    <2>1. inbox' \in Seq(Call)
        BY <1>4, ReceiveType DEF AuthOk
    <2> QED
        BY <1>4, <2>1 DEF TypeOK, AuthOk, SetTimer, callerVars, loopVars, netVars
<1>5. CASE CancelCommands
    <2> DEFINE running == CommandsOf(runningCommands)
               owner == Head(inbox).owner
    <2>1. inbox' \in Seq(Call)
        BY <1>5, ReceiveType DEF CancelCommands
    <2>2. DOMAIN running \ OwnedBy(running, owner) \in SUBSET DOMAIN runningCommands
        BY CommandsOfType DEF TypeOK
    <2>3. Subsequence(runningCommands, DOMAIN running \ OwnedBy(running, owner)) \in Seq(Request)
        BY <2>2, SubsequenceElements DEF TypeOK
    <2>4. WithoutOwner(commands, owner) \in Seq(Command)
        BY FilterType DEF TypeOK
    <2> QED
        BY <1>5, <2>1, <2>3, <2>4 DEF TypeOK, CancelCommands, callerVars, loopVars, netVars
<1>6. CASE ShutdownStart
    <2>1. inbox' \in Seq(Call)
        BY <1>6, ReceiveType DEF ShutdownStart
    <2> QED
        BY <1>6, <2>1, EmptyTypes DEF TypeOK, ShutdownStart, DisconnectFromHost, callerVars, loopVars
<1> QED
    BY <1>1, <1>2, <1>3, <1>4, <1>5, <1>6 DEF InboxNext

\* Running the queue keeps the types.
LEMMA QueueType == ASSUME TypeOK, QueueNext PROVE TypeOK'
<1>1. ProcessingQueue => OtherWakeups \in Nat
    BY DEF TypeOK, ProcessingQueue, OtherWakeups
<1>2. Return => /\ suspended' \in Seq(Command)
                /\ nested' \in {"none", "init", "reconnect", "resume", "inline"}
    BY EmptyTypes DEF TypeOK, Return
<1>3. CASE QueueIsEmpty
    BY <1>1, <1>2, <1>3 DEF TypeOK, QueueIsEmpty, callerVars, threadVars, netVars
<1>4. CASE Poll
    BY <1>1, <1>2, <1>4 DEF TypeOK, Poll, SetTimer, callerVars, threadVars, netVars
<1>5. CASE RunInternalCommand
    <2>1. Head(internalCommands) \in Command /\ Tail(internalCommands) \in Seq(Command)
        BY <1>5, HeadTailProperties DEF TypeOK, RunInternalCommand
    <2>2. /\ RunCommands(WithSelect(Head(internalCommands)), commands, OtherWakeups)
          /\ internalCommands' \in Seq(Command) /\ faults' = faults
        BY <1>5, <2>1 DEF RunInternalCommand
    <2>3. /\ WithSelect(Head(internalCommands)) \in Seq(Command)
          /\ commands \in Seq(Command) /\ OtherWakeups \in Nat
        BY <1>1, <1>5, <2>1, WithSelectType DEF TypeOK, RunInternalCommand
    <2> QED
        BY <2>2, <2>3, RunCommandsType
<1>6. CASE RunNextCommand
    <2>1. Head(commands) \in Command /\ Tail(commands) \in Seq(Command)
        BY <1>6, HeadTailProperties DEF TypeOK, RunNextCommand
    <2>2. /\ RunCommands(WithSelect(Head(commands)), Tail(commands), OtherWakeups)
          /\ internalCommands' \in Seq(Command) /\ faults' = faults
        BY <1>6 DEF TypeOK, RunNextCommand
    <2>3. WithSelect(Head(commands)) \in Seq(Command) /\ OtherWakeups \in Nat
        BY <1>1, <1>6, <2>1, WithSelectType DEF RunNextCommand
    <2> QED
        BY <2>1, <2>2, <2>3, RunCommandsType
<1>7. CASE Resume
    <2>1. /\ RunCommands(suspended, commands, wakeups)
          /\ internalCommands' \in Seq(Command) /\ faults' = faults
        BY <1>7 DEF TypeOK, Resume
    <2>2. suspended \in Seq(Command) /\ commands \in Seq(Command) /\ wakeups \in Nat
        BY DEF TypeOK
    <2> QED
        BY <2>1, <2>2, RunCommandsType
<1> QED
    BY <1>3, <1>4, <1>5, <1>6, <1>7 DEF QueueNext

LEMMA SpendType == ASSUME TypeOK, NEW fault, Spend(fault) PROVE faults' \in Nat
BY DEF TypeOK, Spend

\* Connecting and losing the connection keep the types.
LEMMA ConnectType == ASSUME TypeOK, ConnectNext PROVE TypeOK'
<1>1. EndNestedLoop => nested' \in {"none", "init", "reconnect", "resume", "inline"}
    BY DEF EndNestedLoop
<1>2. CASE ConnectSucceeds
    <2>1. outbox' \in Seq(Signal)
        <3>1. "connected" \in Signal
            BY DEF Signal
        <3> QED
            BY <1>2, <3>1, AppendProperties DEF TypeOK, ConnectSucceeds
    <2> QED
        BY <1>1, <1>2, <2>1 DEF TypeOK, ConnectSucceeds, ResetDbIndex, queueVars, threadVars
<1>3. CASE ConnectFails
    <2>1. runningCommands' \in Seq(Request) /\ outbox' \in Seq(Signal) /\ faults' \in Nat
        BY <1>3, ErrorOccurredType, SpendType DEF ConnectFails
    <2> QED
        BY <1>1, <1>3, <2>1, EmptyTypes DEF TypeOK, ConnectFails, threadVars
<1>4. CASE ConnectTimesOut
    <2>1. runningCommands' \in Seq(Request) /\ outbox' \in Seq(Signal) /\ faults' \in Nat
        BY <1>4, ErrorOccurredType, SpendType DEF ConnectTimesOut
    <2> QED
        BY <1>1, <1>4, <2>1 DEF TypeOK, ConnectTimesOut, threadVars, netVars
<1>5. CASE ConnectInterrupted
    <2>1. runningCommands' \in Seq(Request) /\ outbox' \in Seq(Signal)
        BY <1>5, ErrorOccurredType DEF ConnectInterrupted
    <2> QED
        BY <1>1, <1>5, <2>1 DEF TypeOK, ConnectInterrupted, threadVars, netVars
<1>6. CASE ConnectsLate
    BY <1>6 DEF TypeOK, ConnectsLate, callerVars, queueVars, threadVars, loopVars
<1>7. CASE SocketError
    <2>1. runningCommands' \in Seq(Request) /\ outbox' \in Seq(Signal) /\ faults' \in Nat
        BY <1>7, ErrorOccurredType, SpendType DEF SocketError
    <2> QED
        BY <1>7, <2>1, EmptyTypes DEF TypeOK, SocketError, ConnectionLost, threadVars, loopVars
<1>8. CASE UnknownSocketError
    <2> DEFINE running == CommandsOf(runningCommands)
    <2>1. running \in Seq(Command)
        BY CommandsOfType DEF TypeOK
    <2>2. /\ Reverse(Subsequence(running, HiPriority(running))) \in Seq(Command)
          /\ Reverse(Subsequence(running, LowPriority(running))) \in Seq(Command)
        BY <2>1, FilterType, ReverseElements
    <2>3. internalCommands' \in Seq(Command) /\ commands' \in Seq(Command)
        BY <1>8, <2>2, ConcatProperties DEF TypeOK, UnknownSocketError
    <2>4. faults' \in Nat
        BY <1>8, SpendType DEF UnknownSocketError
    <2> QED
        BY <1>8, <2>3, <2>4, EmptyTypes
        DEF TypeOK, UnknownSocketError, ConnectionLost, callerVars, threadVars
<1> QED
    BY <1>2, <1>3, <1>4, <1>5, <1>6, <1>7, <1>8 DEF ConnectNext

\* Reading a reply keeps the types.
LEMMA ReplyType == ASSUME TypeOK, ReplyNext PROVE TypeOK'
<1>1. ReadReply => replies' \in Seq(Reply)
    BY HeadTailProperties DEF TypeOK, ReadReply
<1>2. runningCommands # <<>> => /\ Head(runningCommands) \in Request
                                /\ Head(runningCommands).cmd \in Command
                                /\ Tail(runningCommands) \in Seq(Request)
    <2>1. runningCommands # <<>> => /\ Head(runningCommands) \in Request
                                    /\ Tail(runningCommands) \in Seq(Request)
        BY HeadTailProperties DEF TypeOK
    <2>2. \A request \in Request : request.cmd \in Command
        BY DEF Request
    <2> QED
        BY <2>1, <2>2
<1>3. CASE DiscardReply
    BY <1>1, <1>3 DEF TypeOK, DiscardReply, callerVars, queueVars, threadVars, loopVars
<1>4. CASE UnexpectedReply
    <2>1. replies' \in Seq(Reply)
        BY <1>1, <1>4 DEF UnexpectedReply
    <2>2. /\ runningCommands' \in Seq(Request) /\ outbox' \in Seq(Signal)
          /\ reconnectEnabled' \in BOOLEAN
        BY <1>4, ErrorOccurredType DEF TypeOK, UnexpectedReply
    <2> QED
        BY <1>4, <2>1, <2>2 DEF TypeOK, UnexpectedReply, loopVars
<1>5. CASE IntermediateReply
    <2> DEFINE cmd == Head(runningCommands).cmd
               shorter == [Head(runningCommands) EXCEPT !.cmd.arg = cmd.arg - 1]
    <2>1. cmd \in Command /\ Len(runningCommands) \in Nat \ {0}
        BY <1>2, <1>5, EmptySeq DEF TypeOK, IntermediateReply
    <2>2. ASSUME cmd.kind = "pipeline"
          PROVE  runningCommands' \in Seq(Request)
        <3>1. Intermediate(cmd, Head(replies).status)
              /\ runningCommands' = [runningCommands EXCEPT ![1].cmd.arg = cmd.arg - 1]
            BY <1>5, <2>2 DEF IntermediateReply
        <3>2. cmd.arg - 1 \in Nat \ {0}
            BY <2>1, <2>2, <3>1 DEF Intermediate, Command
        <3>3. runningCommands[1] \in Request /\ runningCommands[1] = Head(runningCommands)
            BY <2>1, ElementOfSeq DEF TypeOK
        <3>4. [runningCommands[1] EXCEPT !.cmd.arg = cmd.arg - 1] \in Request
            BY <3>2, <3>3 DEF Request, Command
        <3>5. runningCommands' = [runningCommands EXCEPT
                  ![1] = [runningCommands[1] EXCEPT !.cmd.arg = cmd.arg - 1]]
            BY <3>1
        <3> QED
            BY <2>1, <3>4, <3>5, ExceptSeq DEF TypeOK
    <2>3. runningCommands' \in Seq(Request)
        BY <1>5, <2>2 DEF TypeOK, IntermediateReply
    <2> QED
        BY <1>1, <1>5, <2>3 DEF TypeOK, IntermediateReply, callerVars, threadVars, loopVars
<1>6. CASE RetryCommand
    <2>1. /\ replies' \in Seq(Reply) /\ runningCommands' \in Seq(Request)
          /\ Head(runningCommands).cmd \in Command
        BY <1>1, <1>2, <1>6 DEF RetryCommand, FinalReply, Dequeue
    <2>2. <<Head(runningCommands).cmd>> \o commands \in Seq(Command)
        BY <2>1, ConcatProperties DEF TypeOK
    <2> QED
        BY <1>6, <2>1, <2>2 DEF TypeOK, RetryCommand, callerVars, threadVars, loopVars
<1>7. CASE CompleteCommand
    <2> DEFINE cmd == Head(runningCommands).cmd
    <2>1. /\ replies' \in Seq(Reply) /\ runningCommands' \in Seq(Request) /\ cmd \in Command
        BY <1>1, <1>2, <1>7 DEF CompleteCommand, FinalReply, Dequeue
    <2>2. dbNumber' \in Nat /\ answered' \subseteq Nat
        BY <1>7, <2>1 DEF TypeOK, CompleteCommand, Command
    <2>3. \A signal \in Signal : Append(outbox, signal) \in Seq(Signal)
        BY AppendProperties DEF TypeOK
    <2>4. outbox' \in Seq(Signal)
        BY <1>7, <2>3 DEF TypeOK, CompleteCommand, Signal
    <2> QED
        BY <1>7, <2>1, <2>2, <2>4 DEF TypeOK, CompleteCommand, threadVars, loopVars
<1> QED
    BY <1>3, <1>4, <1>5, <1>6, <1>7 DEF ReplyNext

LEMMA RespondType ==
    ASSUME TypeOK, NEW statuses \in Seq(Status), Respond(statuses),
           serverDb' \in Nat, faults' \in Nat
    PROVE  TypeOK'
<1>1. Head(requests) \in Request /\ Tail(requests) \in Seq(Request)
    BY HeadTailProperties DEF TypeOK, Respond
<1>2. /\ DOMAIN statuses = 1..Len(statuses) /\ Len(statuses) \in Nat
      /\ \A k \in 1..Len(statuses) : statuses[k] \in Status
    BY LenProperties, ElementOfSeq
<1>3. \A k \in 1..Len(statuses) : [tag |-> Head(requests).tag, status |-> statuses[k]] \in Reply
    BY <1>1, <1>2 DEF Request, Reply, Status
<1>4. [k \in DOMAIN statuses |-> [tag |-> Head(requests).tag, status |-> statuses[k]]] \in Seq(Reply)
    BY <1>2, <1>3
<1>5. replies' \in Seq(Reply) /\ requests' \in Seq(Request)
    BY <1>1, <1>4, ConcatProperties DEF TypeOK, Respond
<1> QED
    BY <1>5 DEF TypeOK, Respond, callerVars, queueVars, threadVars, loopVars

\* What the server sends keeps the types.
LEMMA ServerType == ASSUME TypeOK, ServerNext PROVE TypeOK'
<1>1. requests # <<>> => Head(requests) \in Request /\ Head(requests).cmd \in Command
    <2>1. requests # <<>> => Head(requests) \in Request
        BY HeadTailProperties DEF TypeOK
    <2>2. \A request \in Request : request.cmd \in Command
        BY DEF Request
    <2> QED
        BY <2>1, <2>2
<1>2. \A status \in Status : <<status>> \in Seq(Status)
    OBVIOUS
<1>3. CASE ServerExecutes
    <2>1. Head(requests).cmd \in Command
        BY <1>1, <1>3 DEF ServerExecutes
    <2>2. serverDb' \in Nat /\ faults' \in Nat
        BY <1>3, <2>1 DEF TypeOK, ServerExecutes, Command
    <2> QED
        BY <1>3, <2>1, <2>2, SuccessStatusesType, GoodStatuses, RespondType DEF ServerExecutes
<1>4. CASE ServerProtocolError
    BY <1>2, <1>4, RespondType, SpendType DEF TypeOK, ServerProtocolError, Status
<1>5. CASE ServerRefusesSelect
    BY <1>2, <1>5, RespondType, SpendType DEF TypeOK, ServerRefusesSelect, Status
<1>6. CASE ServerAbortsTransaction
    <2>1. Head(requests).cmd \in Command
        BY <1>1, <1>6 DEF ServerAbortsTransaction
    <2> QED
        BY <1>6, <2>1, QueueErrorStatusesType, GoodStatuses, RespondType, SpendType
        DEF TypeOK, ServerAbortsTransaction
<1>7. CASE ServerErrorState
    <2>1. [tag |-> 0, status |-> "errorState"] \in Reply
        BY DEF Reply
    <2>2. replies' \in Seq(Reply) /\ faults' \in Nat
        BY <1>7, <2>1, AppendProperties, SpendType DEF TypeOK, ServerErrorState
    <2> QED
        BY <1>7, <2>2 DEF TypeOK, ServerErrorState, callerVars, queueVars, threadVars, loopVars
<1> QED
    BY <1>3, <1>4, <1>5, <1>6, <1>7 DEF ServerNext

\* Every reachable state of every session is type-correct: no handler puts
\* anything but commands in the queues, or takes from an empty one.
THEOREM TypeCorrect == Spec => []TypeOK
<1>1. Init => TypeOK
    BY InitType
<1>2. TypeOK /\ [Next]_vars => TypeOK'
    <2> SUFFICES ASSUME TypeOK, [Next]_vars PROVE TypeOK'
        OBVIOUS
    <2>1. CASE Next
        BY <2>1, CallerType, ThreadType, QueueType, ConnectType, ReplyType, ServerType DEF Next
    <2>2. CASE UNCHANGED vars
        BY <2>2 DEF TypeOK, vars, callerVars, queueVars, threadVars, loopVars, netVars
    <2> QED
        BY <2>1, <2>2
<1> QED
    BY <1>1, <1>2, PTL DEF Spec

-----------------------------------------------------------------------------
(* Which handler may run when: the thread, the nested event loop and the socket. *)

\* shutdownStart is the last call that is posted.
ShutdownIsLast ==
    \A k \in DOMAIN inbox : inbox[k].type = "shutdown" => k = Len(inbox) /\ stoppingTransporter

\* Nothing waits before init.
StartsEmpty ==
    thread = "starting" => /\ commands = <<>> /\ internalCommands = <<>>
                           /\ runningCommands = <<>> /\ suspended = <<>>
                           /\ nested = "none"

\* Without a socket, once it has been made, no call will come.
NoSocketNoCalls == thread = "running" /\ socket = "null" => stoppingTransporter /\ inbox = <<>>

\* A nested event loop waits for a socket that is connecting, unless
\* shutdownStart has run in that loop and the socket is gone.
NestedConnects == nested \in {"init", "reconnect"} => socket \in {"connecting", "null"}

\* Only a reconnect interrupts executeCmd.
SuspendedInLoop == suspended # <<>> => nested \in {"reconnect", "resume"}

ControlInvariant ==
    /\ TypeOK
    /\ ShutdownIsLast
    /\ StartsEmpty
    /\ NoSocketNoCalls
    /\ NestedConnects
    /\ SuspendedInLoop

LEMMA InitControl == Init => ControlInvariant
BY InitType
DEF Init, ControlInvariant, ShutdownIsLast, StartsEmpty, NoSocketNoCalls, NestedConnects,
    SuspendedInLoop

\* The caller's thread posts one call at a time, and none after shutdownStart.
LEMMA PostedCall ==
    ASSUME ControlInvariant, IsConnected, NEW call \in Call, Posts(call),
           UNCHANGED <<thread, socket>>
    PROVE  ShutdownIsLast' /\ NoSocketNoCalls'
<1>1. Len(inbox) \in Nat /\ inbox \in Seq(Call)
    BY DEF ControlInvariant, TypeOK
<1>2. \A k \in DOMAIN inbox : inbox[k].type # "shutdown"
    BY DEF ControlInvariant, ShutdownIsLast, IsConnected
<1>3. /\ DOMAIN inbox' = 1..(Len(inbox) + 1) /\ Len(inbox') = Len(inbox) + 1
      /\ \A k \in 1..Len(inbox) : inbox'[k] = inbox[k]
      /\ inbox'[Len(inbox) + 1] = call
    BY <1>1, AppendProperties DEF Posts
<1>4. ShutdownIsLast'
    BY <1>1, <1>2, <1>3 DEF ShutdownIsLast, Posts
<1>5. NoSocketNoCalls'
    BY DEF ControlInvariant, NoSocketNoCalls, IsConnected
<1> QED
    BY <1>4, <1>5

LEMMA CallerControl ==
    ASSUME ControlInvariant, CallerNext
    PROVE  ControlInvariant' /\ IsConnected /\ UNCHANGED <<queueVars, thread, loopVars, netVars>>
<1> USE DEF ControlInvariant
<1>1. TypeOK'
    BY CallerType
<1>2. UNCHANGED <<queueVars, thread, loopVars, netVars>>
    BY DEF CallerNext, Submit, DestroyOwner, Disconnect, ReceiveSignal
<1>3. IsConnected
    BY DEF CallerNext, Submit, DestroyOwner, Disconnect, Shutdown, ReceiveSignal
<1>4. PICK call \in Call : Posts(call)
    BY CallerPosts
<1>5. ShutdownIsLast' /\ NoSocketNoCalls'
    BY <1>2, <1>3, <1>4, PostedCall DEF netVars
<1> QED
    BY <1>1, <1>2, <1>3, <1>5
    DEF StartsEmpty, NestedConnects, SuspendedInLoop, queueVars, loopVars, netVars

\* Taking a call out of the inbox leaves shutdownStart the last one.
LEMMA ReceivedCall ==
    ASSUME TypeOK, ShutdownIsLast, NEW type, Receive(type), UNCHANGED stoppingTransporter
    PROVE  ShutdownIsLast' /\ (type = "shutdown" => inbox' = <<>> /\ stoppingTransporter)
<1>1. /\ inbox' = Tail(inbox) /\ inbox # <<>> /\ inbox \in Seq(Call)
      /\ Head(inbox) = inbox[1] /\ Head(inbox).type = type
    BY DEF Receive, TypeOK
<1>2. Len(inbox) \in Nat \ {0} /\ DOMAIN inbox = 1..Len(inbox)
    BY <1>1, EmptySeq, LenProperties
<1>3. /\ Len(inbox') = Len(inbox) - 1 /\ DOMAIN inbox' = 1..(Len(inbox) - 1)
      /\ \A k \in 1..(Len(inbox) - 1) : inbox'[k] = inbox[k + 1]
      /\ inbox' \in Seq(Call)
    BY <1>1, <1>2, HeadTailProperties
<1>4. ShutdownIsLast'
    BY <1>2, <1>3 DEF ShutdownIsLast
<1>5. ASSUME type = "shutdown" PROVE inbox' = <<>> /\ stoppingTransporter
    <2>1. Len(inbox) = 1 /\ stoppingTransporter
        BY <1>1, <1>2, <1>5 DEF ShutdownIsLast
    <2> QED
        BY <1>3, <2>1, EmptySeq
<1> QED
    BY <1>4, <1>5

LEMMA ThreadControl ==
    ASSUME ControlInvariant, TransporterInit \/ Quit \/ InboxNext
    PROVE  ControlInvariant'
<1> USE DEF ControlInvariant
<1>1. TypeOK'
    BY ThreadType
<1>2. CASE TransporterInit
    BY <1>1, <1>2 DEF TransporterInit, callerVars, queueVars, ShutdownIsLast, StartsEmpty,
                      NoSocketNoCalls, NestedConnects, SuspendedInLoop
<1>3. CASE Quit
    <2>1. /\ thread' = "finished" /\ inbox' = <<>> /\ nested = "none"
          /\ UNCHANGED <<nested, suspended>>
        BY <1>3 DEF Quit, loopVars
    <2> QED
        BY <1>1, <2>1
        DEF ShutdownIsLast, StartsEmpty, NoSocketNoCalls, NestedConnects, SuspendedInLoop
<1>4. CASE InboxNext
    <2>1. PICK type : Receive(type)
        BY <1>4 DEF InboxNext, AddCommands, AuthOk, CancelCommands, ShutdownStart
    <2>2. UNCHANGED <<stoppingTransporter, thread, nested, suspended>>
        BY <1>4 DEF InboxNext, AddCommands, AuthOk, CancelCommands, ShutdownStart, callerVars,
                    loopVars
    <2>3. ShutdownIsLast' /\ inbox # <<>> /\ thread = "running"
        BY <2>1, <2>2, ReceivedCall DEF Receive, AtEventLoop
    <2>4. UNCHANGED socket \/ (socket' = "null" /\ inbox' = <<>> /\ stoppingTransporter)
        BY <1>4, <2>2, ReceivedCall
        DEF InboxNext, AddCommands, AuthOk, CancelCommands, ShutdownStart, DisconnectFromHost,
            netVars
    <2> QED
        BY <1>1, <2>2, <2>3, <2>4
        DEF StartsEmpty, NoSocketNoCalls, NestedConnects, SuspendedInLoop
<1> QED
    BY <1>2, <1>3, <1>4

\* A reconnect begins only where no other is under way.
LEMMA RunCommandsControl ==
    ASSUME ControlInvariant, TypeOK', thread = "running", NEW todo, NEW c, NEW w,
           RunCommands(todo, c, w), nested = "resume" => todo = suspended
    PROVE  ControlInvariant'
<1> USE DEF ControlInvariant
<1>1. UNCHANGED <<stoppingTransporter, inbox>> /\ thread' \in {"running", "crashed"}
    BY DEF RunCommands, Transmit, Reconnect, Refuse, Crash
<1>2. ShutdownIsLast' /\ StartsEmpty'
    BY <1>1 DEF ShutdownIsLast, StartsEmpty
<1>3. NoSocketNoCalls'
    BY <1>1 DEF NoSocketNoCalls, RunCommands, Transmit, Reconnect, Refuse, Crash
<1>4. NestedConnects' /\ SuspendedInLoop'
    BY DEF NestedConnects, SuspendedInLoop, RunCommands, Transmit, Reconnect, Refuse, Crash,
           Return, loopVars
<1> QED
    BY <1>2, <1>3, <1>4

LEMMA QueueControl == ASSUME ControlInvariant, QueueNext PROVE ControlInvariant'
<1> USE DEF ControlInvariant
<1>1. TypeOK'
    BY QueueType
<1>2. ProcessingQueue => thread = "running" /\ nested # "resume"
    BY DEF ProcessingQueue
<1>3. CASE QueueIsEmpty \/ Poll
    BY <1>1, <1>2, <1>3
    DEF QueueIsEmpty, Poll, Return, callerVars, threadVars, netVars, ShutdownIsLast,
        StartsEmpty, NoSocketNoCalls, NestedConnects, SuspendedInLoop
<1>4. CASE RunInternalCommand
    BY <1>1, <1>2, <1>4, RunCommandsControl DEF RunInternalCommand
<1>5. CASE RunNextCommand
    BY <1>1, <1>2, <1>5, RunCommandsControl DEF RunNextCommand
<1>6. CASE Resume
    BY <1>1, <1>6, RunCommandsControl DEF Resume
<1> QED
    BY <1>3, <1>4, <1>5, <1>6 DEF QueueNext

LEMMA ConnectControl ==
    ASSUME ControlInvariant, ConnectNext
    PROVE  /\ ControlInvariant'
           /\ thread = "running" /\ UNCHANGED <<submitted, destroyed, stoppingTransporter, thread,
                                                inbox, wakeups, suspended, answered>>
<1> USE DEF ControlInvariant
<1>1. TypeOK'
    BY ConnectType
<1>2. /\ thread = "running"
      /\ UNCHANGED <<submitted, destroyed, stoppingTransporter, thread, inbox, wakeups, suspended,
                     answered>>
    BY DEF ConnectNext, ConnectSucceeds, ConnectFails, ConnectTimesOut, ConnectInterrupted,
           ConnectsLate, SocketError, UnknownSocketError, ConnectionLost, AtEventLoop,
           callerVars, queueVars, threadVars, loopVars
<1>3. socket' = "null" => socket = "null"
    BY DEF ConnectNext, ConnectSucceeds, ConnectFails, ConnectTimesOut, ConnectInterrupted,
           ConnectsLate, SocketError, UnknownSocketError, ConnectionLost, netVars
<1>4. nested' \notin {"init", "reconnect"} /\ (nested = "reconnect" => nested' = "resume")
      /\ (nested = "resume" => FALSE)
    BY DEF ConnectNext, ConnectSucceeds, ConnectFails, ConnectTimesOut, ConnectInterrupted,
           ConnectsLate, SocketError, UnknownSocketError, ConnectionLost, EndNestedLoop, loopVars
<1> QED
    BY <1>1, <1>2, <1>3, <1>4
    DEF ShutdownIsLast, StartsEmpty, NoSocketNoCalls, NestedConnects, SuspendedInLoop

LEMMA ReplyControl ==
    ASSUME ControlInvariant, ReplyNext
    PROVE  /\ ControlInvariant'
           /\ thread = "running" /\ UNCHANGED <<submitted, destroyed, stoppingTransporter, thread,
                                                inbox, wakeups, nested, suspended, socket,
                                                internalCommands>>
<1> USE DEF ControlInvariant
<1>1. TypeOK'
    BY ReplyType
<1>2. /\ thread = "running"
      /\ UNCHANGED <<submitted, destroyed, stoppingTransporter, thread, inbox, wakeups, nested,
                     suspended, socket, internalCommands>>
    BY DEF ReplyNext, DiscardReply, UnexpectedReply, IntermediateReply, RetryCommand,
           CompleteCommand, FinalReply, ReadReply, AtEventLoop, callerVars, queueVars,
           threadVars, loopVars
<1> QED
    BY <1>1, <1>2
    DEF ShutdownIsLast, StartsEmpty, NoSocketNoCalls, NestedConnects, SuspendedInLoop

LEMMA ServerControl ==
    ASSUME ControlInvariant, ServerNext
    PROVE  /\ ControlInvariant'
           /\ UNCHANGED <<callerVars, queueVars, threadVars, loopVars, socket, answered>>
<1> USE DEF ControlInvariant
<1>1. TypeOK'
    BY ServerType
<1>2. UNCHANGED <<callerVars, queueVars, threadVars, loopVars, socket, answered>>
    BY DEF ServerNext, ServerExecutes, ServerProtocolError, ServerRefusesSelect,
           ServerAbortsTransaction, ServerErrorState, Respond
<1> QED
    BY <1>1, <1>2
    DEF ShutdownIsLast, StartsEmpty, NoSocketNoCalls, NestedConnects, SuspendedInLoop,
        callerVars, queueVars, threadVars, loopVars

LEMMA StutterControl == ASSUME ControlInvariant, UNCHANGED vars PROVE ControlInvariant'
BY DEF ControlInvariant, TypeOK, ShutdownIsLast, StartsEmpty, NoSocketNoCalls, NestedConnects,
       SuspendedInLoop, vars, callerVars, queueVars, threadVars, loopVars, netVars

LEMMA ControlStep == ControlInvariant /\ [Next]_vars => ControlInvariant'
BY CallerControl, ThreadControl, QueueControl, ConnectControl, ReplyControl, ServerControl,
   StutterControl DEF Next

LEMMA ControlHolds == Spec => []ControlInvariant
BY InitControl, ControlStep, PTL DEF Spec


-----------------------------------------------------------------------------
(* A command that waits in a queue has a timer that will look at it: in every *)
(* session in which no reply is a protocol error, whatever else fails.  (After *)
(* a protocol error it may have none.)                                       *)

\* No reply makes sendResponse put its command back.
NoProtocolErrors == \A k \in DOMAIN replies : replies[k].status # "protocolError"

\* WaitingHasWakeup, without the concatenation of the two queues.
Waiting == commands # <<>> \/ internalCommands # <<>>
HasWakeup == thread = "running" /\ nested \in {"none", "init"} /\ Waiting => wakeups > 0

WakeupInvariant ==
    /\ ControlInvariant
    /\ NoProtocolErrors
    /\ HasWakeup

LEMMA WaitingMeans == ASSUME TypeOK PROVE HasWakeup <=> WaitingHasWakeup
<1>1. commands \o internalCommands = <<>> <=> commands = <<>> /\ internalCommands = <<>>
    BY ConcatProperties, ConcatEmptySeq DEF TypeOK
<1> QED
    BY <1>1 DEF HasWakeup, Waiting, WaitingHasWakeup

LEMMA InitWakeup == Init => WakeupInvariant
BY InitControl DEF Init, WakeupInvariant, NoProtocolErrors, HasWakeup

LEMMA CallerWakeup ==
    ASSUME WakeupInvariant, CallerNext
    PROVE  WakeupInvariant'
BY CallerControl
DEF WakeupInvariant, NoProtocolErrors, HasWakeup, Waiting, queueVars, loopVars, netVars

-----------------------------------------------------------------------------
(* The transporter thread. *)

\* A subsequence of the empty sequence is empty.
LEMMA EmptySubsequence == ASSUME NEW I \in SUBSET DOMAIN <<>> PROVE Subsequence(<<>>, I) = <<>>
<1>1. I = {}
    OBVIOUS
<1>2. Cardinality(I) = 0
    BY <1>1, FS_EmptySet
<1> QED
    BY <1>2 DEF Subsequence

LEMMA ThreadWakeup ==
    ASSUME WakeupInvariant, TransporterInit \/ Quit \/ InboxNext
    PROVE  WakeupInvariant'
<1> USE DEF WakeupInvariant
<1>1. ControlInvariant' /\ TypeOK
    BY ThreadControl DEF ControlInvariant
<1>2. CASE TransporterInit
    BY <1>1, <1>2 DEF TransporterInit, queueVars, NoProtocolErrors, ControlInvariant, StartsEmpty,
                      HasWakeup, Waiting
<1>3. CASE Quit
    <2>1. thread' = "finished" /\ replies' = <<>>
        BY <1>3 DEF Quit, DisconnectFromHost
    <2> QED
        BY <1>1, <2>1 DEF NoProtocolErrors, HasWakeup
<1>4. CASE AddCommands
    <2>1. socket # "null"
        BY <1>4 DEF AddCommands, Receive, AtEventLoop, ControlInvariant, NoSocketNoCalls
    <2>2. wakeups' > 0
        BY <1>1, <1>4, <2>1 DEF TypeOK, AddCommands, SetTimer
    <2> QED
        BY <1>1, <1>4, <2>2 DEF AddCommands, netVars, NoProtocolErrors, HasWakeup
<1>5. CASE AuthOk
    <2>1. wakeups' > 0
        BY <1>1, <1>5 DEF TypeOK, AuthOk, SetTimer
    <2> QED
        BY <1>1, <1>5, <2>1 DEF AuthOk, netVars, NoProtocolErrors, HasWakeup
<1>6. CASE CancelCommands
    <2>1. commands = <<>> => commands' = <<>>
        BY <1>6, EmptySubsequence DEF CancelCommands, WithoutOwner
    <2> QED
        BY <1>1, <1>6, <2>1
        DEF CancelCommands, netVars, loopVars, NoProtocolErrors, HasWakeup, Waiting, Receive,
            AtEventLoop
<1>7. CASE ShutdownStart
    <2>1. commands' = <<>> /\ internalCommands' = <<>> /\ replies' = <<>>
        BY <1>7 DEF ShutdownStart, DisconnectFromHost
    <2> QED
        BY <1>1, <2>1 DEF NoProtocolErrors, HasWakeup, Waiting
<1> QED
    BY <1>2, <1>3, <1>4, <1>5, <1>6, <1>7 DEF InboxNext

\* Whatever runCommand meets, a timer is set unless a reconnect has begun.
LEMMA RunCommandsWakeup ==
    ASSUME WakeupInvariant, NEW todo, NEW c, NEW w \in Nat, RunCommands(todo, c, w)
    PROVE  NoProtocolErrors' /\ HasWakeup'
<1>1. replies' = replies \/ replies' = <<>>
    BY DEF RunCommands, Transmit, Reconnect, Refuse, Crash
<1>2. thread' # "running" \/ wakeups' > 0 \/ nested' = "reconnect"
    BY DEF RunCommands, Transmit, Reconnect, Refuse, Crash, SetTimer
<1> QED
    BY <1>1, <1>2 DEF WakeupInvariant, NoProtocolErrors, HasWakeup

LEMMA QueueWakeup == ASSUME WakeupInvariant, QueueNext PROVE WakeupInvariant'
<1> USE DEF WakeupInvariant
<1>1. ControlInvariant' /\ TypeOK
    BY QueueControl DEF ControlInvariant
<1>2. ProcessingQueue => OtherWakeups \in Nat
    BY <1>1 DEF TypeOK, ProcessingQueue, OtherWakeups
<1>3. CASE QueueIsEmpty
    BY <1>1, <1>3 DEF QueueIsEmpty, netVars, NoProtocolErrors, HasWakeup, Waiting
<1>4. CASE Poll
    <2>1. wakeups' > 0
        BY <1>2, <1>4 DEF Poll, SetTimer
    <2> QED
        BY <1>1, <1>4, <2>1 DEF Poll, netVars, NoProtocolErrors, HasWakeup
<1>5. CASE RunInternalCommand
    BY <1>1, <1>2, <1>5, RunCommandsWakeup DEF RunInternalCommand
<1>6. CASE RunNextCommand
    BY <1>1, <1>2, <1>6, RunCommandsWakeup DEF RunNextCommand
<1>7. CASE Resume
    BY <1>1, <1>7, RunCommandsWakeup DEF Resume, TypeOK
<1> QED
    BY <1>3, <1>4, <1>5, <1>6, <1>7 DEF QueueNext

\* The nested loop of init hands its timers on to the outer one.
LEMMA ConnectWakeup == ASSUME WakeupInvariant, ConnectNext PROVE WakeupInvariant'
<1> USE DEF WakeupInvariant
<1>1. ControlInvariant' /\ UNCHANGED <<thread, wakeups>>
    BY ConnectControl
<1>2. replies' = replies \/ replies' = <<>>
    BY DEF ConnectNext, ConnectSucceeds, ConnectFails, ConnectTimesOut, ConnectInterrupted,
           ConnectsLate, SocketError, UnknownSocketError, ConnectionLost, netVars
<1>3. \/ UNCHANGED <<commands, internalCommands>>
         /\ (nested' \in {"none", "init"} => nested \in {"none", "init"})
      \/ nested' \notin {"none", "init"}
    BY DEF ConnectNext, ConnectSucceeds, ConnectFails, ConnectTimesOut, ConnectInterrupted,
           ConnectsLate, SocketError, UnknownSocketError, ConnectionLost, EndNestedLoop,
           queueVars, loopVars
<1> QED
    BY <1>1, <1>2, <1>3 DEF NoProtocolErrors, HasWakeup, Waiting

\* sendResponse puts nothing back.
LEMMA ReplyWakeup == ASSUME WakeupInvariant, ReplyNext PROVE WakeupInvariant'
<1> USE DEF WakeupInvariant
<1>1. ControlInvariant' /\ TypeOK /\ UNCHANGED <<thread, wakeups, nested, internalCommands>>
    BY ReplyControl DEF ControlInvariant
<1>2. ReadReply
    BY DEF ReplyNext, DiscardReply, UnexpectedReply, IntermediateReply, FinalReply,
           RetryCommand, CompleteCommand
<1>3. replies \in Seq(Reply) /\ replies # <<>> /\ replies' = Tail(replies)
    BY <1>1, <1>2 DEF TypeOK, ReadReply
<1>4. /\ Len(replies) \in Nat \ {0} /\ DOMAIN replies = 1..Len(replies)
      /\ Head(replies) = replies[1]
    BY <1>3, EmptySeq, LenProperties
<1>5. /\ DOMAIN replies' = 1..(Len(replies) - 1)
      /\ \A k \in 1..(Len(replies) - 1) : replies'[k] = replies[k + 1]
    BY <1>3, <1>4, HeadTailProperties
<1>6. NoProtocolErrors' /\ Head(replies).status # "protocolError"
    <2>1. 1 \in DOMAIN replies /\ \A k \in 1..(Len(replies) - 1) : k + 1 \in DOMAIN replies
        BY <1>4
    <2> QED
        BY <1>4, <1>5, <2>1 DEF NoProtocolErrors
<1>7. ~RetryCommand
    BY <1>6 DEF RetryCommand
<1>8. UNCHANGED commands
    BY <1>7 DEF ReplyNext, DiscardReply, UnexpectedReply, IntermediateReply, CompleteCommand,
                queueVars
<1> QED
    BY <1>1, <1>6, <1>8 DEF HasWakeup, Waiting

LEMMA RespondWakeup ==
    ASSUME WakeupInvariant, NEW statuses \in Seq(GoodStatus), Respond(statuses)
    PROVE  NoProtocolErrors'
<1> DEFINE sentBack == [k \in DOMAIN statuses |->
                          [tag |-> Head(requests).tag, status |-> statuses[k]]]
<1>1. /\ Len(statuses) \in Nat /\ DOMAIN statuses = 1..Len(statuses)
      /\ \A k \in 1..Len(statuses) : statuses[k] \in GoodStatus
    BY LenProperties, ElementOfSeq
<1>2. Head(requests) \in Request
    BY HeadTailProperties DEF WakeupInvariant, ControlInvariant, TypeOK, Respond
<1>3. \A k \in 1..Len(statuses) : [tag |-> Head(requests).tag, status |-> statuses[k]] \in Reply
    BY <1>1, <1>2 DEF Request, Reply, Status, GoodStatus
<1>4. sentBack \in Seq(Reply) /\ Len(sentBack) = Len(statuses)
    BY <1>1, <1>3
<1>5. \A k \in 1..Len(sentBack) : sentBack[k].status # "protocolError"
    BY <1>1, <1>4 DEF GoodStatus
<1>6. replies' = replies \o sentBack
    BY DEF Respond
<1> HIDE DEF sentBack
<1>7. replies \in Seq(Reply) /\ Len(replies) \in Nat /\ DOMAIN replies = 1..Len(replies)
    BY LenProperties DEF WakeupInvariant, ControlInvariant, TypeOK
<1>8. /\ DOMAIN replies' = 1..(Len(replies) + Len(sentBack))
      /\ \A k \in 1..(Len(replies) + Len(sentBack)) :
             replies'[k] = IF k <= Len(replies) THEN replies[k] ELSE sentBack[k - Len(replies)]
    <2>1. /\ replies \o sentBack \in Seq(Reply)
          /\ Len(replies \o sentBack) = Len(replies) + Len(sentBack)
          /\ \A k \in 1..(Len(replies) + Len(sentBack)) : (replies \o sentBack)[k] =
                 IF k <= Len(replies) THEN replies[k] ELSE sentBack[k - Len(replies)]
        BY <1>4, <1>7, ConcatProperties
    <2>2. DOMAIN (replies \o sentBack) = 1..Len(replies \o sentBack)
        BY <2>1, LenProperties
    <2> QED
        BY <1>6, <2>1, <2>2
<1>9. Len(sentBack) \in Nat
    BY <1>1, <1>4
<1>10. \A k \in DOMAIN replies' :
           \/ k \in DOMAIN replies /\ replies'[k] = replies[k]
           \/ k - Len(replies) \in 1..Len(sentBack) /\ replies'[k] = sentBack[k - Len(replies)]
    BY <1>7, <1>8, <1>9
<1> QED
    BY <1>5, <1>10 DEF WakeupInvariant, NoProtocolErrors

LEMMA ServerWakeup ==
    ASSUME "protocolError" \notin Faults, WakeupInvariant, ServerNext
    PROVE  WakeupInvariant'
<1> USE DEF WakeupInvariant
<1>1. /\ ControlInvariant' /\ TypeOK
      /\ UNCHANGED <<thread, wakeups, commands, internalCommands, nested>>
    BY ServerControl DEF ControlInvariant, queueVars, threadVars, loopVars
<1>2. HasWakeup'
    BY <1>1 DEF HasWakeup, Waiting
<1>3. ~ServerProtocolError
    BY DEF ServerProtocolError, Spend
<1>4. requests # <<>> => Head(requests).cmd \in Command
    <2>1. requests # <<>> => Head(requests) \in Request
        BY <1>1, HeadTailProperties DEF TypeOK
    <2> QED
        BY <2>1 DEF Request
<1>5. CASE ServerExecutes
    <2>1. SuccessStatuses(Head(requests).cmd) \in Seq(GoodStatus)
        BY <1>4, <1>5, SuccessStatusesType DEF ServerExecutes
    <2> QED
        BY <1>1, <1>2, <1>5, <2>1, RespondWakeup DEF ServerExecutes
<1>6. CASE ServerRefusesSelect \/ ServerAbortsTransaction
    <2>1. PICK statuses \in Seq(GoodStatus) : Respond(statuses)
        <3>1. <<"error">> \in Seq(GoodStatus)
            BY DEF Status, GoodStatus
        <3> QED
            BY <1>4, <1>6, <3>1, QueueErrorStatusesType
            DEF ServerRefusesSelect, ServerAbortsTransaction
    <2> QED
        BY <1>1, <1>2, <2>1, RespondWakeup
<1>7. CASE ServerErrorState
    <2> DEFINE reply == [tag |-> 0, status |-> "errorState"]
    <2>1. replies' = Append(replies, reply) /\ reply \in Reply
        BY <1>7 DEF ServerErrorState, Reply
    <2>2. replies \in Seq(Reply) /\ Len(replies) \in Nat /\ DOMAIN replies = 1..Len(replies)
        BY <1>1, LenProperties DEF TypeOK
    <2>3. \A k \in DOMAIN replies' :
              replies'[k] = reply \/ (k \in DOMAIN replies /\ replies'[k] = replies[k])
        BY <2>1, <2>2, AppendProperties
    <2>4. NoProtocolErrors'
        BY <2>3 DEF NoProtocolErrors
    <2> QED
        BY <1>1, <1>2, <2>4
<1> QED
    BY <1>3, <1>5, <1>6, <1>7 DEF ServerNext

-----------------------------------------------------------------------------

LEMMA WakeupStep ==
    ASSUME "protocolError" \notin Faults
    PROVE  WakeupInvariant /\ [Next]_vars => WakeupInvariant'
<1> SUFFICES ASSUME WakeupInvariant, [Next]_vars PROVE WakeupInvariant'
    OBVIOUS
<1>1. CASE Next
    BY <1>1, CallerWakeup, ThreadWakeup, QueueWakeup, ConnectWakeup, ReplyWakeup,
       ServerWakeup DEF Next
<1>2. CASE UNCHANGED vars
    BY <1>2, StutterControl
    DEF vars, queueVars, threadVars, loopVars, netVars, WakeupInvariant, NoProtocolErrors,
        HasWakeup, Waiting
<1> QED
    BY <1>1, <1>2

\* In every session in which no reply is a protocol error, whatever is posted
\* and whatever else fails, a command waiting in a queue has a timer of
\* processCommandQueue that will look at it.
THEOREM WaitingCommandsWakeUp ==
    ASSUME "protocolError" \notin Faults
    PROVE  Spec => []WaitingHasWakeup
<1>1. Init => WakeupInvariant
    BY InitWakeup
<1>2. WakeupInvariant /\ [Next]_vars => WakeupInvariant'
    BY WakeupStep
<1>3. WakeupInvariant => WaitingHasWakeup
    BY WaitingMeans DEF WakeupInvariant, ControlInvariant
<1> QED
    BY <1>1, <1>2, <1>3, PTL DEF Spec

-----------------------------------------------------------------------------
(* The numbers of the commands in a queue, and what the handlers do to them. *)

\* No command of the users is in the queue twice.
Once(cmds) == \A j, k \in DOMAIN cmds : j # k /\ cmds[j].id = cmds[k].id => cmds[j].id = 0

Disjoint(S, T) == S \intersect T = {}

LEMMA InIds ==
    ASSUME NEW cmds, NEW id
    PROVE  id \in Ids(cmds) <=> id # 0 /\ \E k \in DOMAIN cmds : cmds[k].id = id
BY DEF Ids

LEMMA IdsOfFew ==
    ASSUME NEW cmd
    PROVE  /\ Ids(<<>>) = {} /\ Once(<<>>)
           /\ Ids(<<cmd>>) = {cmd.id} \ {0} /\ Once(<<cmd>>)
BY DEF Ids, Once

LEMMA IdsOfConcat ==
    ASSUME NEW s \in Seq(Command), NEW t \in Seq(Command)
    PROVE  /\ s \o t \in Seq(Command)
           /\ Ids(s \o t) = Ids(s) \union Ids(t)
           /\ Once(s \o t) <=> Once(s) /\ Once(t) /\ Disjoint(Ids(s), Ids(t))
<1> DEFINE st == s \o t
           m == Len(s)
           n == Len(t)
<1>1. /\ m \in Nat /\ n \in Nat /\ DOMAIN s = 1..m /\ DOMAIN t = 1..n
      /\ st \in Seq(Command) /\ Len(st) = m + n
      /\ \A k \in 1..(m + n) : st[k] = IF k <= m THEN s[k] ELSE t[k - m]
    BY LenProperties, ConcatProperties
<1>2. DOMAIN st = 1..(m + n)
    BY <1>1, LenProperties
<1> HIDE DEF st, m, n
<1>3. /\ \A k \in 1..m : k \in 1..(m + n) /\ st[k] = s[k]
      /\ \A k \in 1..n : k + m \in 1..(m + n) /\ st[k + m] = t[k]
      /\ \A k \in 1..(m + n) : k \notin 1..m => k - m \in 1..n /\ st[k] = t[k - m]
    BY <1>1
<1>4. Ids(st) = Ids(s) \union Ids(t)
    <2>1. ASSUME NEW id \in Ids(st) PROVE id \in Ids(s) \union Ids(t)
        <3>1. PICK k \in 1..(m + n) : st[k].id = id
            BY <1>2, InIds
        <3>2. CASE k \in 1..m
            BY <1>1, <1>3, <3>1, <3>2, InIds
        <3>3. CASE k \notin 1..m
            <4>1. k - m \in 1..n /\ t[k - m].id = id
                BY <1>3, <3>1, <3>3
            <4> QED
                BY <1>1, <4>1, InIds
        <3> QED
            BY <3>2, <3>3
    <2>2. ASSUME NEW id \in Ids(s) PROVE id \in Ids(st)
        BY <1>1, <1>2, <1>3, InIds
    <2>3. ASSUME NEW id \in Ids(t) PROVE id \in Ids(st)
        <3>1. PICK k \in 1..n : t[k].id = id
            BY <1>1, InIds
        <3>2. k + m \in 1..(m + n) /\ st[k + m].id = id
            BY <1>3, <3>1
        <3> QED
            BY <1>2, <3>2, InIds
    <2> QED
        BY <2>1, <2>2, <2>3
<1>5. ASSUME Once(st) PROVE Once(s) /\ Once(t) /\ Disjoint(Ids(s), Ids(t))
    <2>1. Once(s)
        <3> SUFFICES ASSUME NEW j \in 1..m, NEW k \in 1..m, j # k, s[j].id = s[k].id
                     PROVE  s[j].id = 0
            BY <1>1 DEF Once
        <3> QED
            BY <1>2, <1>3, <1>5 DEF Once
    <2>2. Once(t)
        <3> SUFFICES ASSUME NEW j \in 1..n, NEW k \in 1..n, j # k, t[j].id = t[k].id
                     PROVE  t[j].id = 0
            BY <1>1 DEF Once
        <3>1. j + m # k + m
            BY <1>1
        <3> QED
            BY <1>2, <1>3, <1>5, <3>1 DEF Once
    <2>3. ASSUME NEW j \in 1..m, NEW k \in 1..n, s[j].id = t[k].id PROVE s[j].id = 0
        <3>1. j # k + m
            BY <1>1
        <3> QED
            BY <1>2, <1>3, <1>5, <2>3, <3>1 DEF Once
    <2> QED
        BY <1>1, <2>1, <2>2, <2>3 DEF Disjoint, Ids
<1>6. ASSUME Once(s), Once(t), Disjoint(Ids(s), Ids(t)) PROVE Once(st)
    <2> SUFFICES ASSUME NEW j \in 1..(m + n), NEW k \in 1..(m + n), j # k, st[j].id = st[k].id,
                        st[j].id # 0
                 PROVE  FALSE
        BY <1>2 DEF Once
    <2>1. ASSUME NEW x \in 1..m, NEW y \in 1..n, s[x].id = t[y].id, s[x].id # 0 PROVE FALSE
        BY <1>1, <1>6, <2>1 DEF Disjoint, Ids
    <2>2. CASE j \in 1..m /\ k \in 1..m
        BY <1>1, <1>3, <1>6, <2>2 DEF Once
    <2>3. CASE j \notin 1..m /\ k \notin 1..m
        <3>1. /\ j - m \in 1..n /\ k - m \in 1..n /\ j - m # k - m
              /\ st[j] = t[j - m] /\ st[k] = t[k - m]
            BY <1>1, <1>3, <2>3
        <3> QED
            BY <1>1, <1>6, <3>1 DEF Once
    <2> QED
        BY <1>3, <2>1, <2>2, <2>3
<1> QED
    BY <1>1, <1>4, <1>5, <1>6 DEF st

\* The first command of a queue and the rest of it.
LEMMA IdsOfHead ==
    ASSUME NEW s \in Seq(Command), s # <<>>
    PROVE  /\ Head(s) \in Command /\ Tail(s) \in Seq(Command)
           /\ Ids(s) = ({Head(s).id} \ {0}) \union Ids(Tail(s))
           /\ Once(s) <=> Once(Tail(s)) /\ Head(s).id \notin Ids(Tail(s))
<1>1. Head(s) \in Command /\ Tail(s) \in Seq(Command) /\ s = <<Head(s)>> \o Tail(s)
    <2>1. Head(s) \in Command /\ Tail(s) \in Seq(Command)
        BY HeadTailProperties
    <2> QED
        BY <2>1
<1>2. <<Head(s)>> \in Seq(Command)
    BY <1>1
<1>3. LET h == <<Head(s)>> IN
      /\ Ids(h \o Tail(s)) = Ids(h) \union Ids(Tail(s))
      /\ Once(h \o Tail(s)) <=> Once(h) /\ Once(Tail(s)) /\ Disjoint(Ids(h), Ids(Tail(s)))
    BY <1>1, <1>2, IdsOfConcat
<1>4. 0 \notin Ids(Tail(s))
    BY DEF Ids
<1> QED
    BY <1>1, <1>3, <1>4, IdsOfFew DEF Disjoint

\* The queues of a session, one after the other.
LEMMA IdsOfFour ==
    ASSUME NEW a \in Seq(Command), NEW b \in Seq(Command), NEW c \in Seq(Command),
           NEW d \in Seq(Command)
    PROVE  /\ Ids(a \o b \o c \o d) = Ids(a) \union Ids(b) \union Ids(c) \union Ids(d)
           /\ Once(a \o b \o c \o d) <=>
                  /\ Once(a) /\ Once(b) /\ Once(c) /\ Once(d)
                  /\ Disjoint(Ids(a), Ids(b)) /\ Disjoint(Ids(a), Ids(c)) /\ Disjoint(Ids(a), Ids(d))
                  /\ Disjoint(Ids(b), Ids(c)) /\ Disjoint(Ids(b), Ids(d)) /\ Disjoint(Ids(c), Ids(d))
<1>1. /\ a \o b \in Seq(Command) /\ Ids(a \o b) = Ids(a) \union Ids(b)
      /\ Once(a \o b) <=> Once(a) /\ Once(b) /\ Disjoint(Ids(a), Ids(b))
    BY IdsOfConcat
<1>2. /\ (a \o b) \o c \in Seq(Command) /\ Ids((a \o b) \o c) = Ids(a \o b) \union Ids(c)
      /\ Once((a \o b) \o c) <=> Once(a \o b) /\ Once(c) /\ Disjoint(Ids(a \o b), Ids(c))
    BY <1>1, IdsOfConcat
<1>3. /\ Ids((a \o b \o c) \o d) = Ids(a \o b \o c) \union Ids(d)
      /\ Once((a \o b \o c) \o d) <=>
             Once(a \o b \o c) /\ Once(d) /\ Disjoint(Ids(a \o b \o c), Ids(d))
    BY <1>2, IdsOfConcat
<1> QED
    BY <1>1, <1>2, <1>3 DEF Disjoint

\* Filtering a queue.
LEMMA IdsOfSubsequence ==
    ASSUME NEW s \in Seq(Command), NEW I \in SUBSET DOMAIN s
    PROVE  /\ Subsequence(s, I) \in Seq(Command)
           /\ Ids(Subsequence(s, I)) = {s[k].id : k \in I} \ {0}
           /\ Once(s) => Once(Subsequence(s, I))
<1> DEFINE sub == Subsequence(s, I)
           n == Cardinality(I)
<1>1. /\ sub \in Seq(Command) /\ Len(sub) = n
      /\ \A k \in DOMAIN sub : \E i \in I : sub[k] = s[i]
      /\ \A i \in I : \E k \in DOMAIN sub : sub[k] = s[i]
    BY SubsequenceElements
<1>2. DOMAIN sub = 1..n /\ n \in Nat
    BY <1>1, LenProperties
<1>3. PICK f \in [1..n -> I] : /\ \A k \in 1..n : sub[k] = s[f[k]]
                               /\ \A j, k \in 1..n : j < k => f[j] < f[k]
    BY SubsequenceOrder
<1> HIDE DEF sub, n
<1>4. Ids(sub) = {s[k].id : k \in I} \ {0}
    <2>1. ASSUME NEW id \in Ids(sub) PROVE id \in {s[k].id : k \in I} \ {0}
        <3>1. PICK k \in DOMAIN sub : sub[k].id = id
            BY InIds
        <3>2. PICK i \in I : sub[k] = s[i]
            BY <1>1
        <3>3. id # 0
            BY InIds
        <3> QED
            BY <3>1, <3>2, <3>3
    <2>2. ASSUME NEW i \in I, s[i].id # 0 PROVE s[i].id \in Ids(sub)
        <3>1. PICK k \in DOMAIN sub : sub[k] = s[i]
            BY <1>1
        <3> QED
            BY <2>2, <3>1, InIds
    <2> QED
        BY <2>1, <2>2
<1>5. ASSUME Once(s) PROVE Once(sub)
    <2> SUFFICES ASSUME NEW j \in 1..n, NEW k \in 1..n, j < k, sub[j].id = sub[k].id
                 PROVE  sub[j].id = 0
        <3>1. \A j, k \in 1..n : j # k => j < k \/ k < j
            BY <1>2
        <3> QED
            BY <1>2, <3>1 DEF Once
    <2>1. f[j] \in DOMAIN s /\ f[k] \in DOMAIN s /\ f[j] < f[k]
        BY <1>3
    <2>2. f[j] # f[k]
        <3>1. DOMAIN s = 1..Len(s) /\ Len(s) \in Nat
            BY LenProperties
        <3> QED
            BY <2>1, <3>1
    <2> QED
        BY <1>3, <1>5, <2>1, <2>2 DEF Once
<1> QED
    BY <1>1, <1>4, <1>5 DEF sub

LEMMA IdsOfReverse ==
    ASSUME NEW s \in Seq(Command)
    PROVE  /\ Reverse(s) \in Seq(Command) /\ Ids(Reverse(s)) = Ids(s)
           /\ Once(s) => Once(Reverse(s))
<1> DEFINE r == Reverse(s)
           n == Len(s)
<1>1. n \in Nat /\ DOMAIN s = 1..n /\ DOMAIN r = 1..n /\ r \in Seq(Command)
    <2>1. n \in Nat /\ DOMAIN s = 1..n
        BY LenProperties
    <2> QED
        BY <2>1, ReverseElements DEF Reverse
<1>2. \A k \in 1..n : (n - k) + 1 \in 1..n /\ r[k] = s[(n - k) + 1]
    BY <1>1 DEF Reverse
<1> HIDE DEF r, n
<1>3. \A k \in 1..n : n - ((n - k) + 1) + 1 = k
    BY <1>1
<1>4. Ids(r) = Ids(s)
    <2>1. ASSUME NEW id \in Ids(r) PROVE id \in Ids(s)
        BY <1>1, <1>2, <2>1 DEF Ids
    <2>2. ASSUME NEW id \in Ids(s) PROVE id \in Ids(r)
        BY <1>1, <1>2, <1>3, <2>2 DEF Ids
    <2> QED
        BY <2>1, <2>2
<1>5. ASSUME Once(s) PROVE Once(r)
    <2> SUFFICES ASSUME NEW j \in 1..n, NEW k \in 1..n, j # k, r[j].id = r[k].id
                 PROVE  r[j].id = 0
        BY <1>1 DEF Once
    <2>1. (n - j) + 1 # (n - k) + 1
        BY <1>1
    <2> QED
        BY <1>1, <1>2, <1>5, <2>1 DEF Once
<1> QED
    BY <1>1, <1>4, <1>5 DEF r

\* The commands of high priority of a queue, and the others.
LEMMA IdsOfPriorities ==
    ASSUME NEW s \in Seq(Command)
    PROVE  LET hi == Subsequence(s, HiPriority(s))
               lo == Subsequence(s, LowPriority(s))
           IN  /\ hi \in Seq(Command) /\ lo \in Seq(Command)
               /\ Ids(hi) \union Ids(lo) = Ids(s)
               /\ Once(s) => Once(hi) /\ Once(lo) /\ Disjoint(Ids(hi), Ids(lo))
<1>1. HiPriority(s) \in SUBSET DOMAIN s /\ LowPriority(s) \in SUBSET DOMAIN s
    BY DEF HiPriority, LowPriority
<1>2. /\ HiPriority(s) \union LowPriority(s) = DOMAIN s
      /\ HiPriority(s) \intersect LowPriority(s) = {}
    BY DEF HiPriority, LowPriority
<1> DEFINE hi == Subsequence(s, HiPriority(s))
           lo == Subsequence(s, LowPriority(s))
<1>3. /\ hi \in Seq(Command) /\ lo \in Seq(Command)
      /\ Ids(hi) = {s[k].id : k \in HiPriority(s)} \ {0}
      /\ Ids(lo) = {s[k].id : k \in LowPriority(s)} \ {0}
      /\ Once(s) => Once(hi) /\ Once(lo)
    BY <1>1, IdsOfSubsequence
<1> HIDE DEF hi, lo
<1>4. Ids(hi) \union Ids(lo) = Ids(s)
    BY <1>2, <1>3 DEF Ids
<1>5. Once(s) => Disjoint(Ids(hi), Ids(lo))
    BY <1>1, <1>2, <1>3 DEF Once, Disjoint
<1> QED
    BY <1>3, <1>4, <1>5 DEF hi, lo

LEMMA LenOfDomain ==
    ASSUME NEW S, NEW s \in Seq(S), NEW n \in Nat, DOMAIN s = 1..n
    PROVE  Len(s) = n
<1>1. DOMAIN s = 1..Len(s) /\ Len(s) \in Nat
    BY LenProperties
<1>2. n > 0 => n \in 1..n /\ n \in 1..Len(s)
    BY <1>1
<1>3. Len(s) > 0 => Len(s) \in 1..n
    BY <1>1
<1> QED
    BY <1>1, <1>2, <1>3

\* The commands of the requests under way.
LEMMA CommandsOfRunning ==
    ASSUME NEW r \in Seq(Request)
    PROVE  /\ CommandsOf(r) \in Seq(Command) /\ CommandsOf(<<>>) = <<>>
           /\ r # <<>> => /\ CommandsOf(r) # <<>>
                          /\ Head(CommandsOf(r)) = Head(r).cmd
                          /\ CommandsOf(Tail(r)) = Tail(CommandsOf(r))
           /\ \A I \in SUBSET DOMAIN r : CommandsOf(Subsequence(r, I)) = Subsequence(CommandsOf(r), I)
<1>1. /\ Len(r) \in Nat /\ DOMAIN r = 1..Len(r) /\ CommandsOf(r) \in Seq(Command)
      /\ DOMAIN CommandsOf(r) = 1..Len(r) /\ Len(CommandsOf(r)) = Len(r)
      /\ \A k \in 1..Len(r) : CommandsOf(r)[k] = r[k].cmd
    <2>1. Len(r) \in Nat /\ DOMAIN r = 1..Len(r) /\ CommandsOf(r) \in Seq(Command)
        BY LenProperties, CommandsOfType
    <2>2. DOMAIN CommandsOf(r) = 1..Len(r)
        BY <2>1 DEF CommandsOf
    <2> QED
        BY <2>1, <2>2, LenProperties DEF CommandsOf
<1>2. CommandsOf(<<>>) = <<>>
    BY DEF CommandsOf
<1>3. ASSUME r # <<>>
      PROVE  /\ CommandsOf(r) # <<>> /\ Head(CommandsOf(r)) = Head(r).cmd
             /\ CommandsOf(Tail(r)) = Tail(CommandsOf(r))
    <2>1. Len(r) # 0
        BY <1>1, <1>3, EmptySeq
    <2>2. /\ Tail(r) \in Seq(Request) /\ Len(Tail(r)) = Len(r) - 1 /\ Head(r) = r[1]
          /\ \A k \in 1..(Len(r) - 1) : Tail(r)[k] = r[k + 1]
        BY <1>1, <1>3, <2>1, HeadTailProperties
    <2>3. CommandsOf(r) # <<>>
        BY <1>1, <2>1
    <2>4. /\ Tail(CommandsOf(r)) \in Seq(Command) /\ Len(Tail(CommandsOf(r))) = Len(r) - 1
          /\ Head(CommandsOf(r)) = CommandsOf(r)[1]
          /\ \A k \in 1..(Len(r) - 1) : Tail(CommandsOf(r))[k] = CommandsOf(r)[k + 1]
        BY <1>1, <2>3, HeadTailProperties
    <2>5. /\ CommandsOf(Tail(r)) \in Seq(Command) /\ DOMAIN CommandsOf(Tail(r)) = 1..(Len(r) - 1)
          /\ \A k \in 1..(Len(r) - 1) : CommandsOf(Tail(r))[k] = r[k + 1].cmd
        <3>1. DOMAIN Tail(r) = 1..(Len(r) - 1)
            BY <2>2, LenProperties
        <3> QED
            BY <2>2, <3>1, CommandsOfType DEF CommandsOf
    <2>6. \A k \in 1..(Len(r) - 1) : k + 1 \in 1..Len(r)
        BY <1>1
    <2>7. CommandsOf(Tail(r)) = Tail(CommandsOf(r))
        <3>1. Len(CommandsOf(Tail(r))) = Len(r) - 1
            <4>1. Len(r) - 1 \in Nat
                BY <1>1, <2>1
            <4> QED
                BY <2>5, <4>1, LenOfDomain
        <3> QED
            BY <1>1, <2>4, <2>5, <2>6, <3>1, SeqEqual
    <2> QED
        BY <1>1, <2>1, <2>2, <2>3, <2>4, <2>7
<1>4. ASSUME NEW I \in SUBSET DOMAIN r
      PROVE  CommandsOf(Subsequence(r, I)) = Subsequence(CommandsOf(r), I)
    <2> DEFINE n == Cardinality(I)
               f(k) == CHOOSE i \in I : Rank(I, i) = k
    <2>1. /\ IsFiniteSet(I) /\ I \in SUBSET Nat
        <3>1. IsFiniteSet(1..Len(r)) /\ I \in SUBSET (1..Len(r))
            BY <1>1, FS_Interval
        <3> QED
            BY <3>1, FS_Subset
    <2>2. \A k \in 1..n : f(k) \in I
        BY <2>1, RankOnto
    <2>3. \A k \in 1..n : r[f(k)].cmd = CommandsOf(r)[f(k)]
        BY <1>1, <2>2
    <2> QED
        BY <2>3 DEF CommandsOf, Subsequence
<1> QED
    BY <1>1, <1>2, <1>3, <1>4

LEMMA CommandsOfTransmitted ==
    ASSUME NEW r \in Seq(Request), NEW todo \in Seq(Command), sent \in Nat
    PROVE  CommandsOf(r \o Tagged(todo)) = CommandsOf(r) \o todo
<1> DEFINE t == Tagged(todo)
<1>1. /\ t \in Seq(Request) /\ Len(t) = Len(todo) /\ Len(todo) \in Nat /\ Len(r) \in Nat
      /\ \A k \in 1..Len(todo) : t[k].cmd = todo[k]
    <2>1. /\ t \in Seq(Request) /\ Len(todo) \in Nat /\ DOMAIN todo = 1..Len(todo) /\ Len(r) \in Nat
        BY TaggedType, LenProperties
    <2>2. DOMAIN t = 1..Len(todo) /\ \A k \in 1..Len(todo) : t[k].cmd = todo[k]
        BY <2>1 DEF Tagged
    <2> QED
        BY <2>1, <2>2, LenProperties
<1> HIDE DEF t
<1>2. /\ r \o t \in Seq(Request) /\ Len(r \o t) = Len(r) + Len(todo)
      /\ \A k \in 1..(Len(r) + Len(todo)) :
             (r \o t)[k] = IF k <= Len(r) THEN r[k] ELSE t[k - Len(r)]
    <2>1. /\ r \o t \in Seq(Request) /\ Len(r \o t) = Len(r) + Len(t)
          /\ \A k \in 1..(Len(r) + Len(t)) :
                 (r \o t)[k] = IF k <= Len(r) THEN r[k] ELSE t[k - Len(r)]
        BY <1>1, ConcatProperties
    <2> QED
        BY <1>1, <2>1
<1>3. /\ CommandsOf(r) \in Seq(Command) /\ Len(CommandsOf(r)) = Len(r)
      /\ \A k \in 1..Len(r) : CommandsOf(r)[k] = r[k].cmd
    <2>1. CommandsOf(r) \in Seq(Command) /\ DOMAIN CommandsOf(r) = 1..Len(r)
        BY CommandsOfType, LenProperties
    <2> QED
        BY <1>1, <2>1, LenProperties DEF CommandsOf
<1>4. /\ CommandsOf(r) \o todo \in Seq(Command) /\ Len(CommandsOf(r) \o todo) = Len(r) + Len(todo)
      /\ \A k \in 1..(Len(r) + Len(todo)) : (CommandsOf(r) \o todo)[k] =
             IF k <= Len(r) THEN CommandsOf(r)[k] ELSE todo[k - Len(r)]
    <2> DEFINE c == CommandsOf(r)
    <2>1. c \in Seq(Command) /\ Len(c) = Len(r)
        BY <1>3
    <2> HIDE DEF c
    <2>2. /\ c \o todo \in Seq(Command) /\ Len(c \o todo) = Len(c) + Len(todo)
          /\ \A k \in 1..(Len(c) + Len(todo)) :
                 (c \o todo)[k] = IF k <= Len(c) THEN c[k] ELSE todo[k - Len(c)]
        BY <2>1, ConcatProperties
    <2>3. /\ c \o todo \in Seq(Command) /\ Len(c \o todo) = Len(r) + Len(todo)
          /\ \A k \in 1..(Len(r) + Len(todo)) :
                 (c \o todo)[k] = IF k <= Len(r) THEN c[k] ELSE todo[k - Len(r)]
        BY <2>1, <2>2
    <2> QED
        BY <2>3 DEF c
<1>5. /\ CommandsOf(r \o t) \in Seq(Command) /\ Len(CommandsOf(r \o t)) = Len(r) + Len(todo)
      /\ \A k \in 1..(Len(r) + Len(todo)) : CommandsOf(r \o t)[k] = (r \o t)[k].cmd
    <2>1. CommandsOf(r \o t) \in Seq(Command) /\ DOMAIN CommandsOf(r \o t) = 1..(Len(r) + Len(todo))
        BY <1>2, CommandsOfType, LenProperties
    <2> QED
        BY <1>1, <1>2, <2>1, LenProperties DEF CommandsOf
<1>6. \A k \in 1..(Len(r) + Len(todo)) : CommandsOf(r \o t)[k] = (CommandsOf(r) \o todo)[k]
    <2> SUFFICES ASSUME NEW k \in 1..(Len(r) + Len(todo))
                 PROVE  (r \o t)[k].cmd = (CommandsOf(r) \o todo)[k]
        BY <1>5
    <2>1. CASE k <= Len(r)
        BY <1>1, <1>2, <1>3, <1>4, <2>1
    <2>2. CASE ~(k <= Len(r))
        <3>1. k - Len(r) \in 1..Len(todo)
            BY <1>1, <2>2
        <3> QED
            BY <1>1, <1>2, <1>4, <2>2, <3>1
    <2> QED
        BY <2>1, <2>2
<1> QED
    BY <1>4, <1>5, <1>6, SeqEqual DEF t

-----------------------------------------------------------------------------
(* The invariant: every command of the users is in one place. *)

\* Commands that a session may hold: those of the users, as they were posted,
\* and those of the library, which have no number.
Genuine ==
    {cmd \in Command : cmd.id # 0 => /\ cmd.id \in DOMAIN submitted
                                     /\ cmd.owner = submitted[cmd.id]
                                     /\ cmd.kind # "handshake"}

\* InHand, without its concatenations.
HandIds == Ids(commands) \union Ids(internalCommands) \union Ids(CommandsOf(runningCommands))
           \union Ids(suspended)

HandsGenuine ==
    /\ commands \in Seq(Genuine)
    /\ internalCommands \in Seq(Genuine)
    /\ CommandsOf(runningCommands) \in Seq(Genuine)
    /\ suspended \in Seq(Genuine)

Apart(a, b, c, d) ==
    /\ Once(a) /\ Once(b) /\ Once(c) /\ Once(d)
    /\ Disjoint(Ids(a), Ids(b)) /\ Disjoint(Ids(a), Ids(c)) /\ Disjoint(Ids(a), Ids(d))
    /\ Disjoint(Ids(b), Ids(c)) /\ Disjoint(Ids(b), Ids(d)) /\ Disjoint(Ids(c), Ids(d))
HandsApart == Apart(commands, internalCommands, CommandsOf(runningCommands), suspended)

Adds == {k \in DOMAIN inbox : inbox[k].type = "add"}

InboxGenuine ==
    /\ \A k \in Adds : inbox[k].batch \in Seq(Genuine) /\ Once(inbox[k].batch)
    /\ \A j, k \in Adds : j # k => Disjoint(Ids(inbox[j].batch), Ids(inbox[k].batch))
    /\ \A k \in DOMAIN inbox : inbox[k].type = "cancel" => inbox[k].owner \in destroyed

OnePlace ==
    /\ Disjoint(HandIds, Posted)
    /\ Disjoint(answered, HandIds)
    /\ Disjoint(answered, Posted)
    /\ answered \subseteq DOMAIN submitted

PromiseInvariant ==
    /\ ControlInvariant
    /\ HandsGenuine
    /\ HandsApart
    /\ InboxGenuine
    /\ OnePlace

LEMMA OnceMeans ==
    ASSUME TypeOK
    PROVE  /\ Ids(InHand) = HandIds
           /\ Once(InHand) <=> HandsApart
<1>1. /\ commands \in Seq(Command) /\ internalCommands \in Seq(Command)
      /\ CommandsOf(runningCommands) \in Seq(Command) /\ suspended \in Seq(Command)
    BY CommandsOfType DEF TypeOK
<1> QED
    BY <1>1, IdsOfFour DEF InHand, HandIds, HandsApart, Apart

LEMMA AnsweredOnceMeans == ASSUME PromiseInvariant PROVE AnsweredOnce
<1>1. TypeOK
    BY DEF PromiseInvariant, ControlInvariant
<1>2. Once(InHand) /\ Ids(InHand) = HandIds
    BY <1>1, OnceMeans DEF PromiseInvariant
<1> QED
    BY <1>2 DEF PromiseInvariant, OnePlace, AnsweredOnce, Once, Disjoint

LEMMA InPosted ==
    ASSUME NEW id
    PROVE  id \in Posted <=> \E k \in Adds : id \in Ids(inbox[k].batch)
BY DEF Posted, Adds

LEMMA InitPromise == Init => PromiseInvariant
<1> SUFFICES ASSUME Init PROVE PromiseInvariant
    OBVIOUS
<1>1. CommandsOf(runningCommands) = <<>> /\ Adds = {}
    BY DEF Init, CommandsOf, Adds
<1>2. HandsGenuine /\ HandsApart /\ HandIds = {}
    BY <1>1, IdsOfFew, EmptySeq DEF Init, HandsGenuine, HandsApart, Apart, HandIds, Disjoint
<1>3. Posted = {}
    BY <1>1, InPosted
<1> QED
    BY <1>1, <1>2, <1>3, InitControl
    DEF Init, PromiseInvariant, InboxGenuine, OnePlace, Disjoint

\* A genuine command of a queue has been submitted.
LEMMA GenuineIds ==
    ASSUME NEW s \in Seq(Genuine)
    PROVE  s \in Seq(Command) /\ Ids(s) \subseteq DOMAIN submitted
<1>1. /\ Len(s) \in Nat /\ DOMAIN s = 1..Len(s) /\ \A k \in 1..Len(s) : s[k] \in Genuine
    BY LenProperties, ElementOfSeq
<1>2. s \in [1..Len(s) -> Command]
    BY <1>1, LenProperties DEF Genuine
<1>3. \A k \in DOMAIN s : s[k].id # 0 => s[k].id \in DOMAIN submitted
    BY <1>1 DEF Genuine
<1> QED
    BY <1>1, <1>2, <1>3 DEF Ids

\* What is posted when the inbox is left alone or emptied.
LEMMA InboxLeft ==
    ASSUME InboxGenuine, UNCHANGED <<submitted, destroyed>>, inbox' = inbox \/ inbox' = <<>>
    PROVE  /\ InboxGenuine' /\ Posted' \subseteq Posted
           /\ inbox' = inbox => Posted' = Posted
<1>1. Genuine' = Genuine
    BY DEF Genuine
<1>2. CASE inbox' = inbox
    BY <1>1, <1>2 DEF InboxGenuine, Adds, Posted
<1>3. CASE inbox' = <<>>
    <2>1. Adds' = {}
        BY <1>3 DEF Adds
    <2>2. InboxGenuine'
        BY <1>3, <2>1 DEF InboxGenuine
    <2>3. Posted' = {}
        BY <2>1 DEF Posted, Adds
    <2> QED
        BY <2>2, <2>3 DEF Posted
<1> QED
    BY <1>2, <1>3

\* What is posted when the oldest call has been taken out of the inbox.
LEMMA InboxTaken ==
    ASSUME TypeOK, InboxGenuine, UNCHANGED <<submitted, destroyed>>, NEW type, Receive(type)
    PROVE  /\ InboxGenuine'
           /\ type # "add" => Posted' = Posted
           /\ type = "cancel" => Head(inbox).owner \in destroyed
           /\ type = "add" =>
                  LET batch == Head(inbox).batch
                  IN  /\ batch \in Seq(Genuine) /\ Once(batch)
                      /\ Posted = Ids(batch) \union Posted' /\ Disjoint(Ids(batch), Posted')
<1>1. Genuine' = Genuine
    BY DEF Genuine
<1> DEFINE n == Len(inbox) - 1
<1>2. /\ n \in Nat /\ DOMAIN inbox = 1..(n + 1) /\ DOMAIN inbox' = 1..n
      /\ \A k \in 1..n : inbox'[k] = inbox[k + 1]
      /\ Head(inbox) = inbox[1] /\ inbox[1].type = type
    <2>1. /\ inbox' = Tail(inbox) /\ inbox # <<>> /\ inbox \in Seq(Call)
          /\ Head(inbox) = inbox[1] /\ Head(inbox).type = type
        BY DEF Receive, TypeOK
    <2>2. Len(inbox) \in Nat \ {0} /\ DOMAIN inbox = 1..Len(inbox)
        BY <2>1, EmptySeq, LenProperties
    <2>3. /\ Len(inbox') = Len(inbox) - 1 /\ DOMAIN inbox' = 1..(Len(inbox) - 1)
          /\ \A k \in 1..(Len(inbox) - 1) : inbox'[k] = inbox[k + 1]
        BY <2>1, <2>2, HeadTailProperties
    <2> QED
        BY <2>1, <2>2, <2>3
<1> HIDE DEF n
<1>3. /\ \A k \in Adds' : k \in 1..n /\ k + 1 \in Adds /\ inbox'[k] = inbox[k + 1]
      /\ \A k \in Adds : k = 1 \/ (k - 1 \in Adds' /\ inbox'[k - 1] = inbox[k])
      /\ 1 \in Adds <=> type = "add"
    BY <1>2 DEF Adds
<1>4. InboxGenuine'
    <2>1. \A k \in Adds' : inbox'[k].batch \in Seq(Genuine)' /\ Once(inbox'[k].batch)
        BY <1>1, <1>3 DEF InboxGenuine
    <2>2. ASSUME NEW j \in Adds', NEW k \in Adds', j # k
          PROVE  Disjoint(Ids(inbox'[j].batch), Ids(inbox'[k].batch))
        <3>1. j + 1 # k + 1
            BY <1>3, <2>2
        <3> QED
            BY <1>3, <3>1 DEF InboxGenuine
    <2>3. ASSUME NEW k \in DOMAIN inbox', inbox'[k].type = "cancel"
          PROVE  inbox'[k].owner \in destroyed'
        BY <1>2, <2>3 DEF InboxGenuine
    <2> QED
        BY <2>1, <2>2, <2>3 DEF InboxGenuine
<1>5. \A id : id \in Posted' => id \in Posted
    BY <1>3, InPosted DEF Posted, Adds
<1>6. ASSUME NEW id \in Posted, id \notin Posted' PROVE type = "add" /\ id \in Ids(Head(inbox).batch)
    <2>1. PICK k \in Adds : id \in Ids(inbox[k].batch)
        BY InPosted
    <2>2. \A j \in Adds' : id \notin Ids(inbox'[j].batch)
        BY <1>6 DEF Posted, Adds
    <2>3. k = 1
        BY <1>3, <2>1, <2>2
    <2> QED
        BY <1>2, <1>3, <2>1, <2>3
<1>7. ASSUME type = "add"
      PROVE  LET batch == Head(inbox).batch
             IN  /\ batch \in Seq(Genuine) /\ Once(batch)
                 /\ Posted = Ids(batch) \union Posted' /\ Disjoint(Ids(batch), Posted')
    <2> DEFINE batch == Head(inbox).batch
    <2>1. 1 \in Adds /\ batch = inbox[1].batch
        BY <1>2, <1>3, <1>7
    <2>2. batch \in Seq(Genuine) /\ Once(batch)
        BY <2>1 DEF InboxGenuine
    <2>3. Ids(batch) \subseteq Posted
        BY <2>1, InPosted
    <2>4. ASSUME NEW id \in Posted', id \in Ids(batch) PROVE FALSE
        <3>1. PICK k \in Adds' : id \in Ids(inbox'[k].batch)
            BY <2>4 DEF Posted, Adds
        <3>2. k + 1 \in Adds /\ k + 1 # 1 /\ inbox'[k] = inbox[k + 1]
            BY <1>2, <1>3
        <3> QED
            BY <2>1, <2>4, <3>1, <3>2 DEF InboxGenuine, Disjoint
    <2> QED
        BY <1>5, <1>6, <2>2, <2>3, <2>4 DEF Disjoint
<1>8. type = "cancel" => Head(inbox).owner \in destroyed
    BY <1>2 DEF InboxGenuine
<1> QED
    BY <1>4, <1>5, <1>6, <1>7, <1>8

\* What is posted when a call has been added to the inbox.
LEMMA InboxGrows ==
    ASSUME TypeOK, InboxGenuine, NEW call \in Call, inbox' = Append(inbox, call),
           Genuine \subseteq Genuine', destroyed \subseteq destroyed',
           call.type = "cancel" => call.owner \in destroyed',
           call.type = "add" => /\ call.batch \in Seq(Genuine') /\ Once(call.batch)
                                /\ Disjoint(Ids(call.batch), Posted)
    PROVE  /\ InboxGenuine'
           /\ call.type # "add" => Posted' = Posted
           /\ call.type = "add" => Posted' = Posted \union Ids(call.batch)
<1> DEFINE n == Len(inbox)
<1>1. /\ n \in Nat /\ DOMAIN inbox = 1..n /\ DOMAIN inbox' = 1..(n + 1)
      /\ \A k \in 1..n : inbox'[k] = inbox[k]
      /\ inbox'[n + 1] = call
    BY AppendProperties, LenProperties DEF TypeOK
<1> HIDE DEF n
<1>2. /\ \A k \in Adds : k \in Adds' /\ inbox'[k] = inbox[k] /\ k # n + 1
      /\ \A k \in Adds' : k \in Adds \/ (k = n + 1 /\ call.type = "add" /\ inbox'[k] = call)
      /\ call.type = "add" => n + 1 \in Adds' /\ inbox'[n + 1] = call
    BY <1>1 DEF Adds
<1>3. \A k \in Adds : inbox[k].batch \in Seq(Genuine') /\ Once(inbox[k].batch)
    BY SeqGrows DEF InboxGenuine
<1>4. \A id : id \in Posted' <=> id \in Posted \/ (call.type = "add" /\ id \in Ids(call.batch))
    <2> TAKE id
    <2>1. id \in Posted' <=> \E k \in Adds' : id \in Ids(inbox'[k].batch)
        BY DEF Posted, Adds
    <2>2. id \in Posted <=> \E k \in Adds : id \in Ids(inbox[k].batch)
        BY InPosted
    <2> QED
        BY <1>2, <2>1, <2>2
<1>5. \A k \in Adds' : inbox'[k].batch \in Seq(Genuine') /\ Once(inbox'[k].batch)
    BY <1>2, <1>3
<1>6. \A k \in Adds : Ids(inbox[k].batch) \subseteq Posted
    BY InPosted
<1>7. ASSUME NEW j \in Adds', NEW k \in Adds', j # k
      PROVE  Disjoint(Ids(inbox'[j].batch), Ids(inbox'[k].batch))
    <2>1. CASE j \in Adds /\ k \in Adds
        BY <1>2, <1>7, <2>1 DEF InboxGenuine
    <2>2. CASE j \notin Adds
        BY <1>2, <1>6, <1>7, <2>2 DEF Disjoint
    <2>3. CASE k \notin Adds
        BY <1>2, <1>6, <1>7, <2>3 DEF Disjoint
    <2> QED
        BY <2>1, <2>2, <2>3
<1>8. ASSUME NEW k \in DOMAIN inbox', inbox'[k].type = "cancel"
      PROVE  inbox'[k].owner \in destroyed'
    <2>1. CASE k \in 1..n
        BY <1>1, <1>8, <2>1 DEF InboxGenuine
    <2>2. CASE k \notin 1..n
        <3>1. k = n + 1
            BY <1>1, <2>2
        <3> QED
            BY <1>1, <1>8, <3>1
    <2> QED
        BY <2>1, <2>2
<1> QED
    BY <1>4, <1>5, <1>7, <1>8 DEF InboxGenuine

-----------------------------------------------------------------------------
(* Steps of Calls, under the mapping of Promise. *)

\* The commands that wait, seen from outside.
InPlay == IF thread = "crashed" THEN {} ELSE Posted \union HandIds

FateIs(i) == IF i \in answered THEN "answered" ELSE IF i \in InPlay THEN "waiting" ELSE "dropped"

FateIsSo ==
    /\ Fate = [i \in DOMAIN submitted |-> FateIs(i)]
    /\ SessionState \in {"open", "broken", "closed"}

LEMMA FateMeans == TypeOK => FateIsSo
BY OnceMeans DEF FateIsSo, Fate, FateIs, InPlay, SessionState

LEMMA FateMeansNext == TypeOK' => FateIsSo'
BY FateMeans, PTL

\* Everything is as it was, but commands may have left: because their owners
\* are gone, or because the session is no longer well.
Drops ==
    /\ UNCHANGED <<submitted, destroyed, answered>>
    /\ InPlay' \subseteq InPlay
    /\ \/ /\ SessionState' = SessionState
          /\ \A i \in DOMAIN submitted : i \in InPlay /\ i \notin InPlay' => submitted[i] \in destroyed
       \/ /\ SessionState' # "open"
          /\ SessionState' = SessionState \/ (SessionState = "open" /\ SessionState' = "broken")

LEMMA DropsStep ==
    ASSUME TypeOK, TypeOK', Drops
    PROVE  [Promise!Next]_(Promise!vars)
<1> DEFINE cs == {i \in DOMAIN submitted : i \notin answered /\ i \in InPlay /\ i \notin InPlay'}
<1>1. /\ Fate = [i \in DOMAIN submitted |-> FateIs(i)]
      /\ Fate' = [i \in DOMAIN submitted |-> FateIs(i)']
      /\ SessionState \in {"open", "broken", "closed"}
    BY FateMeans, FateMeansNext DEF Drops, FateIsSo
<1>2. cs \in SUBSET Promise!Waiting
    BY <1>1 DEF Promise!Waiting, FateIs
<1>3. Promise!Settle(cs, "dropped")
    <2>1. DOMAIN Fate = DOMAIN submitted
        BY <1>1
    <2>2. \A i \in DOMAIN submitted : FateIs(i)' = IF i \in cs THEN "dropped" ELSE Fate[i]
        BY <1>1 DEF FateIs, Drops
    <2> QED
        BY <1>1, <2>1, <2>2 DEF Promise!Settle
<1> HIDE DEF cs
<1>4. CASE SessionState' = SessionState /\ \A i \in cs : submitted[i] \in destroyed
    <2>1. Promise!Cancel(cs)
        BY <1>3, <1>4 DEF Promise!Cancel, Drops
    <2> QED
        BY <1>2, <2>1 DEF Promise!Next
<1>5. CASE SessionState' # "open" /\ SessionState' = SessionState
    <2>1. Promise!Lose(cs)
        BY <1>3, <1>5 DEF Promise!Lose, Drops
    <2> QED
        BY <1>2, <2>1 DEF Promise!Next
<1>6. CASE SessionState = "open" /\ SessionState' = "broken"
    <2>1. Promise!Break(cs)
        BY <1>3, <1>6 DEF Promise!Break, Drops
    <2> QED
        BY <1>2, <2>1 DEF Promise!Next
<1> QED
    BY <1>4, <1>5, <1>6 DEF Drops, cs

\* A command that waited is answered.
LEMMA AnswerStep ==
    ASSUME TypeOK, TypeOK', UNCHANGED <<submitted, destroyed>>, SessionState' = SessionState,
           SessionState # "closed", NEW id \in DOMAIN submitted, id \in InPlay, id \notin answered,
           answered' = answered \union {id}, InPlay' = InPlay \ {id}
    PROVE  [Promise!Next]_(Promise!vars)
<1>1. /\ Fate = [i \in DOMAIN submitted |-> FateIs(i)]
      /\ Fate' = [i \in DOMAIN submitted |-> FateIs(i)']
    BY FateMeans, FateMeansNext DEF FateIsSo
<1>2. id \in Promise!Waiting
    BY <1>1 DEF Promise!Waiting, FateIs
<1>3. Promise!Settle({id}, "answered")
    <2>1. DOMAIN Fate = DOMAIN submitted
        BY <1>1
    <2>2. \A i \in DOMAIN submitted : FateIs(i)' = IF i \in {id} THEN "answered" ELSE Fate[i]
        BY <1>1 DEF FateIs
    <2> QED
        BY <1>1, <2>1, <2>2 DEF Promise!Settle
<1>4. Promise!Answer(id)
    BY <1>3 DEF Promise!Answer
<1> QED
    BY <1>2, <1>4 DEF Promise!Next

\* A signal is on its way to the Connection, or several: the session is as well as
\* before, or it is not well any more.
LEMMA SessionStep ==
    ASSUME TypeOK, UNCHANGED <<stoppingTransporter, thread>>, NEW more \in Seq(Signal),
           outbox' = outbox \o more
    PROVE  /\ SessionState' = SessionState \/ (SessionState = "open" /\ SessionState' = "broken")
           /\ (\A k \in DOMAIN more : more[k] \notin {"error", "refused"}) =>
                  SessionState' = SessionState
           /\ (\E k \in DOMAIN more : more[k] \in {"error", "refused"}) =>
                  SessionState' # "open"
<1> DEFINE m == Len(outbox)
           n == Len(more)
<1>1. /\ m \in Nat /\ n \in Nat /\ DOMAIN outbox = 1..m /\ DOMAIN more = 1..n
      /\ DOMAIN outbox' = 1..(m + n)
      /\ \A k \in 1..(m + n) : outbox'[k] = IF k <= m THEN outbox[k] ELSE more[k - m]
    <2>1. outbox \in Seq(Signal)
        BY DEF TypeOK
    <2>2. /\ outbox \o more \in Seq(Signal) /\ Len(outbox \o more) = Len(outbox) + Len(more)
          /\ \A k \in 1..(Len(outbox) + Len(more)) : (outbox \o more)[k] =
                 IF k <= Len(outbox) THEN outbox[k] ELSE more[k - Len(outbox)]
        BY <2>1, ConcatProperties
    <2>3. DOMAIN (outbox \o more) = 1..Len(outbox \o more)
        BY <2>2, LenProperties
    <2> QED
        BY <2>1, <2>2, <2>3, LenProperties
<1> HIDE DEF m, n
<1>2. /\ \A k \in 1..m : k \in 1..(m + n) /\ outbox'[k] = outbox[k]
      /\ \A k \in 1..n : k + m \in 1..(m + n) /\ outbox'[k + m] = more[k]
      /\ \A k \in 1..(m + n) : k \notin 1..m => k - m \in 1..n /\ outbox'[k] = more[k - m]
    BY <1>1
<1>3. IsConnected' <=> IsConnected
    BY DEF IsConnected
<1>4. Healthy' => Healthy
    BY <1>1, <1>2, <1>3 DEF Healthy
<1>5. (\A k \in DOMAIN more : more[k] \notin {"error", "refused"}) => (Healthy => Healthy')
    BY <1>1, <1>2, <1>3 DEF Healthy
<1>6. (\E k \in DOMAIN more : more[k] \in {"error", "refused"}) => ~Healthy'
    <2> SUFFICES ASSUME NEW k \in 1..n, more[k] \in {"error", "refused"} PROVE ~Healthy'
        BY <1>1
    <2>1. k + m \in DOMAIN outbox' /\ outbox'[k + m] \in {"error", "refused"}
        BY <1>1, <1>2
    <2> QED
        BY <2>1 DEF Healthy
<1>7. Healthy => IsConnected
    BY DEF Healthy
<1> QED
    BY <1>3, <1>4, <1>5, <1>6, <1>7 DEF SessionState

-----------------------------------------------------------------------------
(* Every handler keeps the invariant and is a step of Calls. *)

\* Why a command may leave: its owner is gone, or the session is not well any more.
Excused(gone) ==
    \/ /\ thread' # "crashed" /\ SessionState' = SessionState
       /\ \A i \in gone : submitted[i] \in destroyed
    \/ /\ SessionState' # "open"
       /\ SessionState' = SessionState \/ (SessionState = "open" /\ SessionState' = "broken")

\* A handler that moves commands from the inbox to the queues, between the
\* queues, or out of them.
LEMMA HandsStep ==
    ASSUME PromiseInvariant, ControlInvariant', UNCHANGED <<submitted, destroyed, answered>>,
           InboxGenuine', HandsGenuine', HandsApart',
           Posted' \subseteq Posted, HandIds' \subseteq HandIds \union (Posted \ Posted'),
           thread # "crashed", Excused((Posted \union HandIds) \ (Posted' \union HandIds'))
    PROVE  PromiseInvariant' /\ [Promise!Next]_(Promise!vars)
<1>1. Disjoint(HandIds', Posted') /\ Disjoint(answered', HandIds') /\ Disjoint(answered', Posted')
    BY DEF PromiseInvariant, OnePlace, Disjoint
<1>2. OnePlace'
    BY <1>1 DEF PromiseInvariant, OnePlace, Disjoint
<1>3. Drops
    BY DEF Drops, Excused, InPlay
<1>4. TypeOK /\ TypeOK'
    BY DEF PromiseInvariant, ControlInvariant
<1> QED
    BY <1>2, <1>3, <1>4, DropsStep DEF PromiseInvariant

LEMMA SameSession ==
    ASSUME UNCHANGED <<stoppingTransporter, thread, outbox>>
    PROVE  SessionState' = SessionState
BY DEF SessionState, Healthy, IsConnected

\* The connection to a session that is being closed, or has crashed.
LEMMA ClosedSession ==
    ASSUME stoppingTransporter, stoppingTransporter' \/ thread' \in {"finished", "crashed"}
    PROVE  SessionState = "closed" /\ SessionState' = "closed"
BY DEF SessionState, IsConnected

LEMMA NothingInHand ==
    /\ <<>> \in Seq(Genuine)
    /\ CommandsOf(<<>>) = <<>>
    /\ Ids(<<>>) = {} /\ Once(<<>>)
BY EmptySeq DEF CommandsOf, Ids, Once

\* Queues of genuine commands, joined and taken apart.
LEMMA GenuineQueues ==
    ASSUME NEW s \in Seq(Genuine), NEW t \in Seq(Genuine)
    PROVE  /\ s \in Seq(Command) /\ s \o t \in Seq(Genuine) /\ Reverse(s) \in Seq(Genuine)
           /\ s # <<>> => /\ Head(s) \in Genuine /\ <<Head(s)>> \in Seq(Genuine)
                          /\ Tail(s) \in Seq(Genuine)
           /\ \A I \in SUBSET DOMAIN s : Subsequence(s, I) \in Seq(Genuine)
<1>1. s \in Seq(Command)
    BY GenuineIds
<1>2. s \o t \in Seq(Genuine)
    BY ConcatProperties
<1>3. Reverse(s) \in Seq(Genuine)
    BY ReverseElements
<1>4. \A I \in SUBSET DOMAIN s : Subsequence(s, I) \in Seq(Genuine)
    BY SubsequenceElements
<1>5. s # <<>> => Head(s) \in Genuine /\ Tail(s) \in Seq(Genuine)
    BY HeadTailProperties
<1> QED
    BY <1>1, <1>2, <1>3, <1>4, <1>5

\* What executeCmd may have to run after a nested reconnect, besides todo.
Interrupted == IF nested = "resume" THEN <<>> ELSE suspended

\* The commands that processCommandQueue took out of their queue go to the
\* socket, back to the queue for a reconnect, or away with the session.
LEMMA RunCommandsStep ==
    ASSUME PromiseInvariant, ControlInvariant', thread = "running",
           NEW todo \in Seq(Genuine), NEW c \in Seq(Genuine), NEW w, RunCommands(todo, c, w),
           internalCommands' \in Seq(Genuine), nested = "resume" => todo = suspended,
           Apart(c, internalCommands', CommandsOf(runningCommands) \o todo, Interrupted),
           HandIds = Ids(c) \union Ids(internalCommands')
                     \union Ids(CommandsOf(runningCommands) \o todo) \union Ids(Interrupted)
    PROVE  PromiseInvariant' /\ [Promise!Next]_(Promise!vars)
<1> DEFINE r == CommandsOf(runningCommands)
<1>1. /\ UNCHANGED <<submitted, destroyed, stoppingTransporter, inbox, answered>>
      /\ TypeOK /\ Genuine' = Genuine
    BY DEF RunCommands, PromiseInvariant, ControlInvariant, Genuine
<1>2. InboxGenuine' /\ Posted' = Posted
    BY <1>1, InboxLeft DEF PromiseInvariant
<1>3. /\ r \in Seq(Genuine) /\ r \in Seq(Command) /\ todo \in Seq(Command) /\ c \in Seq(Command)
      /\ suspended \in Seq(Genuine) /\ Interrupted \in Seq(Genuine) /\ r \o todo \in Seq(Genuine)
    BY GenuineQueues, NothingInHand DEF PromiseInvariant, HandsGenuine, Interrupted
<1>4. /\ Ids(r \o todo) = Ids(r) \union Ids(todo)
      /\ Once(r) /\ Once(todo) /\ Disjoint(Ids(r), Ids(todo))
    BY <1>3, IdsOfConcat DEF Apart
<1> HIDE DEF r
<1>5. CASE Transmit(todo, c, w)
    <2>1. CommandsOf(runningCommands') = r \o todo
        BY <1>1, <1>3, <1>5, CommandsOfTransmitted DEF Transmit, TypeOK, r
    <2>2. commands' = c /\ suspended' = Interrupted
        BY <1>5 DEF Transmit, Return, Interrupted
    <2>3. SessionState' = SessionState /\ thread' # "crashed"
        BY <1>1, <1>5, SameSession DEF Transmit
    <2>4. HandsGenuine' /\ HandsApart' /\ HandIds' = HandIds
        BY <1>1, <1>3, <2>1, <2>2 DEF HandsGenuine, HandsApart, HandIds, r
    <2> QED
        BY <1>1, <1>2, <2>3, <2>4, HandsStep DEF Excused
<1>6. CASE Reconnect(todo, c, w)
    <2>1. Interrupted = <<>>
        BY <1>6 DEF PromiseInvariant, ControlInvariant, NestedConnects, SuspendedInLoop,
                    Interrupted, Reconnect
    <2>2. /\ commands' = <<Head(todo)>> \o c /\ suspended' = Tail(todo)
          /\ CommandsOf(runningCommands') = r
        BY <1>6 DEF Reconnect, Rest, r
    <2>3. SessionState' = SessionState /\ thread' # "crashed"
        BY <1>1, <1>6, SameSession DEF Reconnect
    <2>4. /\ todo # <<>> /\ Head(todo) \in Genuine /\ <<Head(todo)>> \in Seq(Genuine)
          /\ Tail(todo) \in Seq(Genuine) /\ <<Head(todo)>> \in Seq(Command)
        BY <1>6, GenuineQueues DEF Reconnect
    <2>5. /\ Ids(todo) = ({Head(todo).id} \ {0}) \union Ids(Tail(todo))
          /\ Once(Tail(todo)) /\ Head(todo).id \notin Ids(Tail(todo))
        BY <1>3, <1>4, <2>4, IdsOfHead
    <2>6. Ids(<<Head(todo)>>) = {Head(todo).id} \ {0} /\ Once(<<Head(todo)>>)
        BY IdsOfFew
    <2>7. /\ Ids(commands') = Ids(<<Head(todo)>>) \union Ids(c)
          /\ Once(commands') <=> /\ Once(<<Head(todo)>>) /\ Once(c)
                                 /\ Disjoint(Ids(<<Head(todo)>>), Ids(c))
        BY <1>3, <2>2, <2>4, IdsOfConcat
    <2>8. HandsGenuine'
        BY <1>1, <1>3, <2>2, <2>4, GenuineQueues DEF HandsGenuine, r
    <2>9. HandIds' = HandIds
        BY <1>4, <2>1, <2>2, <2>5, <2>6, <2>7, NothingInHand DEF HandIds, r
    <2>10. HandsApart'
        BY <1>4, <2>2, <2>5, <2>6, <2>7 DEF HandsApart, Apart, Disjoint, r
    <2> QED
        BY <1>1, <1>2, <2>3, <2>8, <2>9, <2>10, HandsStep DEF Excused
<1>7. CASE Refuse(todo, c, w)
    <2>1. commands' = c /\ suspended' = Interrupted /\ runningCommands' = <<>>
        BY <1>7 DEF Refuse, Return, Interrupted
    <2>2. HandsGenuine' /\ HandsApart' /\ HandIds' \subseteq HandIds
        BY <1>1, <1>3, <2>1, NothingInHand
        DEF HandsGenuine, HandsApart, HandIds, Apart, Disjoint
    <2>3. Excused((Posted \union HandIds) \ (Posted' \union HandIds'))
        <3> DEFINE more == [k \in DOMAIN todo |-> "error"]
        <3>1. /\ DOMAIN todo = 1..Len(todo) /\ Len(todo) \in Nat
              /\ outbox' = outbox \o more /\ UNCHANGED <<stoppingTransporter, thread>>
              /\ Len(todo) # 0
            BY <1>1, <1>3, <1>7, LenProperties, EmptySeq DEF Refuse
        <3>2. more \in Seq(Signal)
            BY <3>1 DEF Signal
        <3>3. 1 \in DOMAIN more /\ more[1] = "error"
            BY <3>1
        <3> HIDE DEF more
        <3> QED
            BY <1>1, <3>1, <3>2, <3>3, SessionStep DEF Excused
    <2> QED
        BY <1>1, <1>2, <2>2, <2>3, HandsStep
<1>8. CASE Crash(todo, c, w)
    <2>1. commands' = c /\ UNCHANGED <<suspended, runningCommands>>
        BY <1>8 DEF Crash, loopVars
    <2>2. nested # "resume" => suspended = Interrupted
        BY DEF Interrupted
    <2>3. nested = "resume" => suspended = todo /\ Interrupted = <<>>
        BY DEF Interrupted
    <2>4. HandsGenuine' /\ HandsApart' /\ HandIds' \subseteq HandIds
        BY <1>1, <1>3, <1>4, <2>1, <2>2, <2>3, NothingInHand
        DEF HandsGenuine, HandsApart, HandIds, Apart, Disjoint, r
    <2>5. stoppingTransporter /\ stoppingTransporter'
        BY <1>1, <1>8 DEF Crash, PromiseInvariant, ControlInvariant, NoSocketNoCalls
    <2> QED
        BY <1>1, <1>2, <2>4, <2>5, ClosedSession, HandsStep DEF Excused
<1> QED
    BY <1>5, <1>6, <1>7, <1>8 DEF RunCommands

LEMMA WithSelectIds ==
    ASSUME NEW cmd \in Genuine
    PROVE  WithSelect(cmd) \in Seq(Genuine) /\ Ids(WithSelect(cmd)) = {cmd.id} \ {0}
           /\ Once(WithSelect(cmd))
<1>1. cmd.db # NoDb => SelectCommand(cmd.db) \in Genuine /\ SelectCommand(cmd.db).id = 0
    <2>1. cmd.db # NoDb => SelectCommand(cmd.db) \in Command
        BY SelectType DEF Genuine, Command
    <2> QED
        BY <2>1 DEF SelectCommand, Genuine
<1>2. CASE cmd.db = NoDb
    BY <1>2, IdsOfFew DEF WithSelect
<1>3. CASE cmd.db # NoDb
    <2> DEFINE sel == SelectCommand(cmd.db)
    <2>1. sel \in Genuine /\ sel.id = 0 /\ WithSelect(cmd) = <<sel, cmd>>
        BY <1>1, <1>3 DEF WithSelect
    <2> HIDE DEF sel
    <2>2. <<sel, cmd>> \in Seq(Genuine) /\ DOMAIN <<sel, cmd>> = {1, 2}
        BY <2>1
    <2>3. Ids(<<sel, cmd>>) = {cmd.id} \ {0}
        BY <2>1, <2>2 DEF Ids
    <2>4. Once(<<sel, cmd>>)
        BY <2>1, <2>2 DEF Once
    <2> QED
        BY <2>1, <2>2, <2>3, <2>4
<1> QED
    BY <1>2, <1>3

\* A command leaves the head of a queue to be run.
LEMMA HeadToRun ==
    ASSUME NEW q \in Seq(Genuine), q # <<>>, NEW r \in Seq(Genuine)
    PROVE  LET todo == WithSelect(Head(q))
           IN  /\ todo \in Seq(Genuine) /\ Tail(q) \in Seq(Genuine)
               /\ Ids(Tail(q)) \union Ids(r \o todo) = Ids(q) \union Ids(r)
               /\ Once(q) /\ Once(r) /\ Disjoint(Ids(q), Ids(r)) =>
                      /\ Once(Tail(q)) /\ Once(r \o todo)
                      /\ Disjoint(Ids(Tail(q)), Ids(r \o todo))
<1> DEFINE todo == WithSelect(Head(q))
<1>1. /\ q \in Seq(Command) /\ r \in Seq(Command)
      /\ Head(q) \in Genuine /\ Tail(q) \in Seq(Genuine)
    BY GenuineQueues
<1>2. todo \in Seq(Genuine) /\ Ids(todo) = {Head(q).id} \ {0} /\ Once(todo)
    BY <1>1, WithSelectIds
<1> HIDE DEF todo
<1>3. /\ Ids(q) = ({Head(q).id} \ {0}) \union Ids(Tail(q))
      /\ Once(q) <=> Once(Tail(q)) /\ Head(q).id \notin Ids(Tail(q))
    BY <1>1, IdsOfHead
<1>4. /\ Ids(r \o todo) = Ids(r) \union Ids(todo)
      /\ Once(r \o todo) <=> Once(r) /\ Once(todo) /\ Disjoint(Ids(r), Ids(todo))
    <2>1. todo \in Seq(Command)
        BY <1>2, GenuineQueues
    <2> QED
        BY <1>1, <2>1, IdsOfConcat
<1>5. /\ todo \in Seq(Genuine) /\ Tail(q) \in Seq(Genuine)
      /\ Ids(Tail(q)) \union Ids(r \o todo) = Ids(q) \union Ids(r)
      /\ Once(q) /\ Once(r) /\ Disjoint(Ids(q), Ids(r)) =>
             /\ Once(Tail(q)) /\ Once(r \o todo)
             /\ Disjoint(Ids(Tail(q)), Ids(r \o todo))
    BY <1>1, <1>2, <1>3, <1>4 DEF Disjoint
<1> QED
    BY <1>5 DEF todo

\* Nothing moves.
LEMMA QuietStep ==
    ASSUME PromiseInvariant, ControlInvariant', thread # "crashed",
           UNCHANGED <<submitted, destroyed, answered, inbox, commands, internalCommands,
                       suspended>>,
           CommandsOf(runningCommands)' = CommandsOf(runningCommands),
           thread' # "crashed", SessionState' = SessionState
    PROVE  PromiseInvariant' /\ [Promise!Next]_(Promise!vars)
<1>1. Genuine' = Genuine
    BY DEF Genuine
<1>2. InboxGenuine' /\ Posted' = Posted
    BY InboxLeft DEF PromiseInvariant
<1>3. HandsGenuine' /\ HandsApart' /\ HandIds' = HandIds
    BY <1>1 DEF PromiseInvariant, HandsGenuine, HandsApart, HandIds
<1> QED
    BY <1>2, <1>3, HandsStep DEF Excused

LEMMA QueueStep ==
    ASSUME PromiseInvariant, QueueNext
    PROVE  PromiseInvariant' /\ [Promise!Next]_(Promise!vars)
<1> DEFINE r == CommandsOf(runningCommands)
<1>1. ControlInvariant' /\ thread = "running" /\ TypeOK
    BY QueueControl DEF PromiseInvariant, ControlInvariant, QueueNext, QueueIsEmpty, Poll,
                        RunInternalCommand, RunNextCommand, Resume, ProcessingQueue
<1>2. /\ commands \in Seq(Genuine) /\ internalCommands \in Seq(Genuine) /\ r \in Seq(Genuine)
      /\ suspended \in Seq(Genuine) /\ Apart(commands, internalCommands, r, suspended)
      /\ HandIds = Ids(commands) \union Ids(internalCommands) \union Ids(r) \union Ids(suspended)
    BY DEF PromiseInvariant, HandsGenuine, HandsApart, HandIds
<1> HIDE DEF r
<1>3. ProcessingQueue => nested # "resume" /\ Interrupted = suspended
    BY DEF ProcessingQueue, Interrupted
<1>4. CASE QueueIsEmpty \/ Poll
    <2>1. /\ UNCHANGED <<submitted, destroyed, stoppingTransporter, outbox, answered, inbox,
                         thread, commands, internalCommands, runningCommands>>
          /\ suspended' = suspended
        BY <1>3, <1>4 DEF QueueIsEmpty, Poll, Return, callerVars, threadVars
    <2>2. CommandsOf(runningCommands)' = CommandsOf(runningCommands)
        BY <2>1
    <2> QED
        BY <1>1, <2>1, <2>2, SameSession, QuietStep
<1>5. CASE RunInternalCommand
    <2> DEFINE todo == WithSelect(Head(internalCommands))
    <2>1. /\ internalCommands # <<>> /\ internalCommands' = Tail(internalCommands)
          /\ RunCommands(todo, commands, OtherWakeups) /\ nested # "resume"
          /\ Interrupted = suspended
        BY <1>3, <1>5 DEF RunInternalCommand
    <2>2. /\ todo \in Seq(Genuine) /\ Tail(internalCommands) \in Seq(Genuine)
          /\ Ids(Tail(internalCommands)) \union Ids(r \o todo) = Ids(internalCommands) \union Ids(r)
          /\ Once(Tail(internalCommands)) /\ Once(r \o todo)
          /\ Disjoint(Ids(Tail(internalCommands)), Ids(r \o todo))
        BY <1>2, <2>1, HeadToRun DEF Apart, Disjoint
    <2> HIDE DEF todo
    <2>3. /\ Apart(commands, internalCommands', r \o todo, Interrupted)
          /\ HandIds = Ids(commands) \union Ids(internalCommands') \union Ids(r \o todo)
                       \union Ids(Interrupted)
        BY <1>2, <2>1, <2>2 DEF Apart, Disjoint
    <2> QED
        BY <1>1, <1>2, <2>1, <2>2, <2>3, RunCommandsStep DEF r
<1>6. CASE RunNextCommand
    <2> DEFINE todo == WithSelect(Head(commands))
    <2>1. /\ commands # <<>> /\ internalCommands' = internalCommands
          /\ RunCommands(todo, Tail(commands), OtherWakeups) /\ nested # "resume"
          /\ Interrupted = suspended
        BY <1>3, <1>6 DEF RunNextCommand
    <2>2. /\ todo \in Seq(Genuine) /\ Tail(commands) \in Seq(Genuine)
          /\ Ids(Tail(commands)) \union Ids(r \o todo) = Ids(commands) \union Ids(r)
          /\ Once(Tail(commands)) /\ Once(r \o todo)
          /\ Disjoint(Ids(Tail(commands)), Ids(r \o todo))
        BY <1>2, <2>1, HeadToRun DEF Apart, Disjoint
    <2> HIDE DEF todo
    <2>3. /\ Apart(Tail(commands), internalCommands', r \o todo, Interrupted)
          /\ HandIds = Ids(Tail(commands)) \union Ids(internalCommands') \union Ids(r \o todo)
                       \union Ids(Interrupted)
        BY <1>2, <2>1, <2>2 DEF Apart, Disjoint
    <2> QED
        BY <1>1, <1>2, <2>1, <2>2, <2>3, RunCommandsStep DEF r
<1>7. CASE Resume
    <2>1. /\ internalCommands' = internalCommands /\ nested = "resume" /\ Interrupted = <<>>
          /\ RunCommands(suspended, commands, wakeups)
        BY <1>7 DEF Resume, Interrupted
    <2>2. /\ r \in Seq(Command) /\ suspended \in Seq(Command)
          /\ Ids(r \o suspended) = Ids(r) \union Ids(suspended)
          /\ Once(r \o suspended)
        BY <1>2, GenuineQueues, IdsOfConcat DEF Apart
    <2>3. /\ Apart(commands, internalCommands', r \o suspended, Interrupted)
          /\ HandIds = Ids(commands) \union Ids(internalCommands') \union Ids(r \o suspended)
                       \union Ids(Interrupted)
        BY <1>2, <2>1, <2>2, NothingInHand DEF Apart, Disjoint
    <2> QED
        BY <1>1, <1>2, <2>1, <2>3, RunCommandsStep DEF r
<1> QED
    BY <1>4, <1>5, <1>6, <1>7 DEF QueueNext

\* errorOccurred: the running commands are lost, and the Connection will hear of it.
LEMMA ErrorStep ==
    ASSUME PromiseInvariant, ControlInvariant', ErrorOccurred, thread = "running",
           UNCHANGED <<submitted, destroyed, answered, stoppingTransporter, thread, inbox,
                       commands, internalCommands, suspended>>
    PROVE  PromiseInvariant' /\ [Promise!Next]_(Promise!vars)
<1>1. Genuine' = Genuine /\ TypeOK
    BY DEF Genuine, PromiseInvariant, ControlInvariant
<1>2. InboxGenuine' /\ Posted' = Posted
    BY InboxLeft DEF PromiseInvariant
<1>3. HandsGenuine' /\ HandsApart' /\ HandIds' \subseteq HandIds
    BY <1>1, NothingInHand
    DEF ErrorOccurred, PromiseInvariant, HandsGenuine, HandsApart, HandIds, Apart, Disjoint
<1>4. Excused((Posted \union HandIds) \ (Posted' \union HandIds'))
    <2> DEFINE more == <<"error">>
    <2>1. more \in Seq(Signal) /\ outbox' = outbox \o more
        BY <1>1 DEF Signal, ErrorOccurred, TypeOK
    <2>2. 1 \in DOMAIN more /\ more[1] = "error"
        OBVIOUS
    <2> HIDE DEF more
    <2> QED
        BY <1>1, <2>1, <2>2, SessionStep DEF Excused
<1> QED
    BY <1>2, <1>3, <1>4, HandsStep

\* The running commands go back to the queues.
LEMMA UnknownErrorStep ==
    ASSUME PromiseInvariant, ControlInvariant', UnknownSocketError
    PROVE  PromiseInvariant' /\ [Promise!Next]_(Promise!vars)
<1> DEFINE r == CommandsOf(runningCommands)
           hi == Subsequence(r, HiPriority(r))
           lo == Subsequence(r, LowPriority(r))
<1>1. /\ UNCHANGED <<submitted, destroyed, answered, stoppingTransporter, thread, inbox,
                     suspended, outbox>>
      /\ thread = "running" /\ TypeOK /\ Genuine' = Genuine
    BY DEF UnknownSocketError, ConnectionLost, AtEventLoop, callerVars, threadVars, Genuine,
           PromiseInvariant, ControlInvariant
<1>2. InboxGenuine' /\ Posted' = Posted
    BY <1>1, InboxLeft DEF PromiseInvariant
<1>3. /\ commands' = Reverse(lo) \o commands /\ internalCommands' = Reverse(hi) \o internalCommands
      /\ CommandsOf(runningCommands') = <<>>
    BY NothingInHand DEF UnknownSocketError
<1>4. /\ r \in Seq(Genuine) /\ commands \in Seq(Genuine) /\ internalCommands \in Seq(Genuine)
      /\ suspended \in Seq(Genuine) /\ Apart(commands, internalCommands, r, suspended)
      /\ HandIds = Ids(commands) \union Ids(internalCommands) \union Ids(r) \union Ids(suspended)
    BY DEF PromiseInvariant, HandsGenuine, HandsApart, HandIds
<1>5. hi \in Seq(Genuine) /\ lo \in Seq(Genuine)
    BY <1>4, GenuineQueues DEF HiPriority, LowPriority
<1>6. /\ Ids(hi) \union Ids(lo) = Ids(r)
      /\ Once(hi) /\ Once(lo) /\ Disjoint(Ids(hi), Ids(lo))
    <2>1. r \in Seq(Command) /\ Once(r)
        BY <1>4, GenuineQueues DEF Apart
    <2> HIDE DEF r
    <2> QED
        BY <2>1, IdsOfPriorities
<1> HIDE DEF r, hi, lo
<1>7. /\ Reverse(hi) \in Seq(Genuine) /\ Reverse(lo) \in Seq(Genuine)
      /\ Ids(Reverse(hi)) = Ids(hi) /\ Ids(Reverse(lo)) = Ids(lo)
      /\ Once(Reverse(hi)) /\ Once(Reverse(lo))
    BY <1>5, <1>6, GenuineQueues, IdsOfReverse
<1>8. /\ commands' \in Seq(Genuine) /\ internalCommands' \in Seq(Genuine)
      /\ Ids(commands') = Ids(lo) \union Ids(commands)
      /\ Ids(internalCommands') = Ids(hi) \union Ids(internalCommands)
      /\ Disjoint(Ids(lo), Ids(commands)) /\ Once(commands) => Once(commands')
      /\ Disjoint(Ids(hi), Ids(internalCommands)) /\ Once(internalCommands) =>
             Once(internalCommands')
    <2>1. /\ Reverse(hi) \in Seq(Command) /\ Reverse(lo) \in Seq(Command)
          /\ commands \in Seq(Command) /\ internalCommands \in Seq(Command)
        BY <1>4, <1>7, GenuineQueues
    <2> QED
        BY <1>3, <1>4, <1>7, <2>1, GenuineQueues, IdsOfConcat
<1>9. HandsGenuine' /\ HandsApart' /\ HandIds' = HandIds
    <2>1. HandsGenuine'
        BY <1>1, <1>3, <1>4, <1>8, NothingInHand DEF HandsGenuine
    <2>2. HandIds' = HandIds
        BY <1>1, <1>3, <1>4, <1>6, <1>8, NothingInHand DEF HandIds
    <2>3. HandsApart'
        BY <1>1, <1>3, <1>4, <1>6, <1>8, NothingInHand DEF HandsApart, Apart, Disjoint
    <2> QED
        BY <2>1, <2>2, <2>3
<1> QED
    BY <1>1, <1>2, <1>9, SameSession, HandsStep DEF Excused

LEMMA ConnectStep ==
    ASSUME PromiseInvariant, ConnectNext
    PROVE  PromiseInvariant' /\ [Promise!Next]_(Promise!vars)
<1>1. /\ ControlInvariant' /\ thread = "running"
      /\ UNCHANGED <<submitted, destroyed, stoppingTransporter, thread, inbox, suspended, answered>>
    BY ConnectControl DEF PromiseInvariant
<1>2. CASE ConnectSucceeds
    <2> DEFINE more == <<"connected">>
    <2>1. more \in Seq(Signal) /\ outbox' = outbox \o more /\ UNCHANGED queueVars
        BY <1>2 DEF Signal, ConnectSucceeds, PromiseInvariant, ControlInvariant, TypeOK
    <2>2. \A k \in DOMAIN more : more[k] \notin {"error", "refused"}
        OBVIOUS
    <2> HIDE DEF more
    <2>3. SessionState' = SessionState
        BY <1>1, <2>1, <2>2, SessionStep DEF PromiseInvariant, ControlInvariant
    <2>4. CommandsOf(runningCommands)' = CommandsOf(runningCommands)
        BY <2>1 DEF queueVars
    <2> QED
        BY <1>1, <2>1, <2>3, <2>4, QuietStep DEF queueVars
<1>3. CASE ConnectFails \/ ConnectTimesOut \/ ConnectInterrupted \/ SocketError
    BY <1>1, <1>3, ErrorStep DEF ConnectFails, ConnectTimesOut, ConnectInterrupted, SocketError
<1>4. CASE ConnectsLate
    <2>1. UNCHANGED <<queueVars, outbox>>
        BY <1>4 DEF ConnectsLate, callerVars
    <2>2. CommandsOf(runningCommands)' = CommandsOf(runningCommands)
        BY <2>1 DEF queueVars
    <2> QED
        BY <1>1, <2>1, <2>2, SameSession, QuietStep DEF queueVars
<1>5. CASE UnknownSocketError
    BY <1>1, <1>5, UnknownErrorStep
<1> QED
    BY <1>2, <1>3, <1>4, <1>5 DEF ConnectNext

\* The numbers of a queue do not depend on the rest of its commands.
LEMMA SameIds ==
    ASSUME NEW s, NEW t, DOMAIN s = DOMAIN t, \A k \in DOMAIN s : s[k].id = t[k].id
    PROVE  Ids(s) = Ids(t) /\ (Once(s) <=> Once(t))
BY DEF Ids, Once

\* A reply of a pipeline or transaction: the command stays, with less to come.
LEMMA IntermediateStep ==
    ASSUME PromiseInvariant, IntermediateReply
    PROVE  PromiseInvariant' /\ [Promise!Next]_(Promise!vars)
<1> DEFINE r == CommandsOf(runningCommands)
           cmd == Head(runningCommands).cmd
<1>1. /\ ControlInvariant' /\ thread = "running" /\ TypeOK /\ TypeOK'
      /\ UNCHANGED <<submitted, destroyed, answered, stoppingTransporter, thread, inbox,
                     commands, internalCommands, suspended, outbox>>
      /\ Genuine' = Genuine
    BY ReplyControl DEF PromiseInvariant, ControlInvariant, ReplyNext, IntermediateReply,
                        callerVars, loopVars, Genuine
<1>2. CASE cmd.kind # "pipeline"
    <2>1. runningCommands' = runningCommands
        BY <1>2 DEF IntermediateReply
    <2>2. CommandsOf(runningCommands)' = CommandsOf(runningCommands)
        BY <2>1
    <2> QED
        BY <1>1, <2>2, SameSession, QuietStep
<1>3. CASE cmd.kind = "pipeline"
    <2>1. /\ runningCommands \in Seq(Request) /\ runningCommands' \in Seq(Request)
          /\ DOMAIN runningCommands' = DOMAIN runningCommands
          /\ \A k \in DOMAIN runningCommands :
                 /\ runningCommands'[k].cmd.id = runningCommands[k].cmd.id
                 /\ runningCommands'[k].cmd.owner = runningCommands[k].cmd.owner
                 /\ runningCommands'[k].cmd.kind = runningCommands[k].cmd.kind
        <3>1. runningCommands' = [runningCommands EXCEPT ![1].cmd.arg = cmd.arg - 1]
            BY <1>3 DEF IntermediateReply
        <3>2. /\ runningCommands \in Seq(Request) /\ runningCommands' \in Seq(Request)
              /\ DOMAIN runningCommands = 1..Len(runningCommands)
              /\ \A k \in DOMAIN runningCommands : runningCommands[k] \in Request
            BY <1>1, LenProperties, ElementOfSeq DEF TypeOK
        <3> QED
            BY <3>1, <3>2 DEF Request, Command
    <2>2. /\ r' \in Seq(Command) /\ DOMAIN r' = DOMAIN r /\ DOMAIN r = DOMAIN runningCommands
          /\ \A k \in DOMAIN r : /\ r'[k].id = r[k].id /\ r'[k].owner = r[k].owner
                                 /\ r'[k].kind = r[k].kind
        BY <2>1, CommandsOfType DEF CommandsOf
    <2>3. r \in Seq(Genuine)
        BY DEF PromiseInvariant, HandsGenuine
    <2> HIDE DEF r
    <2>4. r' \in Seq(Genuine)
        <3>1. \A k \in DOMAIN r : r[k] \in Genuine /\ r'[k] \in Command
            BY <2>2, <2>3, ElementOfSeq, LenProperties
        <3>2. \A k \in DOMAIN r' : r'[k] \in Genuine
            BY <2>2, <3>1 DEF Genuine
        <3>3. DOMAIN r' = 1..Len(r') /\ Len(r') \in Nat /\ r' \in [1..Len(r') -> Command]
            BY <2>2, LenProperties
        <3> QED
            BY <3>2, <3>3
    <2>5. Ids(r') = Ids(r) /\ (Once(r') <=> Once(r))
        BY <2>2, SameIds
    <2>6. InboxGenuine' /\ Posted' = Posted
        BY <1>1, InboxLeft DEF PromiseInvariant
    <2>7. HandsGenuine' /\ HandsApart' /\ HandIds' = HandIds
        BY <1>1, <2>4, <2>5 DEF PromiseInvariant, HandsGenuine, HandsApart, HandIds, Apart, r
    <2> QED
        BY <1>1, <2>6, <2>7, SameSession, HandsStep DEF Excused
<1> QED
    BY <1>2, <1>3

\* The first running command is taken: it goes back to m_commands or is answered.
LEMMA RetryStep ==
    ASSUME PromiseInvariant, RetryCommand
    PROVE  PromiseInvariant' /\ [Promise!Next]_(Promise!vars)
<1> DEFINE r == CommandsOf(runningCommands)
<1>1. /\ ControlInvariant' /\ thread = "running" /\ TypeOK
      /\ UNCHANGED <<submitted, destroyed, answered, stoppingTransporter, thread, inbox,
                     internalCommands, suspended, outbox>>
      /\ Genuine' = Genuine
    BY ReplyControl DEF PromiseInvariant, ControlInvariant, ReplyNext, RetryCommand,
                        callerVars, loopVars, Genuine
<1>2. /\ r # <<>> /\ r' = Tail(r) /\ commands' = <<Head(r)>> \o commands
    BY <1>1, CommandsOfRunning DEF RetryCommand, FinalReply, Dequeue, TypeOK
<1>3. r \in Seq(Genuine) /\ commands \in Seq(Genuine)
    BY DEF PromiseInvariant, HandsGenuine
<1> HIDE DEF r
<1>4. /\ Head(r) \in Genuine /\ Tail(r) \in Seq(Genuine) /\ <<Head(r)>> \in Seq(Genuine)
      /\ r \in Seq(Command) /\ <<Head(r)>> \in Seq(Command) /\ commands \in Seq(Command)
    BY <1>2, <1>3, GenuineQueues
<1>5. /\ Ids(r) = ({Head(r).id} \ {0}) \union Ids(Tail(r))
      /\ Once(r) <=> Once(Tail(r)) /\ Head(r).id \notin Ids(Tail(r))
    BY <1>2, <1>4, IdsOfHead
<1>6. /\ Ids(commands') = ({Head(r).id} \ {0}) \union Ids(commands)
      /\ Once(commands') <=> Once(commands) /\ Head(r).id \notin Ids(commands)
    <2>1. Ids(<<Head(r)>>) = {Head(r).id} \ {0} /\ Once(<<Head(r)>>) /\ 0 \notin Ids(commands)
        BY IdsOfFew DEF Ids
    <2>2. /\ Ids(<<Head(r)>> \o commands) = Ids(<<Head(r)>>) \union Ids(commands)
          /\ Once(<<Head(r)>> \o commands) <=>
                 Once(<<Head(r)>>) /\ Once(commands) /\ Disjoint(Ids(<<Head(r)>>), Ids(commands))
        BY <1>4, IdsOfConcat
    <2> QED
        BY <1>2, <2>1, <2>2 DEF Disjoint
<1>7. HandsGenuine' /\ HandsApart' /\ HandIds' = HandIds
    <2>1. commands' \in Seq(Genuine)
        BY <1>2, <1>3, <1>4, GenuineQueues
    <2>2. HandsGenuine'
        BY <1>1, <1>2, <1>4, <2>1 DEF PromiseInvariant, HandsGenuine, r
    <2>3. HandIds' = HandIds
        BY <1>1, <1>2, <1>5, <1>6 DEF HandIds, r
    <2>4. \A s : 0 \notin Ids(s)
        BY DEF Ids
    <2>5. HandsApart'
        <3>1. Apart(commands, internalCommands, r, suspended)
            BY DEF PromiseInvariant, HandsApart, r
        <3>2. Head(r).id \notin Ids(commands)
            BY <1>5, <2>4, <3>1 DEF Apart, Disjoint
        <3>3. Apart(commands', internalCommands, Tail(r), suspended)
            BY <1>5, <1>6, <2>4, <3>1, <3>2 DEF Apart, Disjoint
        <3> QED
            BY <1>1, <1>2, <3>3 DEF HandsApart, Apart, r
    <2> QED
        BY <2>2, <2>3, <2>5
<1>8. InboxGenuine' /\ Posted' = Posted
    BY <1>1, InboxLeft DEF PromiseInvariant
<1> QED
    BY <1>1, <1>7, <1>8, SameSession, HandsStep DEF Excused

LEMMA CompleteStep ==
    ASSUME PromiseInvariant, CompleteCommand
    PROVE  PromiseInvariant' /\ [Promise!Next]_(Promise!vars)
<1> DEFINE r == CommandsOf(runningCommands)
           cmd == Head(r)
<1>1. /\ ControlInvariant' /\ thread = "running" /\ TypeOK /\ TypeOK' /\ ~stoppingTransporter
      /\ UNCHANGED <<submitted, destroyed, stoppingTransporter, thread, inbox, commands,
                     internalCommands, suspended>>
      /\ Genuine' = Genuine
    BY ReplyControl DEF PromiseInvariant, ControlInvariant, ReplyNext, CompleteCommand,
                        FinalReply, loopVars, Genuine
<1>2. /\ r # <<>> /\ r' = Tail(r) /\ answered' = answered \union ({cmd.id} \ {0})
      /\ cmd.kind # "handshake" => outbox' = outbox
      /\ cmd.kind = "handshake" => \E signal \in {"pong", "refused"} : outbox' = Append(outbox, signal)
    BY <1>1, CommandsOfRunning DEF CompleteCommand, FinalReply, Dequeue, TypeOK
<1>3. r \in Seq(Genuine)
    BY DEF PromiseInvariant, HandsGenuine
<1> HIDE DEF r
<1>4. cmd \in Genuine /\ Tail(r) \in Seq(Genuine) /\ r \in Seq(Command)
    BY <1>2, <1>3, GenuineQueues
<1> HIDE DEF cmd
<1>5. /\ Ids(r) = ({cmd.id} \ {0}) \union Ids(Tail(r))
      /\ Once(r) <=> Once(Tail(r)) /\ cmd.id \notin Ids(Tail(r))
    BY <1>2, <1>4, IdsOfHead DEF cmd
<1>6. HandsGenuine' /\ HandsApart'
    BY <1>1, <1>2, <1>4, <1>5 DEF PromiseInvariant, HandsGenuine, HandsApart, Apart, Disjoint, r
<1>7. /\ HandIds = ({cmd.id} \ {0}) \union HandIds' /\ cmd.id \notin HandIds'
    <2>1. 0 \notin HandIds'
        BY DEF HandIds, Ids
    <2> QED
        BY <1>1, <1>2, <1>5, <2>1
        DEF PromiseInvariant, HandsApart, Apart, Disjoint, HandIds, r
<1>8. InboxGenuine' /\ Posted' = Posted
    BY <1>1, InboxLeft DEF PromiseInvariant
<1>9. SessionState # "closed"
    BY <1>1 DEF SessionState, IsConnected
<1>10. CASE cmd.id # 0
    <2>1. cmd.kind # "handshake" /\ cmd.id \in DOMAIN submitted
        BY <1>4, <1>10 DEF Genuine
    <2>2. SessionState' = SessionState
        BY <1>1, <1>2, <2>1, SameSession
    <2>3. answered' = answered \union {cmd.id} /\ cmd.id \in HandIds /\ HandIds' = HandIds \ {cmd.id}
        BY <1>2, <1>7, <1>10
    <2>4. cmd.id \notin answered /\ cmd.id \notin Posted
        BY <2>3 DEF PromiseInvariant, OnePlace, Disjoint
    <2>5. OnePlace'
        BY <1>1, <1>8, <2>1, <2>3, <2>4 DEF PromiseInvariant, OnePlace, Disjoint
    <2>6. cmd.id \in InPlay /\ InPlay' = InPlay \ {cmd.id}
        BY <1>1, <1>8, <2>3, <2>4 DEF InPlay
    <2>7. [Promise!Next]_(Promise!vars)
        BY <1>1, <1>9, <2>1, <2>2, <2>3, <2>4, <2>6, AnswerStep
    <2> QED
        BY <1>1, <1>6, <1>8, <2>5, <2>7 DEF PromiseInvariant
<1>11. CASE cmd.id = 0
    <2>1. answered' = answered /\ HandIds' = HandIds
        BY <1>2, <1>7, <1>11
    <2>2. PICK more \in Seq(Signal) : outbox' = outbox \o more
        <3>1. /\ outbox \in Seq(Signal)
              /\ \A signal \in Signal : Append(outbox, signal) = outbox \o <<signal>>
            <4>1. outbox \in Seq(Signal)
                BY <1>1 DEF TypeOK
            <4> QED
                BY <4>1, AppendIsConcat
        <3>2. \A signal \in Signal : <<signal>> \in Seq(Signal)
            OBVIOUS
        <3>3. outbox = outbox \o <<>> /\ <<>> \in Seq(Signal)
            BY <3>1
        <3> QED
            BY <1>2, <3>1, <3>2, <3>3 DEF Signal
    <2>3. \/ SessionState' = SessionState
          \/ SessionState = "open" /\ SessionState' = "broken"
        BY <1>1, <2>2, SessionStep
    <2> QED
        BY <1>1, <1>6, <1>8, <2>1, <2>3, HandsStep DEF Excused
<1> QED
    BY <1>10, <1>11

LEMMA ReplyStep ==
    ASSUME PromiseInvariant, ReplyNext
    PROVE  PromiseInvariant' /\ [Promise!Next]_(Promise!vars)
<1>1. /\ ControlInvariant' /\ thread = "running"
      /\ UNCHANGED <<submitted, destroyed, stoppingTransporter, thread, inbox, suspended,
                     internalCommands>>
    BY ReplyControl DEF PromiseInvariant
<1>2. ASSUME UNCHANGED <<outbox, answered, commands, runningCommands>>
      PROVE  PromiseInvariant' /\ [Promise!Next]_(Promise!vars)
    <2>1. CommandsOf(runningCommands)' = CommandsOf(runningCommands)
        BY <1>2
    <2> QED
        BY <1>1, <1>2, <2>1, SameSession, QuietStep
<1>3. CASE DiscardReply
    BY <1>2, <1>3 DEF DiscardReply, callerVars, queueVars
<1>4. CASE UnexpectedReply
    BY <1>1, <1>2, <1>4, ErrorStep DEF UnexpectedReply
<1> QED
    BY <1>3, <1>4, IntermediateStep, RetryStep, CompleteStep DEF ReplyNext

LEMMA ServerStep ==
    ASSUME PromiseInvariant, ServerNext
    PROVE  PromiseInvariant' /\ [Promise!Next]_(Promise!vars)
<1>1. /\ ControlInvariant' /\ thread = "running"
      /\ UNCHANGED <<callerVars, queueVars, threadVars, loopVars, answered>>
    BY ServerControl
    DEF PromiseInvariant, ServerNext, ServerExecutes, ServerProtocolError, ServerRefusesSelect,
        ServerAbortsTransaction, ServerErrorState, Respond
<1>2. CommandsOf(runningCommands)' = CommandsOf(runningCommands)
    BY <1>1 DEF queueVars
<1>3. SessionState' = SessionState
    BY <1>1, SameSession DEF callerVars, threadVars
<1> QED
    BY <1>1, <1>2, <1>3, QuietStep DEF callerVars, queueVars, threadVars, loopVars

\* A batch is distributed over the queues.
LEMMA AddStep ==
    ASSUME PromiseInvariant, ControlInvariant', AddCommands
    PROVE  PromiseInvariant' /\ [Promise!Next]_(Promise!vars)
<1> DEFINE batch == Head(inbox).batch
           hi == Subsequence(batch, HiPriority(batch))
           lo == Subsequence(batch, LowPriority(batch))
           r == CommandsOf(runningCommands)
<1>1. /\ UNCHANGED <<submitted, destroyed, answered, stoppingTransporter, outbox, thread,
                     suspended, runningCommands>>
      /\ thread = "running" /\ TypeOK /\ Genuine' = Genuine /\ Receive("add")
      /\ internalCommands' = internalCommands \o hi /\ commands' = commands \o lo
    BY DEF AddCommands, Receive, AtEventLoop, Enqueue, callerVars, loopVars, Genuine,
           PromiseInvariant, ControlInvariant
<1>2. /\ InboxGenuine' /\ batch \in Seq(Genuine) /\ Once(batch)
      /\ Posted = Ids(batch) \union Posted' /\ Disjoint(Ids(batch), Posted')
    BY <1>1, InboxTaken DEF PromiseInvariant
<1>3. /\ r \in Seq(Genuine) /\ commands \in Seq(Genuine) /\ internalCommands \in Seq(Genuine)
      /\ suspended \in Seq(Genuine) /\ Apart(commands, internalCommands, r, suspended)
      /\ HandIds = Ids(commands) \union Ids(internalCommands) \union Ids(r) \union Ids(suspended)
      /\ r' = r
    BY <1>1 DEF PromiseInvariant, HandsGenuine, HandsApart, HandIds
<1> HIDE DEF batch, r
<1>4. batch \in Seq(Command) /\ commands \in Seq(Command) /\ internalCommands \in Seq(Command)
    BY <1>2, <1>3, GenuineQueues
<1>5. hi \in Seq(Genuine) /\ lo \in Seq(Genuine)
    BY <1>2, GenuineQueues DEF HiPriority, LowPriority
<1>6. /\ hi \in Seq(Command) /\ lo \in Seq(Command)
      /\ Ids(hi) \union Ids(lo) = Ids(batch)
      /\ Once(hi) /\ Once(lo) /\ Disjoint(Ids(hi), Ids(lo))
    BY <1>2, <1>4, IdsOfPriorities
<1> HIDE DEF hi, lo
<1>7. /\ commands' \in Seq(Genuine) /\ internalCommands' \in Seq(Genuine)
      /\ Ids(commands') = Ids(commands) \union Ids(lo)
      /\ Ids(internalCommands') = Ids(internalCommands) \union Ids(hi)
      /\ Once(commands') <=> Once(commands) /\ Once(lo) /\ Disjoint(Ids(commands), Ids(lo))
      /\ Once(internalCommands') <=>
             Once(internalCommands) /\ Once(hi) /\ Disjoint(Ids(internalCommands), Ids(hi))
    BY <1>1, <1>3, <1>4, <1>5, <1>6, GenuineQueues, IdsOfConcat
<1>8. Disjoint(HandIds, Ids(batch))
    BY <1>2 DEF PromiseInvariant, OnePlace, Disjoint
<1>9. HandsGenuine' /\ HandIds' = HandIds \union Ids(batch)
    BY <1>1, <1>3, <1>6, <1>7 DEF HandsGenuine, HandIds, r
<1>10. HandsApart'
    <2>1. Apart(commands', internalCommands', r, suspended)
        BY <1>3, <1>6, <1>7, <1>8 DEF Apart, Disjoint
    <2> QED
        BY <1>1, <1>3, <2>1 DEF HandsApart, r
<1>11. Ids(batch) = Posted \ Posted' /\ Posted \union HandIds = Posted' \union HandIds'
    BY <1>2, <1>9 DEF Disjoint
<1> QED
    BY <1>1, <1>2, <1>9, <1>10, <1>11, SameSession, HandsStep DEF Excused

\* What is left of a queue when an owner's commands are gone.
LEMMA CancelledIds ==
    ASSUME NEW q \in Seq(Genuine), NEW owner
    PROVE  LET left == Subsequence(q, DOMAIN q \ OwnedBy(q, owner))
           IN  /\ left \in Seq(Genuine) /\ Ids(left) \subseteq Ids(q)
               /\ Once(q) => Once(left)
               /\ \A i \in Ids(q) \ Ids(left) : submitted[i] = owner
<1> DEFINE kept == DOMAIN q \ OwnedBy(q, owner)
           left == Subsequence(q, kept)
<1>1. q \in Seq(Command) /\ kept \in SUBSET DOMAIN q
    BY GenuineQueues
<1>2. \A k \in DOMAIN q : q[k] \in Genuine
    BY ElementOfSeq, LenProperties
<1>3. \A k \in DOMAIN q : k \notin kept => q[k].owner = owner
    BY DEF OwnedBy
<1> HIDE DEF kept
<1>4. left \in Seq(Genuine)
    BY <1>1, GenuineQueues
<1>5. Ids(left) = {q[k].id : k \in kept} \ {0} /\ (Once(q) => Once(left))
    BY <1>1, IdsOfSubsequence
<1> HIDE DEF left
<1>6. ASSUME NEW i \in Ids(q), i \notin Ids(left) PROVE submitted[i] = owner
    <2>1. PICK k \in DOMAIN q : q[k].id = i /\ i # 0
        BY InIds
    <2>2. k \notin kept
        BY <1>5, <1>6, <2>1
    <2> QED
        BY <1>2, <1>3, <2>1, <2>2 DEF Genuine
<1>7. Ids(left) \subseteq Ids(q)
    BY <1>1, <1>5 DEF Ids
<1> QED
    BY <1>4, <1>5, <1>6, <1>7 DEF left, kept

LEMMA CancelStep ==
    ASSUME PromiseInvariant, ControlInvariant', CancelCommands
    PROVE  PromiseInvariant' /\ [Promise!Next]_(Promise!vars)
<1> DEFINE owner == Head(inbox).owner
           r == CommandsOf(runningCommands)
<1>1. /\ UNCHANGED <<submitted, destroyed, answered, stoppingTransporter, outbox, thread,
                     suspended, internalCommands>>
      /\ thread = "running" /\ TypeOK /\ Genuine' = Genuine /\ Receive("cancel")
      /\ runningCommands' = Subsequence(runningCommands, DOMAIN r \ OwnedBy(r, owner))
      /\ commands' = Subsequence(commands, DOMAIN commands \ OwnedBy(commands, owner))
    BY DEF CancelCommands, Receive, AtEventLoop, WithoutOwner, callerVars, loopVars, Genuine,
           PromiseInvariant, ControlInvariant
<1>2. InboxGenuine' /\ Posted' = Posted /\ owner \in destroyed
    BY <1>1, InboxTaken DEF PromiseInvariant
<1>3. r' = Subsequence(r, DOMAIN r \ OwnedBy(r, owner))
    <2>1. runningCommands \in Seq(Request) /\ DOMAIN r = DOMAIN runningCommands
        BY <1>1, CommandsOfType DEF TypeOK
    <2>2. DOMAIN r \ OwnedBy(r, owner) \in SUBSET DOMAIN runningCommands
        BY <2>1
    <2> QED
        BY <1>1, <2>1, <2>2, CommandsOfRunning
<1>4. /\ r \in Seq(Genuine) /\ commands \in Seq(Genuine) /\ internalCommands \in Seq(Genuine)
      /\ suspended \in Seq(Genuine) /\ Apart(commands, internalCommands, r, suspended)
      /\ HandIds = Ids(commands) \union Ids(internalCommands) \union Ids(r) \union Ids(suspended)
    BY DEF PromiseInvariant, HandsGenuine, HandsApart, HandIds
<1> HIDE DEF owner, r
<1>5. /\ commands' \in Seq(Genuine) /\ Ids(commands') \subseteq Ids(commands) /\ Once(commands')
      /\ \A i \in Ids(commands) \ Ids(commands') : submitted[i] = owner
    BY <1>1, <1>4, CancelledIds DEF Apart
<1>6. /\ r' \in Seq(Genuine) /\ Ids(r') \subseteq Ids(r) /\ Once(r')
      /\ \A i \in Ids(r) \ Ids(r') : submitted[i] = owner
    BY <1>3, <1>4, CancelledIds DEF Apart
<1>7. HandsGenuine'
    BY <1>1, <1>4, <1>5, <1>6 DEF HandsGenuine, r
<1>8. HandIds' = Ids(commands') \union Ids(internalCommands) \union Ids(r') \union Ids(suspended)
    BY <1>1 DEF HandIds, r
<1>9. HandsApart'
    <2>1. Apart(commands', internalCommands, r', suspended)
        BY <1>4, <1>5, <1>6 DEF Apart, Disjoint
    <2> QED
        BY <1>1, <2>1 DEF HandsApart, r
<1>10. \A i \in (Posted \union HandIds) \ (Posted' \union HandIds') : submitted[i] \in destroyed
    BY <1>2, <1>4, <1>5, <1>6, <1>8
<1>11. HandIds' \subseteq HandIds
    BY <1>4, <1>5, <1>6, <1>8
<1> QED
    BY <1>1, <1>2, <1>7, <1>9, <1>10, <1>11, SameSession, HandsStep DEF Excused

LEMMA ThreadStep ==
    ASSUME PromiseInvariant, TransporterInit \/ Quit \/ InboxNext
    PROVE  PromiseInvariant' /\ [Promise!Next]_(Promise!vars)
<1>1. ControlInvariant' /\ TypeOK
    BY ThreadControl DEF PromiseInvariant, ControlInvariant
<1>2. CASE TransporterInit
    <2>1. /\ UNCHANGED <<submitted, destroyed, stoppingTransporter, outbox, inbox, commands,
                         internalCommands, runningCommands, suspended, answered>>
          /\ thread = "starting" /\ thread' = "running"
        BY <1>2 DEF TransporterInit, callerVars, queueVars
    <2>2. CommandsOf(runningCommands)' = CommandsOf(runningCommands)
        BY <2>1
    <2>3. SessionState' = SessionState
        BY <2>1 DEF SessionState, Healthy, IsConnected
    <2> QED
        BY <1>1, <2>1, <2>2, <2>3, QuietStep
<1>3. ASSUME runningCommands' = <<>>, commands' = <<>>, internalCommands' = <<>>,
             UNCHANGED <<submitted, destroyed, answered, suspended>>, thread = "running",
             InboxGenuine', Posted' \subseteq Posted,
             stoppingTransporter, stoppingTransporter' \/ thread' \in {"finished", "crashed"}
      PROVE  PromiseInvariant' /\ [Promise!Next]_(Promise!vars)
    <2>1. Genuine' = Genuine
        BY <1>3 DEF Genuine
    <2>2. HandsGenuine' /\ HandsApart' /\ HandIds' \subseteq HandIds
        BY <1>3, <2>1, NothingInHand
        DEF PromiseInvariant, HandsGenuine, HandsApart, HandIds, Apart, Disjoint
    <2>3. SessionState = "closed" /\ SessionState' = "closed"
        BY <1>3, ClosedSession
    <2> QED
        BY <1>1, <1>3, <2>2, <2>3, HandsStep DEF Excused
<1>4. CASE Quit
    <2>1. /\ runningCommands' = <<>> /\ commands' = <<>> /\ internalCommands' = <<>>
          /\ UNCHANGED <<submitted, destroyed, answered, suspended>> /\ thread = "running"
          /\ inbox' = <<>> /\ stoppingTransporter /\ thread' = "finished"
        BY <1>4 DEF Quit, DisconnectFromHost, AtEventLoop, loopVars
    <2>2. InboxGenuine' /\ Posted' \subseteq Posted
        BY <2>1, InboxLeft DEF PromiseInvariant
    <2> QED
        BY <1>3, <2>1, <2>2
<1>5. CASE ShutdownStart
    <2>1. /\ runningCommands' = <<>> /\ commands' = <<>> /\ internalCommands' = <<>>
          /\ UNCHANGED <<submitted, destroyed, answered, suspended, stoppingTransporter>>
          /\ thread = "running" /\ Receive("shutdown")
        BY <1>5 DEF ShutdownStart, DisconnectFromHost, Receive, AtEventLoop, callerVars, loopVars
    <2>2. stoppingTransporter
        BY <1>1, <2>1, ReceivedCall DEF PromiseInvariant, ControlInvariant
    <2>3. InboxGenuine' /\ Posted' = Posted
        BY <1>1, <2>1, InboxTaken DEF PromiseInvariant
    <2> QED
        BY <1>3, <2>1, <2>2, <2>3
<1>6. CASE AuthOk
    <2>1. /\ UNCHANGED <<submitted, destroyed, stoppingTransporter, outbox, thread, commands,
                         internalCommands, runningCommands, suspended, answered>>
          /\ thread = "running" /\ Receive("authOk")
        BY <1>6 DEF AuthOk, Receive, AtEventLoop, callerVars, loopVars
    <2>2. InboxGenuine' /\ Posted' = Posted
        BY <1>1, <2>1, InboxTaken DEF PromiseInvariant
    <2>3. HandsGenuine' /\ HandsApart' /\ HandIds' = HandIds
        <3>1. Genuine' = Genuine
            BY <2>1 DEF Genuine
        <3> QED
            BY <2>1, <3>1 DEF PromiseInvariant, HandsGenuine, HandsApart, HandIds
    <2> QED
        BY <1>1, <2>1, <2>2, <2>3, SameSession, HandsStep DEF Excused
<1> QED
    BY <1>1, <1>2, <1>4, <1>5, <1>6, AddStep, CancelStep DEF InboxNext

\* A call of the caller's thread leaves what the transporter has in hand alone.
LEMMA PostedStep ==
    ASSUME PromiseInvariant, ControlInvariant', InboxGenuine', Genuine \subseteq Genuine',
           UNCHANGED <<commands, internalCommands, runningCommands, suspended, answered>>,
           DOMAIN submitted \subseteq DOMAIN submitted',
           NEW new, Posted' = Posted \union new, Disjoint(new, DOMAIN submitted)
    PROVE  PromiseInvariant' /\ HandIds' = HandIds
<1>1. HandsGenuine' /\ HandsApart' /\ HandIds' = HandIds
    <2>1. CommandsOf(runningCommands)' = CommandsOf(runningCommands)
        OBVIOUS
    <2>2. Seq(Genuine) \subseteq Seq(Genuine')
        BY SeqGrows
    <2>3. HandsGenuine'
        BY <2>1, <2>2 DEF PromiseInvariant, HandsGenuine
    <2> QED
        BY <2>1, <2>3 DEF PromiseInvariant, HandsApart, HandIds
<1>2. HandIds \subseteq DOMAIN submitted
    BY GenuineIds DEF PromiseInvariant, HandsGenuine, HandIds
<1>3. OnePlace'
    BY <1>1, <1>2 DEF PromiseInvariant, OnePlace, Disjoint
<1> QED
    BY <1>1, <1>3 DEF PromiseInvariant

LEMMA FateKept ==
    ASSUME TypeOK, TypeOK', UNCHANGED <<submitted, answered, thread>>, Posted' = Posted,
           HandIds' = HandIds
    PROVE  Fate' = Fate
<1>1. InPlay' = InPlay
    BY DEF InPlay
<1>2. \A i : FateIs(i)' = FateIs(i)
    BY <1>1 DEF FateIs
<1> QED
    BY <1>2, FateMeans, FateMeansNext DEF FateIsSo

\* The commands of a batch are numbered as they are posted.
LEMMA SubmitStep ==
    ASSUME PromiseInvariant, NEW batch \in Batches, Submit(batch)
    PROVE  PromiseInvariant' /\ [Promise!Next]_(Promise!vars)
<1> DEFINE m == Len(submitted)
           n == Len(batch)
           owners == [k \in DOMAIN batch |-> batch[k].owner]
           posted == [k \in DOMAIN batch |-> [batch[k] EXCEPT !.id = m + k]]
           call == [type |-> "add", batch |-> posted]
<1>1. /\ ControlInvariant' /\ TypeOK /\ TypeOK' /\ IsConnected
      /\ UNCHANGED <<commands, internalCommands, runningCommands, suspended, answered, destroyed,
                     stoppingTransporter, outbox, thread>>
      /\ inbox' = Append(inbox, call) /\ submitted' = submitted \o owners
    BY CallerControl DEF PromiseInvariant, ControlInvariant, CallerNext, Submit, queueVars, loopVars
<1>2. /\ m \in Nat /\ DOMAIN submitted = 1..m /\ n \in Nat /\ n # 0 /\ DOMAIN batch = 1..n
      /\ \A k \in 1..n : batch[k] \in Command /\ batch[k].kind # "handshake"
      /\ m + n <= MaxCommands
    <2>1. batch \in Seq(Command) /\ batch # <<>>
        BY BatchesAssumption
    <2>2. m \in Nat /\ DOMAIN submitted = 1..m
        BY <1>1, LenProperties DEF TypeOK
    <2>3. n \in Nat /\ n # 0 /\ DOMAIN batch = 1..n /\ \A k \in 1..n : batch[k] \in Command
        BY <2>1, LenProperties, ElementOfSeq, EmptySeq
    <2>4. \A k \in DOMAIN batch : batch[k].kind # "handshake"
        BY BatchesAssumption
    <2>5. m + n <= MaxCommands
        BY DEF Submit
    <2> QED
        BY <2>2, <2>3, <2>4, <2>5
<1>3. /\ DOMAIN posted = 1..n /\ posted \in Seq(Command)
      /\ \A k \in 1..n : posted[k].id = m + k /\ posted[k].owner = batch[k].owner
                         /\ posted[k].kind # "handshake" /\ posted[k] \in Command
    <2>1. \A k \in 1..n : [batch[k] EXCEPT !.id = m + k] \in Command
        BY <1>2 DEF Command
    <2>2. \A k \in 1..n : posted[k].id = m + k /\ posted[k].owner = batch[k].owner
                          /\ posted[k].kind # "handshake"
        BY <1>2 DEF Command
    <2> QED
        BY <1>2, <2>1, <2>2
<1>4. /\ owners \in [1..n -> Owners \union {NoOwner}] /\ owners \in Seq(Owners \union {NoOwner})
      /\ Len(owners) = n /\ \A k \in 1..n : owners[k] = batch[k].owner
    BY <1>2, LenProperties DEF Command
<1> HIDE DEF m, n, owners, posted
<1>5. /\ DOMAIN submitted' = 1..(m + n)
      /\ \A k \in 1..m : submitted'[k] = submitted[k]
      /\ \A k \in 1..n : submitted'[m + k] = owners[k]
    <2>1. submitted \in Seq(Owners \union {NoOwner}) /\ Len(submitted) = m
        BY <1>1 DEF TypeOK, m
    <2>2. /\ submitted \o owners \in Seq(Owners \union {NoOwner})
          /\ Len(submitted \o owners) = Len(submitted) + Len(owners)
          /\ \A k \in 1..(Len(submitted) + Len(owners)) : (submitted \o owners)[k] =
                 IF k <= Len(submitted) THEN submitted[k] ELSE owners[k - Len(submitted)]
        BY <1>4, <2>1, ConcatProperties
    <2>3. /\ Len(submitted \o owners) = m + n
          /\ \A k \in 1..(m + n) : (submitted \o owners)[k] =
                 IF k <= m THEN submitted[k] ELSE owners[k - m]
        BY <1>4, <2>1, <2>2
    <2>4. DOMAIN (submitted \o owners) = 1..(m + n)
        BY <2>2, <2>3, LenProperties
    <2>5. /\ \A k \in 1..m : k \in 1..(m + n) /\ k <= m
          /\ \A k \in 1..n : m + k \in 1..(m + n) /\ ~(m + k <= m) /\ (m + k) - m = k
        BY <1>2
    <2> QED
        BY <1>1, <2>3, <2>4, <2>5
<1>6. DOMAIN submitted \subseteq DOMAIN submitted' /\ Genuine \subseteq Genuine'
    <2>1. DOMAIN submitted \subseteq DOMAIN submitted'
        BY <1>2, <1>5
    <2> QED
        BY <1>2, <1>5, <2>1 DEF Genuine
<1>7. posted \in Seq(Genuine')
    <2>1. \A k \in 1..n : m + k \in DOMAIN submitted'
        BY <1>2, <1>5
    <2>2. \A k \in 1..n : posted[k] \in Genuine'
        BY <1>3, <1>4, <1>5, <2>1 DEF Genuine
    <2>3. posted \in [1..n -> Genuine']
        BY <1>3, <2>2, LenProperties
    <2> QED
        BY <1>2, <2>3
<1>8. Ids(posted) = (m + 1)..(m + n) /\ Once(posted)
    <2>1. ASSUME NEW i \in Ids(posted) PROVE i \in (m + 1)..(m + n)
        <3>1. \E k \in DOMAIN posted : posted[k].id = i
            BY InIds
        <3>2. PICK k \in 1..n : posted[k].id = i
            BY <1>3, <3>1
        <3> QED
            BY <1>2, <1>3, <3>2
    <2>2. ASSUME NEW i \in (m + 1)..(m + n) PROVE i \in Ids(posted)
        <3>1. i - m \in 1..n /\ i # 0 /\ m + (i - m) = i
            BY <1>2
        <3> QED
            BY <1>3, <3>1, InIds
    <2>3. ASSUME NEW j \in 1..n, NEW k \in 1..n, posted[j].id = posted[k].id PROVE j = k
        <3>1. m + j = m + k
            BY <1>3, <2>3
        <3> QED
            BY <1>2, <3>1
    <2> QED
        BY <1>3, <2>1, <2>2, <2>3 DEF Once
<1>9. Posted \subseteq DOMAIN submitted
    <2> SUFFICES ASSUME NEW i \in Posted PROVE i \in DOMAIN submitted
        OBVIOUS
    <2>1. PICK k \in Adds : i \in Ids(inbox[k].batch)
        BY InPosted
    <2>2. inbox[k].batch \in Seq(Genuine)
        BY DEF PromiseInvariant, InboxGenuine
    <2> QED
        BY <2>1, <2>2, GenuineIds
<1>10. Disjoint(Ids(posted), DOMAIN submitted) /\ Disjoint(Ids(posted), Posted)
    BY <1>2, <1>8, <1>9 DEF Disjoint
<1>11. InboxGenuine' /\ Posted' = Posted \union Ids(posted)
    <2>1. call \in Call /\ call.type = "add" /\ call.batch = posted
        BY <1>3, CallTypes
    <2> HIDE DEF call
    <2> QED
        BY <1>1, <1>6, <1>7, <1>8, <1>10, <2>1, InboxGrows DEF PromiseInvariant
<1>12. PromiseInvariant' /\ HandIds' = HandIds
    BY <1>1, <1>6, <1>10, <1>11, PostedStep
<1>13. SessionState' = SessionState /\ SessionState # "closed"
    BY <1>1, SameSession DEF SessionState
<1>14. Fate' = Fate \o [k \in DOMAIN owners |-> "waiting"]
    <2> DEFINE S == {"answered", "waiting", "dropped"}
               waiting == [k \in DOMAIN owners |-> "waiting"]
    <2>1. /\ Fate = [i \in 1..m |-> FateIs(i)] /\ Fate' = [i \in 1..(m + n) |-> FateIs(i)']
          /\ \A i : FateIs(i) \in S /\ FateIs(i)' \in S
        BY <1>1, <1>2, <1>5, FateMeans, FateMeansNext DEF FateIsSo, FateIs
    <2>2. InPlay' = InPlay \union Ids(posted)
        BY <1>1, <1>11, <1>12 DEF InPlay, IsConnected
    <2>3. \A i \in 1..m : FateIs(i)' = FateIs(i)
        BY <1>1, <1>2, <1>10, <2>2 DEF FateIs, Disjoint
    <2>4. \A i \in Ids(posted) : FateIs(i)' = "waiting"
        BY <1>1, <1>10, <2>2 DEF FateIs, Disjoint, PromiseInvariant, OnePlace
    <2>5. /\ Fate \in Seq(S) /\ Fate' \in Seq(S) /\ Len(Fate) = m /\ Len(Fate') = m + n
          /\ waiting \in Seq(S) /\ Len(waiting) = n
          /\ \A i \in 1..m : Fate[i] = FateIs(i)
          /\ \A i \in 1..(m + n) : Fate'[i] = FateIs(i)'
          /\ \A k \in 1..n : waiting[k] = "waiting"
        <3>1. DOMAIN owners = 1..n /\ m + n \in Nat
            BY <1>2, <1>4
        <3>2. /\ Fate \in Seq(S) /\ Fate' \in Seq(S) /\ waiting \in Seq(S)
              /\ DOMAIN Fate = 1..m /\ DOMAIN Fate' = 1..(m + n) /\ DOMAIN waiting = 1..n
            BY <1>2, <2>1, <3>1
        <3> QED
            BY <1>2, <2>1, <3>1, <3>2, LenOfDomain
    <2> HIDE DEF waiting
    <2>6. /\ Fate \o waiting \in Seq(S) /\ Len(Fate \o waiting) = m + n
          /\ \A k \in 1..(m + n) : (Fate \o waiting)[k] =
                 IF k <= m THEN Fate[k] ELSE waiting[k - m]
        <3>1. /\ Fate \o waiting \in Seq(S) /\ Len(Fate \o waiting) = Len(Fate) + Len(waiting)
              /\ \A k \in 1..(Len(Fate) + Len(waiting)) : (Fate \o waiting)[k] =
                     IF k <= Len(Fate) THEN Fate[k] ELSE waiting[k - Len(Fate)]
            BY <2>5, ConcatProperties
        <3> QED
            BY <2>5, <3>1
    <2>7. \A k \in 1..(m + n) : Fate'[k] = (Fate \o waiting)[k]
        <3> SUFFICES ASSUME NEW k \in 1..(m + n) PROVE Fate'[k] = (Fate \o waiting)[k]
            OBVIOUS
        <3>1. CASE k <= m
            <4>1. k \in 1..m
                BY <1>2, <3>1
            <4> QED
                BY <2>3, <2>5, <2>6, <3>1, <4>1
        <3>2. CASE ~(k <= m)
            <4>1. k \in (m + 1)..(m + n) /\ k - m \in 1..n
                BY <1>2, <3>2
            <4> QED
                BY <1>8, <2>4, <2>5, <2>6, <3>2, <4>1
        <3> QED
            BY <3>1, <3>2
    <2> QED
        BY <2>5, <2>6, <2>7, SeqEqual DEF waiting
<1>15. Promise!Post(owners) /\ n \in 1..MaxCommands
    <2>1. Len(submitted) + Len(owners) <= MaxCommands /\ n \in 1..MaxCommands
        BY <1>2, <1>4, BoundsAssumption DEF m
    <2> QED
        BY <1>1, <1>13, <1>14, <2>1 DEF Promise!Post
<1> QED
    BY <1>4, <1>12, <1>15 DEF Promise!Next

LEMMA CallerStep ==
    ASSUME PromiseInvariant, CallerNext
    PROVE  PromiseInvariant' /\ [Promise!Next]_(Promise!vars)
<1>1. /\ ControlInvariant' /\ IsConnected /\ TypeOK /\ TypeOK'
      /\ UNCHANGED <<commands, internalCommands, runningCommands, suspended, thread>>
    BY CallerControl DEF PromiseInvariant, ControlInvariant, queueVars, loopVars
<1>2. ASSUME NEW call \in Call, inbox' = Append(inbox, call), UNCHANGED <<submitted, answered>>,
             destroyed \subseteq destroyed',
             call.type = "cancel" => call.owner \in destroyed',
             call.type = "add" => call.batch = <<HandshakeCommand>>
      PROVE  PromiseInvariant' /\ Fate' = Fate
    <2>1. Genuine' = Genuine
        BY <1>2 DEF Genuine
    <2>2. HandshakeCommand \in Genuine /\ HandshakeCommand.id = 0
        BY HandshakeType DEF Genuine, HandshakeCommand
    <2>3. /\ <<HandshakeCommand>> \in Seq(Genuine') /\ Once(<<HandshakeCommand>>)
          /\ Ids(<<HandshakeCommand>>) = {}
        <3>1. Ids(<<HandshakeCommand>>) = {HandshakeCommand.id} \ {0} /\ Once(<<HandshakeCommand>>)
            BY IdsOfFew
        <3> QED
            BY <2>1, <2>2, <3>1
    <2>4. InboxGenuine' /\ Posted' = Posted
        BY <1>1, <1>2, <2>1, <2>3, InboxGrows DEF PromiseInvariant, Disjoint
    <2>5. Posted' = Posted \union {} /\ Disjoint({}, DOMAIN submitted)
        BY <2>4 DEF Disjoint
    <2>6. PromiseInvariant' /\ HandIds' = HandIds
        BY <1>1, <1>2, <2>1, <2>4, <2>5, PostedStep
    <2> QED
        BY <1>1, <1>2, <2>4, <2>6, FateKept
<1>3. SessionState # "closed"
    BY <1>1 DEF SessionState
<1>4. ASSUME NEW owner \in Owners, DestroyOwner(owner)
      PROVE  PromiseInvariant' /\ [Promise!Next]_(Promise!vars)
    <2> DEFINE call == [type |-> "cancel", owner |-> owner]
    <2>1. /\ call \in Call /\ call.type = "cancel" /\ call.owner = owner
          /\ inbox' = Append(inbox, call) /\ destroyed' = destroyed \union {owner}
          /\ UNCHANGED <<submitted, answered, stoppingTransporter, outbox>>
        BY <1>4, CallTypes DEF DestroyOwner
    <2> HIDE DEF call
    <2>2. PromiseInvariant' /\ Fate' = Fate
        BY <1>2, <2>1
    <2>3. SessionState' = SessionState
        BY <1>1, <2>1, SameSession
    <2>4. Promise!Destroy(owner)
        BY <1>3, <2>1, <2>2, <2>3 DEF Promise!Destroy
    <2> QED
        BY <1>4, <2>2, <2>4 DEF Promise!Next
<1>5. ASSUME Shutdown, UNCHANGED <<submitted, destroyed, answered>>
      PROVE  PromiseInvariant' /\ [Promise!Next]_(Promise!vars)
    <2>1. PromiseInvariant' /\ Fate' = Fate
        BY <1>2, <1>5, CallTypes DEF Shutdown
    <2>2. SessionState' = "closed"
        BY <1>5 DEF Shutdown, SessionState, IsConnected
    <2>3. Promise!Close
        BY <1>3, <1>5, <2>1, <2>2 DEF Promise!Close
    <2> QED
        BY <2>1, <2>3 DEF Promise!Next
<1>6. ASSUME ReceiveSignal, ~Shutdown
      PROVE  PromiseInvariant' /\ [Promise!Next]_(Promise!vars)
    <2>1. /\ UNCHANGED <<submitted, destroyed, answered, stoppingTransporter>>
          /\ outbox # <<>> /\ outbox' = Tail(outbox) /\ Head(outbox) \in {"connected", "pong"}
          /\ \/ inbox' = Append(inbox, [type |-> "add", batch |-> <<HandshakeCommand>>])
             \/ inbox' = Append(inbox, [type |-> "authOk"])
        BY <1>6 DEF ReceiveSignal, HandleSignal
    <2>2. [type |-> "add", batch |-> <<HandshakeCommand>>] \in Call
        <3>1. <<HandshakeCommand>> \in Seq(Command)
            BY HandshakeType
        <3> QED
            BY <3>1, CallTypes
    <2>3. PromiseInvariant' /\ Fate' = Fate
        BY <1>2, <2>1, <2>2, CallTypes
    <2>4. /\ outbox \in Seq(Signal) /\ Len(outbox) \in Nat \ {0} /\ DOMAIN outbox = 1..Len(outbox)
          /\ outbox[1] \in {"connected", "pong"}
          /\ DOMAIN outbox' = 1..(Len(outbox) - 1)
          /\ \A k \in 1..(Len(outbox) - 1) : outbox'[k] = outbox[k + 1]
        <3>1. outbox \in Seq(Signal)
            BY <1>1 DEF TypeOK
        <3>2. Len(outbox) \in Nat \ {0} /\ DOMAIN outbox = 1..Len(outbox)
            BY <2>1, <3>1, EmptySeq, LenProperties
        <3> QED
            BY <2>1, <3>1, <3>2, HeadTailProperties, LenProperties
    <2>5. /\ \A k \in DOMAIN outbox' : k + 1 \in DOMAIN outbox /\ outbox'[k] = outbox[k + 1]
          /\ \A k \in DOMAIN outbox : k = 1 \/ (k - 1 \in DOMAIN outbox' /\ outbox'[k - 1] = outbox[k])
        BY <2>4
    <2>6. Healthy' <=> Healthy
        BY <1>1, <2>1, <2>4, <2>5 DEF Healthy, IsConnected
    <2>7. SessionState' = SessionState
        BY <1>1, <2>1, <2>6 DEF SessionState, IsConnected
    <2>8. UNCHANGED Promise!vars
        BY <2>1, <2>3, <2>7 DEF Promise!vars
    <2> QED
        BY <2>3, <2>8
<1>7. ASSUME ReceiveSignal, Shutdown
      PROVE  PromiseInvariant' /\ [Promise!Next]_(Promise!vars)
    BY <1>5, <1>7 DEF ReceiveSignal
<1>8. CASE Disconnect
    BY <1>5, <1>8 DEF Disconnect
<1> QED
    BY <1>4, <1>6, <1>7, <1>8, SubmitStep DEF CallerNext

-----------------------------------------------------------------------------

LEMMA PromiseStep ==
    PromiseInvariant /\ [Next]_vars => PromiseInvariant' /\ [Promise!Next]_(Promise!vars)
<1> SUFFICES ASSUME PromiseInvariant, [Next]_vars
             PROVE  PromiseInvariant' /\ [Promise!Next]_(Promise!vars)
    OBVIOUS
<1>1. CASE Next
    BY <1>1, CallerStep, ThreadStep, QueueStep, ConnectStep, ReplyStep, ServerStep DEF Next
<1>2. CASE UNCHANGED vars
    <2>1. UNCHANGED <<submitted, destroyed, answered, inbox, commands, internalCommands, suspended,
                      runningCommands, thread, stoppingTransporter, outbox>>
        BY <1>2 DEF vars, callerVars, queueVars, threadVars, loopVars
    <2>2. ControlInvariant'
        BY <1>2, StutterControl DEF PromiseInvariant
    <2>3. InboxGenuine' /\ Posted' = Posted /\ Genuine' = Genuine
        BY <2>1 DEF PromiseInvariant, InboxGenuine, Adds, Posted, Genuine
    <2>4. Posted' = Posted \union {} /\ Disjoint({}, DOMAIN submitted)
        BY <2>3 DEF Disjoint
    <2>5. PromiseInvariant' /\ HandIds' = HandIds
        BY <2>1, <2>2, <2>3, <2>4, PostedStep
    <2>6. Fate' = Fate
        BY <2>1, <2>3, <2>5, FateKept DEF PromiseInvariant, ControlInvariant
    <2>7. UNCHANGED Promise!vars
        BY <2>1, <2>6, SameSession DEF Promise!vars
    <2> QED
        BY <2>5, <2>7
<1> QED
    BY <1>1, <1>2

LEMMA PromiseHolds == Spec => []PromiseInvariant
BY InitPromise, PromiseStep, PTL DEF Spec

\* A command is in one place: the inbox, a queue, the requests under way, the rest
\* of an interrupted executeCmd, or it has been answered and is in none of them
\* (addCommands, processCommandQueue, runCommand, sendResponse).
THEOREM InOnePlace == Spec => []AnsweredOnce
<1>1. PromiseInvariant => AnsweredOnce
    BY AnsweredOnceMeans
<1> QED
    BY <1>1, PromiseHolds, PTL

LEMMA PromiseKept == Spec => Promise!Spec
<1>1. Init => Promise!Init
    <2> SUFFICES ASSUME Init PROVE Promise!Init
        OBVIOUS
    <2>1. Fate = <<>> /\ SessionState = "open"
        BY DEF Init, Fate, SessionState, Healthy, IsConnected
    <2> QED
        BY <2>1 DEF Init, Promise!Init
<1>2. PromiseInvariant /\ [Next]_vars => [Promise!Next]_(Promise!vars)
    BY PromiseStep
<1> QED
    BY <1>1, <1>2, PromiseHolds, PTL DEF Spec, Promise!Spec

\* The transporter implements Calls: every step of its two threads, its nested event
\* loops, its retries and its reconnects is a step of the promise or not seen from
\* outside (the whole of abstracttransporter.cpp and defaulttransporter.cpp).
THEOREM ImplementsPromise == Spec => KeepsPromise
BY PromiseKept DEF KeepsPromise

-----------------------------------------------------------------------------
(* What the promise of Calls comes to for who posts commands. *)

\* The promise of Calls, seen as an invariant.
CallsInvariant == Promise!CallTypes /\ Promise!DroppedForOwner

LEMMA InitCalls == Promise!Init => CallsInvariant
BY DEF Promise!Init, CallsInvariant, Promise!CallTypes, Promise!DroppedForOwner

\* Commands that wait are settled, and nothing else changes.
LEMMA SettleStep ==
    ASSUME Promise!CallTypes, NEW cs \in SUBSET Promise!Waiting,
           NEW end \in {"answered", "dropped"},
           Promise!Settle(cs, end), UNCHANGED submitted
    PROVE  /\ Fate' \in Seq({"waiting", "answered", "dropped"}) /\ Len(Fate') = Len(submitted')
           /\ DOMAIN Fate' = DOMAIN Fate
           /\ \A c \in DOMAIN Fate : Fate'[c] = IF c \in cs THEN end ELSE Fate[c]
           /\ Promise!SettledForGood
<1> DEFINE S == {"waiting", "answered", "dropped"}
<1>1. Fate \in Seq(S) /\ Len(Fate) \in Nat /\ DOMAIN Fate = 1..Len(Fate)
    BY LenProperties DEF Promise!CallTypes
<1>2. /\ Fate' = [c \in 1..Len(Fate) |-> IF c \in cs THEN end ELSE Fate[c]]
      /\ \A c \in 1..Len(Fate) : Fate[c] \in S
    BY <1>1, ElementOfSeq DEF Promise!Settle
<1>3. Fate' \in [1..Len(Fate) -> S]
    BY <1>2
<1>4. Fate' \in Seq(S) /\ Len(Fate') = Len(Fate)
    BY <1>1, <1>3
<1>5. \A c \in cs : Fate[c] = "waiting"
    BY DEF Promise!Waiting
<1> QED
    BY <1>1, <1>2, <1>4, <1>5 DEF Promise!CallTypes, Promise!SettledForGood

\* Commands that are posted come behind the others, and wait.
LEMMA PostStep ==
    ASSUME CallsInvariant, NEW n \in 1..MaxCommands,
           NEW owners \in [1..n -> Owners \union {NoOwner}],
           Promise!Post(owners), MaxCommands \in Nat
    PROVE  CallsInvariant' /\ Promise!SettledForGood
<1> DEFINE S == {"waiting", "answered", "dropped"}
           more == [k \in DOMAIN owners |-> "waiting"]
<1>1. owners \in Seq(Owners \union {NoOwner}) /\ Len(owners) = n /\ n \in Nat
    OBVIOUS
<1>2. more \in [1..n -> S] /\ \A k \in 1..n : more[k] = "waiting"
    OBVIOUS
<1>3. more \in Seq(S) /\ Len(more) = n
    BY <1>1, <1>2
<1>4. Fate \in Seq(S) /\ submitted \in Seq(Owners \union {NoOwner}) /\ Len(Fate) = Len(submitted)
    BY DEF CallsInvariant, Promise!CallTypes
<1>5. /\ submitted' = submitted \o owners /\ Fate' = Fate \o more
      /\ destroyed' = destroyed /\ SessionState' = SessionState
    BY DEF Promise!Post
<1> HIDE DEF more, S
<1>6. /\ submitted' \in Seq(Owners \union {NoOwner}) /\ Len(submitted') = Len(submitted) + n
      /\ \A k \in 1..Len(submitted) : submitted'[k] = submitted[k]
    <2> DEFINE O == Owners \union {NoOwner}
    <2>1. submitted \in Seq(O) /\ owners \in Seq(O) /\ Len(submitted) \in Nat
        BY <1>1, <1>4, LenProperties
    <2> HIDE DEF O
    <2>2. /\ submitted \o owners \in Seq(O)
          /\ Len(submitted \o owners) = Len(submitted) + Len(owners)
          /\ \A k \in 1..Len(submitted) + Len(owners) : (submitted \o owners)[k] =
                 IF k <= Len(submitted) THEN submitted[k] ELSE owners[k - Len(submitted)]
        BY <2>1, ConcatProperties
    <2> QED
        BY <1>1, <1>5, <2>1, <2>2 DEF O
<1>7. /\ Fate' \in Seq(S) /\ Len(Fate') = Len(Fate) + n /\ Len(Fate) \in Nat
      /\ DOMAIN Fate = 1..Len(Fate) /\ DOMAIN Fate' = 1..(Len(Fate) + n)
      /\ \A k \in 1..Len(Fate) : Fate'[k] = Fate[k]
      /\ \A k \in 1..(Len(Fate) + n) :
             k \in 1..Len(Fate) \/ \E j \in 1..n : Fate'[k] = more[j]
    <2>1. /\ Fate \o more \in Seq(S) /\ Len(Fate \o more) = Len(Fate) + Len(more)
          /\ \A k \in 1..Len(Fate) + Len(more) : (Fate \o more)[k] =
                 IF k <= Len(Fate) THEN Fate[k] ELSE more[k - Len(Fate)]
        BY <1>3, <1>4, ConcatProperties
    <2>2. /\ Len(Fate) \in Nat /\ DOMAIN Fate = 1..Len(Fate)
          /\ DOMAIN (Fate \o more) = 1..(Len(Fate) + n)
        BY <1>3, <1>4, <2>1, LenProperties
    <2>3. \A k \in 1..Len(Fate) : (Fate \o more)[k] = Fate[k]
        BY <1>3, <2>1, <2>2
    <2>4. ASSUME NEW k \in 1..(Len(Fate) + n), k \notin 1..Len(Fate)
          PROVE  \E j \in 1..n : (Fate \o more)[k] = more[j]
        <3>1. k - Len(Fate) \in 1..n /\ ~(k <= Len(Fate))
            BY <1>1, <2>2, <2>4
        <3> QED
            BY <1>3, <2>1, <3>1
    <2> QED
        BY <1>3, <1>5, <2>1, <2>2, <2>3, <2>4
<1>8. \A k \in DOMAIN Fate' : k \in 1..Len(Fate) \/ Fate'[k] = "waiting"
    BY <1>2, <1>7
<1>9. Promise!CallTypes'
    BY <1>4, <1>5, <1>6, <1>7 DEF CallsInvariant, Promise!CallTypes, S
<1>10. Promise!DroppedForOwner'
    BY <1>4, <1>5, <1>6, <1>7, <1>8 DEF CallsInvariant, Promise!DroppedForOwner
<1>11. Promise!SettledForGood
    BY <1>1, <1>7 DEF Promise!SettledForGood
<1> QED
    BY <1>9, <1>10, <1>11 DEF CallsInvariant

LEMMA StepCalls ==
    ASSUME MaxCommands \in Nat, CallsInvariant, [Promise!Next]_(Promise!vars)
    PROVE  CallsInvariant' /\ [Promise!SettledForGood]_(Promise!vars)
<1>1. ASSUME NEW n \in 1..MaxCommands, NEW owners \in [1..n -> Owners \union {NoOwner}],
             Promise!Post(owners)
      PROVE  CallsInvariant' /\ Promise!SettledForGood
    BY <1>1, PostStep
<1>2. ASSUME NEW c \in Promise!Waiting, Promise!Answer(c)
      PROVE  CallsInvariant' /\ Promise!SettledForGood
    <2>1. /\ {c} \in SUBSET Promise!Waiting /\ Promise!Settle({c}, "answered")
          /\ UNCHANGED <<submitted, destroyed, SessionState>>
        BY <1>2 DEF Promise!Answer
    <2>2. /\ Fate' \in Seq({"waiting", "answered", "dropped"}) /\ Len(Fate') = Len(submitted')
          /\ DOMAIN Fate' = DOMAIN Fate
          /\ \A d \in DOMAIN Fate : Fate'[d] = IF d \in {c} THEN "answered" ELSE Fate[d]
          /\ Promise!SettledForGood
        BY <2>1, SettleStep DEF CallsInvariant
    <2> QED
        BY <2>1, <2>2 DEF CallsInvariant, Promise!CallTypes, Promise!DroppedForOwner
<1>3. ASSUME NEW cs \in SUBSET Promise!Waiting,
             Promise!Cancel(cs) \/ Promise!Break(cs) \/ Promise!Lose(cs)
      PROVE  CallsInvariant' /\ Promise!SettledForGood
    <2>1. Promise!Settle(cs, "dropped") /\ UNCHANGED <<submitted, destroyed>>
        BY <1>3 DEF Promise!Cancel, Promise!Break, Promise!Lose
    <2>2. /\ Fate' \in Seq({"waiting", "answered", "dropped"}) /\ Len(Fate') = Len(submitted')
          /\ DOMAIN Fate' = DOMAIN Fate
          /\ \A d \in DOMAIN Fate : Fate'[d] = IF d \in cs THEN "dropped" ELSE Fate[d]
          /\ Promise!SettledForGood
        BY <2>1, SettleStep DEF CallsInvariant
    <2>3. Promise!CallTypes'
        BY <1>3, <2>1, <2>2 DEF CallsInvariant, Promise!CallTypes, Promise!Cancel, Promise!Break,
           Promise!Lose
    <2>4. Promise!DroppedForOwner'
        BY <1>3, <2>1, <2>2 DEF CallsInvariant, Promise!DroppedForOwner, Promise!Cancel,
           Promise!Break, Promise!Lose
    <2> QED
        BY <2>2, <2>3, <2>4 DEF CallsInvariant
<1>4. ASSUME NEW o \in Owners, Promise!Destroy(o) PROVE CallsInvariant' /\ Promise!SettledForGood
    BY <1>4 DEF Promise!Destroy, CallsInvariant, Promise!CallTypes, Promise!DroppedForOwner,
       Promise!SettledForGood
<1>5. CASE Promise!Close
    BY <1>5 DEF Promise!Close, CallsInvariant, Promise!CallTypes, Promise!DroppedForOwner,
       Promise!SettledForGood
<1>6. CASE UNCHANGED Promise!vars
    BY <1>6 DEF Promise!vars, CallsInvariant, Promise!CallTypes, Promise!DroppedForOwner
<1> QED
    BY <1>1, <1>2, <1>3, <1>4, <1>5, <1>6 DEF Promise!Next

\* A command of a session has one end: when it was answered or dropped
\* (sendResponse, cancelCommands, errorOccurred), nothing happens to it any more;
\* and while nothing has gone wrong only the destruction of its owner drops it.
THEOREM OneEnd ==
    Spec => []Promise!DroppedForOwner /\ [][Promise!SettledForGood]_(Promise!vars)
<1>1. CallsInvariant /\ [Promise!Next]_(Promise!vars) =>
          CallsInvariant' /\ [Promise!SettledForGood]_(Promise!vars)
    BY StepCalls, BoundsAssumption
<1>2. Promise!Spec => []CallsInvariant
    BY <1>1, InitCalls, PTL DEF Promise!Spec
<1>3. CallsInvariant => Promise!DroppedForOwner
    BY DEF CallsInvariant
<1> QED
    BY <1>1, <1>2, <1>3, PromiseKept, PTL DEF Promise!Spec

\* While the session is well, each command whose owner lives is answered, posted or in
\* hand: neither the diversion through a reconnect in runCommand nor
\* reAddRunningCommandToQueue nor a retry forgets one.
THEOREM NoneForgotten == Spec => []NothingLost
<1>1. Spec => []Promise!DroppedForOwner
    BY OneEnd, PTL
<1>2. TypeOK /\ Promise!DroppedForOwner => NothingLost
    <2> SUFFICES ASSUME TypeOK, Promise!DroppedForOwner, Healthy, NEW id \in DOMAIN submitted,
                        submitted[id] \notin destroyed
                 PROVE  id \in answered \union Posted \union Ids(InHand)
        BY DEF NothingLost
    <2>1. SessionState = "open"
        BY DEF SessionState, Healthy
    <2>2. Fate = [i \in DOMAIN submitted |-> FateIs(i)]
        BY FateMeans DEF FateIsSo
    <2>3. FateIs(id) # "dropped"
        BY <2>1, <2>2 DEF Promise!DroppedForOwner
    <2> QED
        BY <2>3, OnceMeans DEF FateIs, InPlay
<1> QED
    BY <1>1, <1>2, TypeCorrect, PTL

-----------------------------------------------------------------------------
(* The commands of an owner that is gone. *)

\* A set of commands that the handlers do not leave: SELECT, and a pipeline with a
\* reply less to come.
Closed(T) ==
    /\ T \subseteq Command
    /\ \A db \in Nat : SelectCommand(db) \in T
    /\ \A cmd \in T :
           cmd.kind = "pipeline" /\ cmd.arg > 1 => [cmd EXCEPT !.arg = cmd.arg - 1] \in T

\* All that is in hand is in T.
Within(T) ==
    /\ commands \in Seq(T) /\ internalCommands \in Seq(T)
    /\ CommandsOf(runningCommands) \in Seq(T) /\ suspended \in Seq(T)

LEMMA QueuesOf ==
    ASSUME NEW T, T \subseteq Command, NEW s \in Seq(T), NEW t \in Seq(T)
    PROVE  /\ s \in Seq(Command) /\ s \o t \in Seq(T) /\ Reverse(s) \in Seq(T) /\ <<>> \in Seq(T)
           /\ s # <<>> => Head(s) \in T /\ Tail(s) \in Seq(T) /\ <<Head(s)>> \o t \in Seq(T)
           /\ \A I \in SUBSET DOMAIN s : Subsequence(s, I) \in Seq(T)
           /\ Subsequence(s, HiPriority(s)) \in Seq(T) /\ Subsequence(s, LowPriority(s)) \in Seq(T)
           /\ \A owner : WithoutOwner(s, owner) \in Seq(T)
<1>1. s \in Seq(Command)
    BY SeqGrows
<1>2. s \o t \in Seq(T) /\ <<>> \in Seq(T)
    BY ConcatProperties
<1>3. Reverse(s) \in Seq(T)
    BY ReverseElements
<1>4. \A I \in SUBSET DOMAIN s : Subsequence(s, I) \in Seq(T)
    BY SubsequenceElements
<1>5. ASSUME s # <<>> PROVE Head(s) \in T /\ Tail(s) \in Seq(T) /\ <<Head(s)>> \o t \in Seq(T)
    <2>1. Head(s) \in T /\ Tail(s) \in Seq(T)
        BY <1>5, HeadTailProperties
    <2>2. <<Head(s)>> \in Seq(T)
        BY <2>1
    <2> QED
        BY <2>1, <2>2, ConcatProperties
<1>6. HiPriority(s) \in SUBSET DOMAIN s /\ LowPriority(s) \in SUBSET DOMAIN s
      /\ \A owner : DOMAIN s \ OwnedBy(s, owner) \in SUBSET DOMAIN s
    BY DEF HiPriority, LowPriority
<1> QED
    BY <1>1, <1>2, <1>3, <1>4, <1>5, <1>6 DEF WithoutOwner

LEMMA WithSelectWithin ==
    ASSUME NEW T, Closed(T), NEW cmd \in T
    PROVE  WithSelect(cmd) \in Seq(T)
<1>1. cmd.db # NoDb => SelectCommand(cmd.db) \in T
    BY DEF Closed, Command
<1> QED
    BY <1>1 DEF WithSelect

LEMMA RunCommandsWithin ==
    ASSUME TypeOK, NEW T, Closed(T), Within(T), NEW todo \in Seq(T), NEW c \in Seq(T), NEW w,
           RunCommands(todo, c, w), internalCommands' \in Seq(T)
    PROVE  Within(T)'
<1> DEFINE r == CommandsOf(runningCommands)
<1>1. /\ r \in Seq(T) /\ suspended \in Seq(T) /\ T \subseteq Command
      /\ <<>> \in Seq(T) /\ CommandsOf(<<>>) = <<>>
    BY NothingInHand DEF Within, Closed
<1>2. /\ todo \in Seq(Command) /\ r \o todo \in Seq(T)
      /\ todo # <<>> => Tail(todo) \in Seq(T) /\ <<Head(todo)>> \o c \in Seq(T)
    <2>1. todo \in Seq(Command) /\ (todo # <<>> => Tail(todo) \in Seq(T) /\ <<Head(todo)>> \o c \in Seq(T))
        BY <1>1, QueuesOf
    <2>2. r \o todo \in Seq(T)
        BY <1>1, ConcatProperties
    <2> QED
        BY <2>1, <2>2
<1>3. CASE Transmit(todo, c, w)
    <2>1. CommandsOf(runningCommands') = r \o todo
        BY <1>2, <1>3, CommandsOfTransmitted DEF Transmit, TypeOK
    <2>2. commands' = c /\ suspended' \in {<<>>, suspended}
        BY <1>3 DEF Transmit, Return
    <2> QED
        BY <1>1, <1>2, <2>1, <2>2 DEF Within
<1>4. CASE Reconnect(todo, c, w)
    BY <1>1, <1>2, <1>4 DEF Reconnect, Rest, Within
<1>5. CASE Refuse(todo, c, w)
    BY <1>1, <1>5 DEF Refuse, Return, Within
<1>6. CASE Crash(todo, c, w)
    BY <1>1, <1>6 DEF Crash, Within, loopVars
<1> QED
    BY <1>3, <1>4, <1>5, <1>6 DEF RunCommands

LEMMA QueueWithin ==
    ASSUME TypeOK, NEW T, Closed(T), Within(T), QueueNext
    PROVE  Within(T)'
<1>1. /\ commands \in Seq(T) /\ internalCommands \in Seq(T) /\ suspended \in Seq(T)
      /\ CommandsOf(runningCommands) \in Seq(T) /\ T \subseteq Command /\ <<>> \in Seq(T)
    BY DEF Within, Closed
<1>2. CASE QueueIsEmpty \/ Poll
    <2>1. UNCHANGED <<commands, internalCommands, runningCommands>> /\ suspended' \in {<<>>, suspended}
        BY <1>2 DEF QueueIsEmpty, Poll, Return
    <2> QED
        BY <1>1, <2>1 DEF Within
<1>3. CASE RunInternalCommand
    <2>1. /\ internalCommands # <<>> /\ internalCommands' = Tail(internalCommands)
          /\ RunCommands(WithSelect(Head(internalCommands)), commands, OtherWakeups)
        BY <1>3 DEF RunInternalCommand
    <2>2. Head(internalCommands) \in T /\ internalCommands' \in Seq(T)
        BY <1>1, <2>1, QueuesOf
    <2>3. WithSelect(Head(internalCommands)) \in Seq(T)
        BY <2>2, WithSelectWithin
    <2> QED
        BY <1>1, <2>1, <2>2, <2>3, RunCommandsWithin
<1>4. CASE RunNextCommand
    <2>1. /\ commands # <<>> /\ internalCommands' = internalCommands
          /\ RunCommands(WithSelect(Head(commands)), Tail(commands), OtherWakeups)
        BY <1>4 DEF RunNextCommand
    <2>2. Head(commands) \in T /\ Tail(commands) \in Seq(T)
        BY <1>1, <2>1, QueuesOf
    <2>3. WithSelect(Head(commands)) \in Seq(T)
        BY <2>2, WithSelectWithin
    <2> QED
        BY <1>1, <2>1, <2>2, <2>3, RunCommandsWithin
<1>5. CASE Resume
    BY <1>1, <1>5, RunCommandsWithin DEF Resume
<1> QED
    BY <1>2, <1>3, <1>4, <1>5 DEF QueueNext

LEMMA ConnectWithin ==
    ASSUME NEW T, Closed(T), Within(T), ConnectNext
    PROVE  Within(T)'
<1> DEFINE r == CommandsOf(runningCommands)
<1>1. /\ commands \in Seq(T) /\ internalCommands \in Seq(T) /\ suspended \in Seq(T)
      /\ r \in Seq(T) /\ T \subseteq Command /\ <<>> \in Seq(T) /\ CommandsOf(<<>>) = <<>>
    BY NothingInHand DEF Within, Closed
<1>2. CASE ConnectSucceeds \/ ConnectsLate
    BY <1>2 DEF ConnectSucceeds, ConnectsLate, Within, queueVars, loopVars
<1>3. CASE ConnectFails \/ ConnectTimesOut \/ ConnectInterrupted \/ SocketError
    <2>1. UNCHANGED <<commands, internalCommands, suspended>> /\ runningCommands' = <<>>
        BY <1>3 DEF ConnectFails, ConnectTimesOut, ConnectInterrupted, SocketError, ErrorOccurred, loopVars
    <2> QED
        BY <1>1, <2>1 DEF Within
<1>4. CASE UnknownSocketError
    <2> DEFINE hi == Subsequence(r, HiPriority(r))
               lo == Subsequence(r, LowPriority(r))
    <2>1. /\ internalCommands' = Reverse(hi) \o internalCommands /\ commands' = Reverse(lo) \o commands
          /\ suspended' = suspended /\ runningCommands' = <<>>
        BY <1>4 DEF UnknownSocketError
    <2>2. hi \in Seq(T) /\ lo \in Seq(T)
        BY <1>1, QueuesOf
    <2> HIDE DEF hi, lo, r
    <2>3. Reverse(hi) \in Seq(T) /\ Reverse(lo) \in Seq(T)
        BY <1>1, <2>2, QueuesOf
    <2> QED
        BY <1>1, <2>1, <2>3, ConcatProperties DEF Within
<1> QED
    BY <1>2, <1>3, <1>4 DEF ConnectNext

LEMMA ReplyWithin ==
    ASSUME TypeOK, TypeOK', NEW T, Closed(T), Within(T), ReplyNext
    PROVE  Within(T)'
<1> DEFINE r == CommandsOf(runningCommands)
<1>1. /\ commands \in Seq(T) /\ internalCommands \in Seq(T) /\ suspended \in Seq(T)
      /\ r \in Seq(T) /\ T \subseteq Command /\ <<>> \in Seq(T) /\ CommandsOf(<<>>) = <<>>
      /\ runningCommands \in Seq(Request)
    BY NothingInHand DEF Within, Closed, TypeOK
<1>2. internalCommands' = internalCommands /\ suspended' = suspended
    BY DEF ReplyNext, DiscardReply, UnexpectedReply, IntermediateReply, RetryCommand, CompleteCommand,
           queueVars, loopVars
<1>3. CASE DiscardReply \/ UnexpectedReply
    <2>1. commands' = commands /\ runningCommands' \in {<<>>, runningCommands}
        BY <1>3 DEF DiscardReply, UnexpectedReply, ErrorOccurred, queueVars
    <2> QED
        BY <1>1, <1>2, <2>1 DEF Within
<1>4. CASE IntermediateReply
    <2> DEFINE cmd == Head(runningCommands).cmd
    <2>1. commands' = commands /\ runningCommands # <<>>
        BY <1>4 DEF IntermediateReply
    <2>2. CASE cmd.kind # "pipeline"
        <3>1. runningCommands' = runningCommands
            BY <1>4, <2>2 DEF IntermediateReply
        <3> QED
            BY <1>1, <1>2, <2>1, <3>1 DEF Within
    <2>3. CASE cmd.kind = "pipeline"
        <3>1. /\ runningCommands' = [runningCommands EXCEPT ![1].cmd.arg = cmd.arg - 1]
              /\ cmd.arg > 1
            BY <1>4, <2>3 DEF IntermediateReply, Intermediate
        <3>2. /\ runningCommands' \in Seq(Request)
              /\ 1 \in DOMAIN runningCommands /\ Head(runningCommands) = runningCommands[1]
              /\ \A k \in DOMAIN runningCommands : runningCommands[k] \in Request
            BY <1>1, <2>1, TailFacts, SeqFacts DEF TypeOK
        <3>3. /\ r' \in Seq(Command) /\ DOMAIN r' = DOMAIN runningCommands /\ DOMAIN r = DOMAIN runningCommands
              /\ r[1] = cmd /\ r'[1] = [cmd EXCEPT !.arg = cmd.arg - 1]
              /\ \A k \in DOMAIN r : k # 1 => r'[k] = r[k]
            <4>1. r' \in Seq(Command) /\ r \in Seq(Command)
                BY <1>1, <3>2, CommandsOfType
            <4>2. DOMAIN runningCommands' = DOMAIN runningCommands
                BY <3>1
            <4>3. /\ runningCommands'[1].cmd = [cmd EXCEPT !.arg = cmd.arg - 1]
                  /\ \A k \in DOMAIN runningCommands : k # 1 => runningCommands'[k] = runningCommands[k]
                BY <3>1, <3>2 DEF Request
            <4> QED
                BY <3>2, <4>1, <4>2, <4>3 DEF CommandsOf
        <3>4. \A k \in DOMAIN r : r[k] \in T
            BY <1>1, SeqFacts
        <3>5. r'[1] \in T
            BY <2>3, <3>1, <3>2, <3>3, <3>4 DEF Closed
        <3> HIDE DEF r, cmd
        <3>6. \A k \in DOMAIN r' : r'[k] \in T
            BY <3>3, <3>4, <3>5
        <3>7. r' \in Seq(T)
            <4>1. DOMAIN r' = 1..Len(r') /\ Len(r') \in Nat /\ r' \in [1..Len(r') -> Command]
                BY <3>3, LenProperties
            <4> QED
                BY <3>6, <4>1
        <3> QED
            BY <1>1, <1>2, <2>1, <3>7 DEF Within, r
    <2> QED
        BY <2>2, <2>3
<1>5. CASE RetryCommand \/ CompleteCommand
    <2>1. runningCommands # <<>> /\ runningCommands' = Tail(runningCommands)
        BY <1>5 DEF RetryCommand, CompleteCommand, FinalReply, Dequeue
    <2>2. r # <<>> /\ Head(r) = Head(runningCommands).cmd /\ CommandsOf(runningCommands') = Tail(r)
        BY <1>1, <2>1, CommandsOfRunning
    <2>3. commands' = commands \/ commands' = <<Head(r)>> \o commands
        BY <1>5, <2>2 DEF RetryCommand, CompleteCommand
    <2> HIDE DEF r
    <2>4. Tail(r) \in Seq(T) /\ <<Head(r)>> \o commands \in Seq(T)
        BY <1>1, <2>2, QueuesOf
    <2> QED
        BY <1>1, <1>2, <2>2, <2>3, <2>4 DEF Within
<1> QED
    BY <1>3, <1>4, <1>5 DEF ReplyNext

\* Whatever a handler does with its queues, what is in hand stays in T.
LEMMA WithinStep ==
    ASSUME ControlInvariant, ControlInvariant', NEW T, Closed(T), Within(T), [Next]_vars,
           AddCommands => Head(inbox).batch \in Seq(T)
    PROVE  Within(T)'
<1> DEFINE r == CommandsOf(runningCommands)
<1>1. /\ commands \in Seq(T) /\ internalCommands \in Seq(T) /\ suspended \in Seq(T)
      /\ r \in Seq(T) /\ T \subseteq Command /\ <<>> \in Seq(T) /\ CommandsOf(<<>>) = <<>>
      /\ runningCommands \in Seq(Request) /\ TypeOK /\ TypeOK'
    <2>1. TypeOK /\ TypeOK'
        BY DEF ControlInvariant
    <2>2. runningCommands \in Seq(Request)
        BY <2>1 DEF TypeOK
    <2>3. /\ commands \in Seq(T) /\ internalCommands \in Seq(T) /\ suspended \in Seq(T)
          /\ r \in Seq(T) /\ T \subseteq Command
        BY DEF Within, Closed
    <2>4. <<>> \in Seq(T) /\ CommandsOf(<<>>) = <<>>
        BY NothingInHand
    <2> HIDE DEF r
    <2> QED
        BY <2>1, <2>2, <2>3, <2>4
<1>2. ASSUME UNCHANGED <<commands, internalCommands, runningCommands, suspended>> PROVE Within(T)'
    BY <1>2 DEF Within
<1>3. CASE CallerNext
    BY <1>2, <1>3 DEF CallerNext, Submit, DestroyOwner, Disconnect, ReceiveSignal, queueVars, loopVars
<1>4. CASE TransporterInit \/ AuthOk \/ UNCHANGED vars
    BY <1>2, <1>4 DEF TransporterInit, AuthOk, vars, queueVars, loopVars
<1>5. CASE ServerNext
    BY <1>2, <1>5 DEF ServerNext, ServerExecutes, ServerProtocolError, ServerRefusesSelect,
                      ServerAbortsTransaction, ServerErrorState, Respond, queueVars, loopVars
<1>6. CASE Quit \/ ShutdownStart
    BY <1>1, <1>6 DEF Quit, ShutdownStart, DisconnectFromHost, loopVars, Within
<1>7. CASE AddCommands
    <2> DEFINE batch == Head(inbox).batch
               hi == Subsequence(batch, HiPriority(batch))
               lo == Subsequence(batch, LowPriority(batch))
    <2>1. /\ internalCommands' = internalCommands \o hi /\ commands' = commands \o lo
          /\ suspended' = suspended /\ runningCommands' = runningCommands
        BY <1>7 DEF AddCommands, Enqueue, loopVars
    <2>2. batch \in Seq(T)
        BY <1>7
    <2> HIDE DEF batch
    <2>3. hi \in Seq(T) /\ lo \in Seq(T)
        BY <1>1, <2>2, QueuesOf
    <2> HIDE DEF hi, lo
    <2> QED
        BY <1>1, <2>1, <2>3, ConcatProperties DEF Within
<1>8. CASE CancelCommands
    <2> DEFINE owner == Head(inbox).owner
               I == DOMAIN r \ OwnedBy(r, owner)
    <2>1. /\ commands' = WithoutOwner(commands, owner) /\ internalCommands' = internalCommands
          /\ runningCommands' = Subsequence(runningCommands, I) /\ suspended' = suspended
        BY <1>8 DEF CancelCommands, loopVars
    <2>2. I \in SUBSET DOMAIN r /\ I \in SUBSET DOMAIN runningCommands
        BY <1>1, CommandsOfType
    <2> HIDE DEF I
    <2>3. CommandsOf(runningCommands') = Subsequence(r, I)
        BY <1>1, <2>1, <2>2, CommandsOfRunning
    <2> HIDE DEF r
    <2>4. Subsequence(r, I) \in Seq(T) /\ WithoutOwner(commands, owner) \in Seq(T)
        BY <1>1, <2>2, QueuesOf
    <2> QED
        BY <1>1, <2>1, <2>3, <2>4 DEF Within
<1> QED
    BY <1>1, <1>3, <1>4, <1>5, <1>6, <1>7, <1>8, QueueWithin, ConnectWithin, ReplyWithin
    DEF Next, InboxNext

-----------------------------------------------------------------------------

\* Nothing ends the connection but the session itself.
NoReconnect == Faults \intersect {"closed", "connectFail", "unknown"} = {}

\* What may belong to an owner: it goes to m_commands, and no reconnect finds it
\* behind its SELECT.
TameCommand ==
    {cmd \in Command : cmd.owner # NoOwner => ~cmd.hi /\ (NoReconnect \/ cmd.db = NoDb)}
Unowned == {cmd \in Command : cmd.owner = NoOwner}
NotOf(owner) == {cmd \in Command : cmd.owner # owner}

\* Every owned command of the users is one of those.
OwnedAreTame == \A b \in Batches : b \in Seq(TameCommand)

LEMMA SubsequenceInto ==
    ASSUME NEW S, NEW T, NEW s \in Seq(S), NEW I \in SUBSET DOMAIN s, \A k \in I : s[k] \in T
    PROVE  Subsequence(s, I) \in Seq(T)
<1> DEFINE t == Subsequence(s, I)
<1>1. t \in Seq(S) /\ \A k \in DOMAIN t : \E i \in I : t[k] = s[i]
    BY SubsequenceElements
<1> HIDE DEF t
<1>2. /\ Len(t) \in Nat /\ t \in [1..Len(t) -> S] /\ DOMAIN t = 1..Len(t)
      /\ \A k \in DOMAIN t : t[k] \in T
    BY <1>1, LenProperties
<1>3. t \in Seq(T)
    BY <1>2
<1> QED
    BY <1>3 DEF t

\* The cancel of an owner that is gone is still in the inbox, behind the k-th call.
CancelBehind(k, owner) ==
    \E j \in DOMAIN inbox : j > k /\ inbox[j] = [type |-> "cancel", owner |-> owner]

\* Nothing owned is in m_internalCommands or has been interrupted.
NoneInside ==
    /\ internalCommands \in Seq(Unowned) /\ suspended \in Seq(Unowned)
    /\ NoReconnect => socket # "unconnected"
InboxTame == \A k \in Adds : inbox[k].batch \in Seq(TameCommand)
AddsBeforeCancel ==
    \A k \in Adds : \A owner \in destroyed : CancelBehind(k, owner) \/ inbox[k].batch \in Seq(NotOf(owner))
GoneOrPending == \A owner \in destroyed : CancelBehind(0, owner) \/ Within(NotOf(owner))

LeaveInvariant ==
    /\ ControlInvariant
    /\ Within(TameCommand) /\ InboxTame
    /\ NoneInside /\ AddsBeforeCancel /\ GoneOrPending

LEMMA ClosedSets == Closed(TameCommand) /\ \A owner \in Owners : Closed(NotOf(owner))
<1>1. \A db \in Nat : SelectCommand(db) \in Command /\ SelectCommand(db).owner = NoOwner
    BY SelectType DEF SelectCommand
<1>2. ASSUME NEW cmd \in Command, cmd.arg > 1, NEW less, less = [cmd EXCEPT !.arg = cmd.arg - 1]
      PROVE  less \in Command /\ less.owner = cmd.owner /\ less.hi = cmd.hi /\ less.db = cmd.db
    BY <1>2 DEF Command
<1>3. Closed(TameCommand)
    BY <1>1, <1>2 DEF Closed, TameCommand
<1>4. ASSUME NEW owner \in Owners PROVE Closed(NotOf(owner))
    BY <1>1, <1>2, OwnersAssumption DEF Closed, NotOf
<1> QED
    BY <1>3, <1>4

LEMMA UnownedSets ==
    /\ Unowned \subseteq Command /\ TameCommand \subseteq Command
    /\ \A owner \in Owners : Unowned \subseteq NotOf(owner) /\ NotOf(owner) \subseteq Command
BY OwnersAssumption DEF Unowned, TameCommand, NotOf

LEMMA LeaveMeans == LeaveInvariant => CancelledOwnersLeave
<1> SUFFICES ASSUME LeaveInvariant, NEW owner \in destroyed,
                    \A k \in DOMAIN inbox : inbox[k] # [type |-> "cancel", owner |-> owner]
             PROVE  OwnedBy(InHand, owner) = {}
    BY DEF CancelledOwnersLeave
<1>1. Within(NotOf(owner))
    BY DEF LeaveInvariant, GoneOrPending, CancelBehind
<1>2. InHand \in Seq(NotOf(owner))
    BY <1>1, ConcatProperties DEF Within, InHand
<1>3. \A k \in DOMAIN InHand : InHand[k] \in NotOf(owner)
    BY <1>2, SeqFacts
<1> QED
    BY <1>3 DEF OwnedBy, NotOf

LEMMA InitLeave == Init => LeaveInvariant
<1> SUFFICES ASSUME Init PROVE LeaveInvariant
    OBVIOUS
<1>1. /\ commands = <<>> /\ internalCommands = <<>> /\ suspended = <<>> /\ inbox = <<>> /\ destroyed = {}
      /\ CommandsOf(runningCommands) = <<>> /\ socket = "null"
    BY NothingInHand DEF Init
<1> QED
    BY <1>1, InitControl
    DEF LeaveInvariant, Within, InboxTame, NoneInside, AddsBeforeCancel, GoneOrPending, Adds

LEMMA LeaveTypes ==
    ASSUME LeaveInvariant
    PROVE  /\ TypeOK /\ inbox \in Seq(Call) /\ Len(inbox) \in Nat /\ DOMAIN inbox = 1..Len(inbox)
           /\ \A k \in Adds : k \in DOMAIN inbox /\ inbox[k].type = "add"
           /\ destroyed \subseteq Owners
<1>1. TypeOK
    BY DEF LeaveInvariant, ControlInvariant
<1> QED
    BY <1>1, SeqFacts DEF TypeOK, Adds

\* A call is posted behind those that are there.
LEMMA PostLeave ==
    ASSUME LeaveInvariant, NEW call \in Call, inbox' = Append(inbox, call),
           call.type = "add" => /\ call.batch \in Seq(TameCommand)
                                /\ \A owner \in destroyed : call.batch \in Seq(NotOf(owner)),
           destroyed' \subseteq destroyed \union (IF call.type = "cancel" THEN {call.owner} ELSE {}),
           destroyed \subseteq destroyed',
           UNCHANGED <<commands, internalCommands, runningCommands, suspended, socket>>
    PROVE  /\ Within(TameCommand)' /\ InboxTame'
           /\ NoneInside' /\ AddsBeforeCancel' /\ GoneOrPending'
<1>1. /\ DOMAIN inbox = 1..Len(inbox) /\ Len(inbox) \in Nat /\ DOMAIN inbox' = 1..(Len(inbox) + 1)
      /\ \A k \in DOMAIN inbox : inbox'[k] = inbox[k]
      /\ inbox'[Len(inbox) + 1] = call
    BY LeaveTypes, AppendFacts
<1>2. Within(TameCommand)' /\ NoneInside' /\ \A owner : Within(NotOf(owner)) => Within(NotOf(owner))'
    BY DEF LeaveInvariant, Within, NoneInside, NotOf
<1>3. \A k \in Adds' : (k \in Adds /\ inbox'[k] = inbox[k]) \/ (k = Len(inbox) + 1 /\ inbox'[k] = call /\ call.type = "add")
    BY <1>1 DEF Adds
<1>4. \A k, owner : CancelBehind(k, owner) => CancelBehind(k, owner)'
    BY <1>1 DEF CancelBehind
<1>5. \A owner \in destroyed' : owner \in destroyed \/ (call.type = "cancel" /\ call.owner = owner)
    OBVIOUS
<1>6. call.type = "cancel" => call = [type |-> "cancel", owner |-> call.owner]
    BY CallTypes DEF Call
<1>7. ASSUME NEW owner \in destroyed', owner \notin destroyed
      PROVE  call.type = "cancel" /\ \A k \in 0..Len(inbox) : CancelBehind(k, owner)'
    <2>1. call = [type |-> "cancel", owner |-> owner]
        BY <1>5, <1>6, <1>7
    <2>2. Len(inbox) + 1 \in DOMAIN inbox' /\ \A k \in 0..Len(inbox) : Len(inbox) + 1 > k
        BY <1>1
    <2> QED
        BY <1>1, <2>1, <2>2 DEF CancelBehind
<1>8. InboxTame'
    BY <1>3 DEF LeaveInvariant, InboxTame
<1>9. AddsBeforeCancel'
    <2> SUFFICES ASSUME NEW k \in Adds', NEW owner \in destroyed'
                 PROVE  CancelBehind(k, owner)' \/ inbox'[k].batch \in Seq(NotOf(owner))
        BY DEF AddsBeforeCancel, NotOf
    <2>1. CASE owner \notin destroyed
        <3>1. k \in 0..Len(inbox)
            BY <1>1, <1>3, <1>7, <2>1 DEF Adds
        <3> QED
            BY <1>7, <2>1, <3>1
    <2>2. CASE owner \in destroyed
        BY <1>3, <1>4, <2>2 DEF LeaveInvariant, AddsBeforeCancel
    <2> QED
        BY <2>1, <2>2
<1>10. GoneOrPending'
    <2> SUFFICES ASSUME NEW owner \in destroyed' PROVE CancelBehind(0, owner)' \/ Within(NotOf(owner))'
        BY DEF GoneOrPending
    <2>1. 0 \in 0..Len(inbox)
        BY <1>1
    <2> QED
        BY <1>2, <1>4, <1>7, <2>1 DEF LeaveInvariant, GoneOrPending
<1> QED
    BY <1>2, <1>8, <1>9, <1>10

LEMMA CallerLeave ==
    ASSUME OwnedAreTame, LeaveInvariant, CallerNext
    PROVE  /\ Within(TameCommand)' /\ InboxTame'
           /\ NoneInside' /\ AddsBeforeCancel' /\ GoneOrPending'
<1>1. UNCHANGED <<commands, internalCommands, runningCommands, suspended, socket>>
    BY DEF CallerNext, Submit, DestroyOwner, Disconnect, ReceiveSignal, queueVars, loopVars, netVars
<1>2. ASSUME NEW batch \in Batches, Submit(batch)
      PROVE  \E call \in Call : /\ inbox' = Append(inbox, call) /\ call.type = "add"
                                /\ call.batch \in Seq(TameCommand)
                                /\ \A owner \in destroyed : call.batch \in Seq(NotOf(owner))
                                /\ destroyed' = destroyed
    <2> DEFINE posted == [k \in DOMAIN batch |-> [batch[k] EXCEPT !.id = Len(submitted) + k]]
    <2>1. /\ batch \in Seq(TameCommand) /\ Len(batch) \in Nat /\ DOMAIN batch = 1..Len(batch)
          /\ \A k \in 1..Len(batch) : batch[k] \in TameCommand
        BY SeqFacts DEF OwnedAreTame
    <2>2. Len(submitted) \in Nat
        BY LeaveTypes, LenProperties DEF TypeOK
    <2>3. ASSUME NEW k \in 1..Len(batch), NEW cmd, cmd = [batch[k] EXCEPT !.id = Len(submitted) + k]
          PROVE  cmd \in TameCommand /\ cmd.owner = batch[k].owner
        <3>1. batch[k] \in Command
              /\ (batch[k].owner # NoOwner => ~batch[k].hi /\ (NoReconnect \/ batch[k].db = NoDb))
            BY <2>1, <2>3 DEF TameCommand
        <3>2. cmd \in Command /\ cmd.owner = batch[k].owner /\ cmd.hi = batch[k].hi /\ cmd.db = batch[k].db
            BY <2>2, <2>3, <3>1 DEF Command
        <3> QED
            BY <3>1, <3>2 DEF TameCommand
    <2>4. posted \in Seq(TameCommand)
        <3>1. \A k \in 1..Len(batch) : posted[k] \in TameCommand
            BY <2>1, <2>3
        <3> QED
            BY <2>1, <3>1
    <2>5. ASSUME NEW owner \in destroyed PROVE posted \in Seq(NotOf(owner))
        <3>1. \A k \in 1..Len(batch) : batch[k].owner \notin destroyed
            BY <1>2, <2>1 DEF Submit
        <3>2. \A k \in 1..Len(batch) : posted[k] \in NotOf(owner)
            BY <2>1, <2>3, <3>1, UnownedSets DEF NotOf
        <3> QED
            BY <2>1, <3>2
    <2>6. inbox' = Append(inbox, [type |-> "add", batch |-> posted]) /\ destroyed' = destroyed
        BY <1>2 DEF Submit
    <2> HIDE DEF posted
    <2>7. posted \in Seq(Command)
        BY <2>4, UnownedSets, SeqGrows
    <2> QED
        BY <2>4, <2>5, <2>6, <2>7, CallTypes
<1>3. ASSUME NEW batch \in Batches, Submit(batch)
      PROVE  /\ Within(TameCommand)' /\ InboxTame'
             /\ NoneInside' /\ AddsBeforeCancel' /\ GoneOrPending'
    BY <1>1, <1>2, <1>3, PostLeave
<1>4. ASSUME NEW owner \in Owners, DestroyOwner(owner)
      PROVE  /\ Within(TameCommand)' /\ InboxTame'
             /\ NoneInside' /\ AddsBeforeCancel' /\ GoneOrPending'
    <2> DEFINE call == [type |-> "cancel", owner |-> owner]
    <2>1. /\ call \in Call /\ call.type = "cancel" /\ call.owner = owner
          /\ inbox' = Append(inbox, call) /\ destroyed' = destroyed \union {owner}
        BY <1>4, CallTypes DEF DestroyOwner
    <2> HIDE DEF call
    <2> QED
        BY <1>1, <2>1, PostLeave
<1>5. ASSUME NEW call \in Call, inbox' = Append(inbox, call), call.type \in {"shutdown", "authOk"},
             destroyed' = destroyed
      PROVE  /\ Within(TameCommand)' /\ InboxTame'
             /\ NoneInside' /\ AddsBeforeCancel' /\ GoneOrPending'
    BY <1>1, <1>5, PostLeave
<1>6. CASE Disconnect \/ (ReceiveSignal /\ Shutdown)
    <2>1. inbox' = Append(inbox, [type |-> "shutdown"]) /\ destroyed' = destroyed
        BY <1>6 DEF Disconnect, ReceiveSignal, Shutdown
    <2> QED
        BY <1>5, <2>1, CallTypes
<1>7. CASE ReceiveSignal /\ ~Shutdown
    <2>1. destroyed' = destroyed
        BY <1>7 DEF ReceiveSignal
    <2>2. CASE inbox' = Append(inbox, [type |-> "authOk"])
        BY <1>5, <2>1, <2>2, CallTypes
    <2>3. CASE inbox' = Append(inbox, [type |-> "add", batch |-> <<HandshakeCommand>>])
        <3> DEFINE call == [type |-> "add", batch |-> <<HandshakeCommand>>]
        <3>1. HandshakeCommand \in TameCommand /\ \A owner \in Owners : HandshakeCommand \in NotOf(owner)
            BY HandshakeType, OwnersAssumption DEF HandshakeCommand, TameCommand, NotOf
        <3>2. <<HandshakeCommand>> \in Seq(TameCommand)
              /\ \A owner \in destroyed : <<HandshakeCommand>> \in Seq(NotOf(owner))
            BY <3>1, LeaveTypes
        <3>3. <<HandshakeCommand>> \in Seq(Command)
            BY HandshakeType
        <3>4. call \in Call /\ call.type = "add" /\ call.batch = <<HandshakeCommand>>
            BY <3>3, CallTypes
        <3> HIDE DEF call
        <3>5. /\ call.batch \in Seq(TameCommand)
              /\ \A owner \in destroyed : call.batch \in Seq(NotOf(owner))
            BY <3>2, <3>4
        <3>6. inbox' = Append(inbox, call)
            BY <2>3 DEF call
        <3> QED
            BY <1>1, <2>1, <3>4, <3>5, <3>6, PostLeave
    <2> QED
        BY <1>7, <2>2, <2>3 DEF ReceiveSignal, HandleSignal
<1> QED
    BY <1>3, <1>4, <1>6, <1>7 DEF CallerNext

LEMMA TakeLeave ==
    ASSUME LeaveInvariant, inbox # <<>>, inbox' = Tail(inbox), destroyed' = destroyed
    PROVE  /\ InboxTame' /\ AddsBeforeCancel'
           /\ 1 \in DOMAIN inbox /\ Head(inbox) = inbox[1]
           /\ \A owner : CancelBehind(1, owner) => CancelBehind(0, owner)'
           /\ \A owner : CancelBehind(0, owner) /\ inbox[1] # [type |-> "cancel", owner |-> owner]
                            => CancelBehind(0, owner)'
<1>1. /\ 1 \in DOMAIN inbox /\ Head(inbox) = inbox[1] /\ DOMAIN inbox = 1..Len(inbox)
      /\ Len(inbox) \in Nat /\ DOMAIN inbox' = 1..(Len(inbox) - 1)
      /\ \A k \in DOMAIN inbox' : k + 1 \in DOMAIN inbox /\ inbox'[k] = inbox[k + 1]
    BY LeaveTypes, TailFacts
<1>2. \A j \in DOMAIN inbox : j # 1 => j - 1 \in DOMAIN inbox' /\ inbox'[j - 1] = inbox[j]
    BY <1>1
<1>3. ASSUME NEW k \in Nat, NEW owner, CancelBehind(k + 1, owner) PROVE CancelBehind(k, owner)'
    <2>1. PICK j \in DOMAIN inbox : j > k + 1 /\ inbox[j] = [type |-> "cancel", owner |-> owner]
        BY <1>3 DEF CancelBehind
    <2>2. j - 1 \in DOMAIN inbox' /\ inbox'[j - 1] = inbox[j] /\ j - 1 > k
        BY <1>1, <1>2, <2>1
    <2> QED
        BY <2>1, <2>2 DEF CancelBehind
<1>4. \A owner : CancelBehind(1, owner) => CancelBehind(0, owner)'
    <2>1. 0 \in Nat /\ 0 + 1 = 1
        OBVIOUS
    <2> QED
        BY <1>3, <2>1
<1>5. ASSUME NEW owner, CancelBehind(0, owner), inbox[1] # [type |-> "cancel", owner |-> owner]
      PROVE  CancelBehind(1, owner)
    BY <1>1, <1>5 DEF CancelBehind
<1>6. \A k \in Adds' : k \in Nat /\ k + 1 \in Adds /\ inbox'[k] = inbox[k + 1]
    BY <1>1 DEF Adds
<1>7. InboxTame'
    BY <1>6 DEF LeaveInvariant, InboxTame
<1>8. AddsBeforeCancel'
    <2> SUFFICES ASSUME NEW k \in Adds', NEW owner \in destroyed
                 PROVE  CancelBehind(k, owner)' \/ inbox'[k].batch \in Seq(NotOf(owner))
        BY DEF AddsBeforeCancel, NotOf
    <2>1. CancelBehind(k + 1, owner) \/ inbox[k + 1].batch \in Seq(NotOf(owner))
        BY <1>6 DEF LeaveInvariant, AddsBeforeCancel
    <2> QED
        BY <1>3, <1>6, <2>1
<1> QED
    BY <1>1, <1>4, <1>5, <1>7, <1>8

\* A step that leaves the inbox alone.
LEMMA QuietLeave ==
    ASSUME LeaveInvariant, ControlInvariant', [Next]_vars, UNCHANGED <<inbox, destroyed>>, ~AddCommands
    PROVE  /\ Within(TameCommand)' /\ InboxTame' /\ AddsBeforeCancel' /\ GoneOrPending'
<1>1. Within(TameCommand)' /\ \A owner \in Owners : Within(NotOf(owner)) => Within(NotOf(owner))'
    <2>1. ControlInvariant /\ Within(TameCommand)
        BY DEF LeaveInvariant
    <2>2. Within(TameCommand)'
        BY <2>1, ClosedSets, WithinStep
    <2>3. ASSUME NEW owner \in Owners, NEW T, T = NotOf(owner), Within(T) PROVE Within(T)'
        BY <2>1, <2>3, ClosedSets, WithinStep
    <2> QED
        BY <2>2, <2>3 DEF NotOf
<1>2. InboxTame' /\ AddsBeforeCancel'
    BY DEF LeaveInvariant, InboxTame, AddsBeforeCancel, CancelBehind, Adds, NotOf
<1>3. GoneOrPending'
    <2> SUFFICES ASSUME NEW owner \in destroyed PROVE CancelBehind(0, owner)' \/ Within(NotOf(owner))'
        BY DEF GoneOrPending
    <2>1. CancelBehind(0, owner) => CancelBehind(0, owner)'
        BY DEF CancelBehind
    <2>2. CancelBehind(0, owner) \/ Within(NotOf(owner))
        BY DEF LeaveInvariant, GoneOrPending
    <2> QED
        BY <1>1, <2>1, <2>2, LeaveTypes
<1> QED
    BY <1>1, <1>2, <1>3

LEMMA AddLeave ==
    ASSUME LeaveInvariant, ControlInvariant', AddCommands
    PROVE  /\ Within(TameCommand)' /\ InboxTame'
           /\ NoneInside' /\ AddsBeforeCancel' /\ GoneOrPending'
<1> DEFINE batch == Head(inbox).batch
           hi == Subsequence(batch, HiPriority(batch))
<1>1. /\ inbox # <<>> /\ inbox' = Tail(inbox) /\ destroyed' = destroyed /\ Head(inbox).type = "add"
      /\ UNCHANGED <<suspended, socket>> /\ internalCommands' = internalCommands \o hi /\ [Next]_vars
    BY DEF AddCommands, Receive, Enqueue, callerVars, loopVars, netVars, Next, InboxNext
<1>2. /\ InboxTame' /\ AddsBeforeCancel' /\ 1 \in Adds /\ Head(inbox) = inbox[1]
      /\ \A owner : CancelBehind(1, owner) => CancelBehind(0, owner)'
      /\ \A owner : CancelBehind(0, owner) => CancelBehind(0, owner)'
    BY <1>1, TakeLeave DEF Adds
<1>3. batch \in Seq(TameCommand)
    BY <1>2 DEF LeaveInvariant, InboxTame
<1>4. Within(TameCommand)'
    BY <1>1, <1>3, ClosedSets, WithinStep DEF LeaveInvariant
<1>5. NoneInside'
    <2>1. hi \in Seq(Unowned)
        <3> HIDE DEF batch
        <3>1. /\ Len(batch) \in Nat /\ DOMAIN batch = 1..Len(batch)
              /\ \A k \in DOMAIN batch : batch[k] \in TameCommand
            BY <1>3, SeqFacts
        <3>2. HiPriority(batch) \in SUBSET DOMAIN batch
              /\ \A k \in HiPriority(batch) : batch[k] \in Unowned
            BY <3>1 DEF HiPriority, TameCommand, Unowned
        <3> QED
            BY <1>3, <3>2, SubsequenceInto
    <2> HIDE DEF hi
    <2> QED
        BY <1>1, <2>1, ConcatProperties DEF LeaveInvariant, NoneInside
<1>6. GoneOrPending'
    <2> SUFFICES ASSUME NEW owner \in destroyed PROVE CancelBehind(0, owner)' \/ Within(NotOf(owner))'
        BY <1>1 DEF GoneOrPending
    <2>1. CASE CancelBehind(0, owner) \/ CancelBehind(1, owner)
        BY <1>2, <2>1
    <2>2. CASE ~CancelBehind(0, owner) /\ ~CancelBehind(1, owner)
        <3>1. Within(NotOf(owner)) /\ batch \in Seq(NotOf(owner))
            BY <1>2, <2>2 DEF LeaveInvariant, GoneOrPending, AddsBeforeCancel
        <3>2. Closed(NotOf(owner))
            BY ClosedSets, LeaveTypes
        <3>3. ASSUME NEW T, T = NotOf(owner) PROVE Within(T)'
            BY <1>1, <3>1, <3>2, <3>3, WithinStep DEF LeaveInvariant
        <3> QED
            BY <3>3 DEF NotOf
    <2> QED
        BY <2>1, <2>2
<1> QED
    BY <1>2, <1>4, <1>5, <1>6

\* cancelCommands leaves nothing of its owner in the queues it goes through, and the
\* others have nothing of it.
LEMMA CancelLeave ==
    ASSUME LeaveInvariant, ControlInvariant', CancelCommands
    PROVE  /\ Within(TameCommand)' /\ InboxTame'
           /\ NoneInside' /\ AddsBeforeCancel' /\ GoneOrPending'
<1> DEFINE gone == Head(inbox).owner
           r == CommandsOf(runningCommands)
           I == DOMAIN r \ OwnedBy(r, gone)
<1>1. /\ inbox # <<>> /\ inbox' = Tail(inbox) /\ destroyed' = destroyed /\ Head(inbox).type = "cancel"
      /\ UNCHANGED <<suspended, socket, internalCommands>> /\ commands' = WithoutOwner(commands, gone)
      /\ runningCommands' = Subsequence(runningCommands, I) /\ [Next]_vars /\ ~AddCommands
    BY DEF CancelCommands, AddCommands, Receive, callerVars, loopVars, netVars, Next, InboxNext
<1>2. /\ InboxTame' /\ AddsBeforeCancel' /\ 1 \in DOMAIN inbox /\ Head(inbox) = inbox[1]
      /\ \A owner : CancelBehind(0, owner) /\ inbox[1] # [type |-> "cancel", owner |-> owner]
                       => CancelBehind(0, owner)'
    BY <1>1, TakeLeave
<1>4. Within(TameCommand)'
    BY <1>1, ClosedSets, WithinStep DEF LeaveInvariant
<1>5. NoneInside'
    BY <1>1 DEF LeaveInvariant, NoneInside
<1>6. ASSUME NEW owner \in Owners, owner = gone PROVE Within(NotOf(owner))'
    <2>1. commands \in Seq(Command) /\ r \in Seq(Command) /\ runningCommands \in Seq(Request)
          /\ DOMAIN r = DOMAIN runningCommands
        BY LeaveTypes, CommandsOfType DEF TypeOK
    <2>2. ASSUME NEW s \in Seq(Command)
          PROVE  Subsequence(s, DOMAIN s \ OwnedBy(s, owner)) \in Seq(NotOf(owner))
        <3>1. \A k \in DOMAIN s \ OwnedBy(s, owner) : s[k] \in NotOf(owner)
            BY SeqFacts DEF OwnedBy, NotOf
        <3> QED
            BY <3>1, SubsequenceInto
    <2>3. internalCommands \in Seq(NotOf(owner)) /\ suspended \in Seq(NotOf(owner))
        BY UnownedSets, SeqGrows DEF LeaveInvariant, NoneInside
    <2>4. I \in SUBSET DOMAIN runningCommands /\ I = DOMAIN r \ OwnedBy(r, owner)
        BY <1>6, <2>1
    <2>5. CommandsOf(runningCommands') = Subsequence(r, I)
        <3> HIDE DEF I
        <3> QED
            BY <1>1, <2>1, <2>4, CommandsOfRunning
    <2>6. commands' = WithoutOwner(commands, owner)
        BY <1>1, <1>6
    <2> HIDE DEF r, I
    <2>7. CommandsOf(runningCommands') \in Seq(NotOf(owner)) /\ commands' \in Seq(NotOf(owner))
        BY <2>1, <2>2, <2>4, <2>5, <2>6 DEF WithoutOwner
    <2>8. internalCommands' = internalCommands /\ suspended' = suspended
        BY <1>1
    <2> QED
        BY <2>3, <2>7, <2>8 DEF Within, NotOf
<1>7. GoneOrPending'
    <2> SUFFICES ASSUME NEW owner \in destroyed PROVE CancelBehind(0, owner)' \/ Within(NotOf(owner))'
        BY <1>1 DEF GoneOrPending
    <2>1. CASE inbox[1] = [type |-> "cancel", owner |-> owner]
        <3>1. owner = gone /\ owner \in Owners
            BY <1>2, <2>1, LeaveTypes
        <3> QED
            BY <1>6, <3>1
    <2>2. CASE inbox[1] # [type |-> "cancel", owner |-> owner] /\ CancelBehind(0, owner)
        BY <1>2, <2>2
    <2>3. CASE ~CancelBehind(0, owner)
        <3>1. Within(NotOf(owner)) /\ Closed(NotOf(owner))
            BY <2>3, ClosedSets, LeaveTypes DEF LeaveInvariant, GoneOrPending
        <3>2. ASSUME NEW T, T = NotOf(owner) PROVE Within(T)'
            BY <1>1, <3>1, <3>2, WithinStep DEF LeaveInvariant
        <3> QED
            BY <3>2 DEF NotOf
    <2> QED
        BY <2>1, <2>2, <2>3
<1> QED
    BY <1>2, <1>4, <1>5, <1>6, <1>7

LEMMA ThreadLeave ==
    ASSUME LeaveInvariant, ControlInvariant', TransporterInit \/ Quit \/ InboxNext
    PROVE  /\ Within(TameCommand)' /\ InboxTame'
           /\ NoneInside' /\ AddsBeforeCancel' /\ GoneOrPending'
<1>1. CASE AddCommands
    BY <1>1, AddLeave
<1>2. CASE CancelCommands
    BY <1>2, CancelLeave
<1>3. CASE TransporterInit
    <2>1. UNCHANGED <<inbox, destroyed, internalCommands, suspended>> /\ socket' = "connecting"
          /\ [Next]_vars /\ ~AddCommands
        <3>1. thread = "starting"
            BY <1>3 DEF TransporterInit
        <3> QED
            BY <1>3, <3>1 DEF TransporterInit, AddCommands, Receive, AtEventLoop, Next, callerVars, queueVars
    <2>2. NoneInside'
        BY <2>1 DEF LeaveInvariant, NoneInside
    <2> QED
        BY <2>1, <2>2, QuietLeave
<1>4. CASE AuthOk \/ ShutdownStart
    <2>1. /\ inbox # <<>> /\ inbox' = Tail(inbox) /\ destroyed' = destroyed
          /\ Head(inbox).type \in {"authOk", "shutdown"} /\ [Next]_vars /\ ~AddCommands
        BY <1>4 DEF AuthOk, ShutdownStart, AddCommands, Receive, callerVars, Next, InboxNext
    <2>2. /\ InboxTame' /\ AddsBeforeCancel' /\ 1 \in DOMAIN inbox /\ Head(inbox) = inbox[1]
          /\ \A owner : CancelBehind(0, owner) /\ inbox[1] # [type |-> "cancel", owner |-> owner]
                           => CancelBehind(0, owner)'
        BY <2>1, TakeLeave
    <2>3. /\ suspended' = suspended /\ internalCommands' \in {<<>>, internalCommands}
          /\ socket' \in {"null", socket}
        BY <1>4 DEF AuthOk, ShutdownStart, DisconnectFromHost, loopVars, netVars
    <2>4. NoneInside'
        <3>1. /\ internalCommands \in Seq(Unowned) /\ suspended \in Seq(Unowned) /\ <<>> \in Seq(Unowned)
              /\ (NoReconnect => socket # "unconnected")
            BY DEF LeaveInvariant, NoneInside
        <3> QED
            BY <2>3, <3>1 DEF NoneInside, Unowned, NoReconnect
    <2>5. Within(TameCommand)'
        BY <2>1, ClosedSets, WithinStep DEF LeaveInvariant
    <2>6. GoneOrPending'
        <3> SUFFICES ASSUME NEW owner \in destroyed PROVE CancelBehind(0, owner)' \/ Within(NotOf(owner))'
            BY <2>1 DEF GoneOrPending
        <3>1. inbox[1] # [type |-> "cancel", owner |-> owner]
            BY <2>1, <2>2
        <3>2. CASE CancelBehind(0, owner)
            BY <2>2, <3>1, <3>2
        <3>3. CASE ~CancelBehind(0, owner)
            <4>1. Within(NotOf(owner)) /\ Closed(NotOf(owner))
                BY <3>3, ClosedSets, LeaveTypes DEF LeaveInvariant, GoneOrPending
            <4>2. ASSUME NEW T, T = NotOf(owner) PROVE Within(T)'
                BY <2>1, <4>1, <4>2, WithinStep DEF LeaveInvariant
            <4> QED
                BY <4>2 DEF NotOf
        <3> QED
            BY <3>2, <3>3
    <2> QED
        BY <2>2, <2>4, <2>5, <2>6
<1>5. CASE Quit
    <2>1. /\ commands' = <<>> /\ internalCommands' = <<>> /\ runningCommands' = <<>>
          /\ suspended' = suspended /\ inbox' = <<>> /\ destroyed' = destroyed /\ socket' = "null"
          /\ [Next]_vars
        BY <1>5 DEF Quit, DisconnectFromHost, loopVars, Next
    <2>2. /\ suspended \in Seq(Unowned) /\ \A T : <<>> \in Seq(T)
        BY DEF LeaveInvariant, NoneInside
    <2>3. /\ suspended \in Seq(TameCommand)
          /\ \A owner \in destroyed : suspended \in Seq(NotOf(owner))
        BY <2>2, UnownedSets, SeqGrows, LeaveTypes DEF LeaveInvariant, Within
    <2>4. Within(TameCommand)' /\ GoneOrPending'
        BY <2>1, <2>2, <2>3, NothingInHand DEF Within, GoneOrPending, NotOf, TameCommand, NoReconnect
    <2>5. InboxTame' /\ AddsBeforeCancel' /\ NoneInside'
        BY <2>1, <2>2 DEF InboxTame, AddsBeforeCancel, NoneInside, Adds, Unowned
    <2> QED
        BY <2>4, <2>5
<1> QED
    BY <1>1, <1>2, <1>3, <1>4, <1>5 DEF InboxNext

\* What a reconnect interrupts: an owned command is not behind a SELECT.
LEMMA RunCommandsInside ==
    ASSUME LeaveInvariant, NEW cmd \in TameCommand, NEW c, NEW w, RunCommands(WithSelect(cmd), c, w),
           internalCommands' \in Seq(Unowned)
    PROVE  NoneInside'
<1> DEFINE todo == WithSelect(cmd)
<1>1. suspended \in Seq(Unowned) /\ <<>> \in Seq(Unowned) /\ (NoReconnect => socket # "unconnected")
    BY DEF LeaveInvariant, NoneInside
<1>2. CASE Transmit(todo, c, w) \/ Refuse(todo, c, w) \/ Crash(todo, c, w)
    <2>1. suspended' \in {<<>>, suspended} /\ socket' = socket
        BY <1>2 DEF Transmit, Refuse, Crash, Return, loopVars
    <2> QED
        BY <1>1, <2>1 DEF NoneInside, Unowned, NoReconnect
<1>3. CASE Reconnect(todo, c, w)
    <2>1. suspended' = Tail(todo) /\ socket' = "connecting" /\ socket = "unconnected"
        BY <1>3 DEF Reconnect, Rest
    <2>2. Tail(todo) = IF cmd.db = NoDb THEN <<>> ELSE <<cmd>>
        <3>1. \A x, y : Tail(<<x>>) = <<>> /\ Tail(<<x, y>>) = <<y>>
            OBVIOUS
        <3> QED
            BY <3>1 DEF WithSelect
    <2>3. cmd.db # NoDb => cmd \in Unowned
        BY <1>1, <2>1 DEF TameCommand, Unowned
    <2>4. suspended' \in Seq(Unowned)
        <3>1. CASE cmd.db = NoDb
            BY <1>1, <2>1, <2>2, <3>1
        <3>2. CASE cmd.db # NoDb
            <4>1. suspended' = <<cmd>>
                BY <2>1, <2>2, <3>2
            <4> QED
                BY <2>3, <3>2, <4>1
        <3> QED
            BY <3>1, <3>2
    <2> QED
        BY <2>1, <2>4 DEF NoneInside, Unowned
<1> QED
    BY <1>2, <1>3 DEF RunCommands

LEMMA QueueInside ==
    ASSUME LeaveInvariant, QueueNext
    PROVE  NoneInside'
<1>1. /\ internalCommands \in Seq(Unowned) /\ suspended \in Seq(Unowned) /\ <<>> \in Seq(Unowned)
      /\ commands \in Seq(TameCommand) /\ internalCommands \in Seq(TameCommand)
      /\ (NoReconnect => socket # "unconnected")
    BY DEF LeaveInvariant, NoneInside, Within
<1>2. CASE QueueIsEmpty \/ Poll
    <2>1. suspended' \in {<<>>, suspended} /\ socket' = socket /\ internalCommands' = internalCommands
        BY <1>2 DEF QueueIsEmpty, Poll, Return, netVars
    <2> QED
        BY <1>1, <2>1 DEF NoneInside, Unowned
<1>3. CASE RunInternalCommand
    <2>1. /\ internalCommands # <<>> /\ internalCommands' = Tail(internalCommands)
          /\ RunCommands(WithSelect(Head(internalCommands)), commands, OtherWakeups)
        BY <1>3 DEF RunInternalCommand
    <2>2. Head(internalCommands) \in TameCommand /\ internalCommands' \in Seq(Unowned)
        BY <1>1, <2>1, HeadTailProperties
    <2> QED
        BY <2>1, <2>2, RunCommandsInside
<1>4. CASE RunNextCommand
    <2>1. /\ commands # <<>> /\ internalCommands' = internalCommands
          /\ RunCommands(WithSelect(Head(commands)), Tail(commands), OtherWakeups)
        BY <1>4 DEF RunNextCommand
    <2>2. Head(commands) \in TameCommand
        BY <1>1, <2>1, HeadTailProperties
    <2> QED
        BY <1>1, <2>1, <2>2, RunCommandsInside
<1>5. CASE Resume
    <2>1. internalCommands' = internalCommands /\ RunCommands(suspended, commands, wakeups)
        BY <1>5 DEF Resume
    <2>2. socket' \in {socket, "connecting"} /\ suspended' \in {<<>>, suspended, Tail(suspended)}
          /\ (suspended' = Tail(suspended) => suspended # <<>> \/ suspended' \in {<<>>, suspended})
        BY <2>1 DEF RunCommands, Transmit, Reconnect, Refuse, Crash, Return, Rest, loopVars
    <2>3. suspended # <<>> => Tail(suspended) \in Seq(Unowned)
        BY <1>1, HeadTailProperties
    <2>4. suspended' \in Seq(Unowned)
        BY <1>1, <2>2, <2>3
    <2> QED
        BY <1>1, <2>1, <2>2, <2>4 DEF NoneInside, Unowned
<1> QED
    BY <1>2, <1>3, <1>4, <1>5 DEF QueueNext

LEMMA ConnectInside ==
    ASSUME LeaveInvariant, ConnectNext
    PROVE  NoneInside'
<1>1. /\ internalCommands \in Seq(Unowned) /\ suspended \in Seq(Unowned)
      /\ (NoReconnect => socket # "unconnected")
    BY DEF LeaveInvariant, NoneInside
<1>2. suspended' = suspended
    BY DEF ConnectNext, ConnectSucceeds, ConnectFails, ConnectTimesOut, ConnectInterrupted, ConnectsLate,
           SocketError, UnknownSocketError, loopVars
<1>3. CASE ConnectSucceeds \/ ConnectTimesOut \/ ConnectInterrupted \/ ConnectsLate
    <2>1. internalCommands' = internalCommands /\ socket' \in {socket, "connected"}
        BY <1>3 DEF ConnectSucceeds, ConnectTimesOut, ConnectInterrupted, ConnectsLate, queueVars, netVars
    <2> QED
        BY <1>1, <1>2, <2>1 DEF NoneInside, Unowned
<1>4. CASE ConnectFails \/ SocketError
    <2>1. internalCommands' = internalCommands /\ ~NoReconnect
        BY <1>4 DEF ConnectFails, SocketError, Spend, NoReconnect
    <2> QED
        BY <1>1, <1>2, <2>1 DEF NoneInside, Unowned, NoReconnect
<1>5. CASE UnknownSocketError
    <2> DEFINE r == CommandsOf(runningCommands)
               hi == Subsequence(r, HiPriority(r))
    <2>1. internalCommands' = Reverse(hi) \o internalCommands /\ ~NoReconnect
        BY <1>5 DEF UnknownSocketError, Spend, NoReconnect
    <2>2. r \in Seq(TameCommand)
        BY DEF LeaveInvariant, Within
    <2> HIDE DEF r
    <2>3. HiPriority(r) \in SUBSET DOMAIN r /\ \A k \in HiPriority(r) : r[k] \in Unowned
        BY <2>2, SeqFacts DEF HiPriority, TameCommand, Unowned
    <2>4. hi \in Seq(Unowned)
        BY <2>2, <2>3, SubsequenceInto
    <2> HIDE DEF hi
    <2>5. internalCommands' \in Seq(Unowned)
        BY <1>1, <2>1, <2>4, ReverseElements, ConcatProperties
    <2> QED
        BY <1>1, <1>2, <2>1, <2>5 DEF NoneInside, Unowned, NoReconnect
<1> QED
    BY <1>3, <1>4, <1>5 DEF ConnectNext

LEMMA AnswerInside ==
    ASSUME LeaveInvariant, ReplyNext \/ ServerNext \/ UNCHANGED vars
    PROVE  NoneInside'
<1>1. UNCHANGED <<internalCommands, suspended, socket>>
    <2>1. CASE ReplyNext
        BY <2>1 DEF ReplyNext, DiscardReply, UnexpectedReply, IntermediateReply, RetryCommand,
                    CompleteCommand, queueVars, loopVars
    <2>2. CASE ServerNext
        BY <2>2 DEF ServerNext, ServerExecutes, ServerProtocolError, ServerRefusesSelect,
                    ServerAbortsTransaction, ServerErrorState, Respond, queueVars, loopVars
    <2>3. CASE UNCHANGED vars
        BY <2>3 DEF vars, queueVars, loopVars, netVars
    <2> QED
        BY <2>1, <2>2, <2>3
<1> QED
    BY <1>1 DEF LeaveInvariant, NoneInside

\* The queue, the socket, the replies and the server post and destroy nothing.
LEMMA InboxStays ==
    ASSUME QueueNext \/ ConnectNext \/ ReplyNext \/ ServerNext \/ UNCHANGED vars
    PROVE  UNCHANGED <<inbox, destroyed>>
<1>1. CASE QueueNext
    BY <1>1 DEF QueueNext, QueueIsEmpty, RunInternalCommand, Poll, RunNextCommand, Resume, RunCommands,
                callerVars, threadVars
<1>2. CASE ConnectNext
    BY <1>2 DEF ConnectNext, ConnectSucceeds, ConnectFails, ConnectTimesOut, ConnectInterrupted,
                ConnectsLate, SocketError, UnknownSocketError, callerVars, threadVars
<1>3. CASE ReplyNext
    BY <1>3 DEF ReplyNext, DiscardReply, UnexpectedReply, IntermediateReply, RetryCommand,
                CompleteCommand, callerVars, threadVars
<1>4. CASE ServerNext
    BY <1>4 DEF ServerNext, ServerExecutes, ServerProtocolError, ServerRefusesSelect,
                ServerAbortsTransaction, ServerErrorState, Respond, callerVars, threadVars
<1>5. CASE UNCHANGED vars
    BY <1>5 DEF vars, callerVars, threadVars
<1> QED
    BY <1>1, <1>2, <1>3, <1>4, <1>5

LEMMA LeaveStep == OwnedAreTame /\ LeaveInvariant /\ [Next]_vars => LeaveInvariant'
<1> SUFFICES ASSUME OwnedAreTame, LeaveInvariant, [Next]_vars PROVE LeaveInvariant'
    OBVIOUS
<1>1. ControlInvariant'
    BY ControlStep DEF LeaveInvariant
<1>2. CASE CallerNext
    BY <1>1, <1>2, CallerLeave DEF LeaveInvariant
<1>3. CASE TransporterInit \/ Quit \/ InboxNext
    BY <1>1, <1>3, ThreadLeave DEF LeaveInvariant
<1>4. CASE QueueNext \/ ConnectNext \/ ReplyNext \/ ServerNext \/ UNCHANGED vars
    <2>1. NoneInside'
        BY <1>4, QueueInside, ConnectInside, AnswerInside
    <2>2. UNCHANGED <<inbox, destroyed>> /\ ~AddCommands
        <3>1. UNCHANGED <<inbox, destroyed>>
            BY <1>4, InboxStays
        <3>2. inbox # <<>> => inbox # Tail(inbox)
            <4> SUFFICES ASSUME inbox # <<>>, inbox = Tail(inbox) PROVE FALSE
                OBVIOUS
            <4>1. Len(Tail(inbox)) = Len(inbox) - 1 /\ Len(inbox) \in Nat
                BY LeaveTypes, TailFacts
            <4>2. Len(inbox) = Len(inbox) - 1
                BY <4>1
            <4> QED
                BY <4>1, <4>2
        <3> QED
            BY <3>1, <3>2 DEF AddCommands, Receive
    <2> QED
        BY <1>1, <2>1, <2>2, QuietLeave DEF LeaveInvariant
<1> QED
    BY <1>2, <1>3, <1>4 DEF Next

\* When an owner is destroyed and cancelCommands has run for it, nothing of it is left
\* to be written, answered or resumed, in whatever order the destruction, the calls
\* already posted, the replies and the retries come: so long as no owned command has
\* high priority and, if the connection can be lost, none names a database.  (Without
\* that, cancelCommands misses m_internalCommands and the executeCmd that a reconnect
\* has interrupted.)
THEOREM CancelledLeave ==
    ASSUME OwnedAreTame
    PROVE  Spec => []CancelledOwnersLeave
<1>1. LeaveInvariant /\ [Next]_vars => LeaveInvariant'
    BY LeaveStep
<1> QED
    BY <1>1, InitLeave, LeaveMeans, PTL DEF Spec

-----------------------------------------------------------------------------
(* The exchange with the server: which reply answers which running command. *)

\* The running commands are the last requests, and those of them that wait for
\* the server are the last ones.
Consecutive(run, last) == \A k \in DOMAIN run : run[k].tag = (last - Len(run)) + k
Pending(run, req) ==
    /\ Len(req) <= Len(run)
    /\ \A k \in DOMAIN req : req[k] = run[(Len(run) - Len(req)) + k]

\* The unread replies from a to b are what is left of the answer to a request.
Whole(cmd, rep, a, b) ==
    /\ a <= b
    /\ cmd.kind = "pipeline" => b - a = cmd.arg - 1
    /\ cmd.kind = "transaction" =>
           \A j \in DOMAIN rep : a <= j /\ j <= b =>
               (rep[j].status \in {"ok", "queued"} <=> j # b)
    /\ cmd.kind \notin {"pipeline", "transaction"} => a = b
Block(request, rep, a, b) ==
    /\ \A j \in DOMAIN rep : rep[j].tag = request.tag <=> a <= j /\ j <= b
    /\ Whole(request.cmd, rep, a, b)

\* The unread replies are those blocks, in the order of the commands.
InBlocks(run, rep, p) ==
    /\ \A j \in DOMAIN rep : \E i \in 1..p : rep[j].tag = run[i].tag
    /\ \A j, k \in DOMAIN rep : j < k => rep[j].tag <= rep[k].tag
    /\ \A i \in 1..p : \E a, b \in DOMAIN rep : Block(run[i], rep, a, b)

Exchange(run, req, rep, last) ==
    /\ Consecutive(run, last)
    /\ Pending(run, req)
    /\ InBlocks(run, rep, Len(run) - Len(req))

\* The j-th unread reply tells that SELECT db has been executed.
Selects(run, rep, j, db) ==
    /\ rep[j].status = "ok"
    /\ \E i \in DOMAIN run : run[i].tag = rep[j].tag /\ run[i].cmd.kind = "select"
                             /\ run[i].cmd.arg = db

\* The server's database is the one of the last SELECT that the unread replies
\* tell of, or the one known already.
Tracks(run, rep, known, selected) ==
    \/ known = selected /\ \A j \in DOMAIN rep : \A db : ~Selects(run, rep, j, db)
    \/ \E j \in DOMAIN rep :
           /\ Selects(run, rep, j, selected)
           /\ \A k \in DOMAIN rep : j < k => \A db : ~Selects(run, rep, k, db)

LEMMA RequestFacts ==
    ASSUME NEW run \in Seq(Request)
    PROVE  /\ Len(run) \in Nat /\ DOMAIN run = 1..Len(run)
           /\ \A k \in DOMAIN run : run[k] \in Request /\ run[k].tag \in Nat /\ run[k].cmd \in Command
<1>1. Len(run) \in Nat /\ DOMAIN run = 1..Len(run) /\ \A k \in DOMAIN run : run[k] \in Request
    BY SeqFacts
<1>2. \A request \in Request : request.tag \in Nat /\ request.cmd \in Command
    BY DEF Request
<1> QED
    BY <1>1, <1>2

LEMMA ReplyFacts ==
    ASSUME NEW rep \in Seq(Reply)
    PROVE  /\ Len(rep) \in Nat /\ DOMAIN rep = 1..Len(rep)
           /\ \A k \in DOMAIN rep : rep[k] \in Reply /\ rep[k].tag \in Nat
<1>1. Len(rep) \in Nat /\ DOMAIN rep = 1..Len(rep) /\ \A k \in DOMAIN rep : rep[k] \in Reply
    BY SeqFacts
<1>2. \A reply \in Reply : reply.tag \in Nat
    BY DEF Reply
<1> QED
    BY <1>1, <1>2

LEMMA NothingSent == ASSUME NEW last \in Nat PROVE Exchange(<<>>, <<>>, <<>>, last)
BY DEF Exchange, Consecutive, Pending, InBlocks

\* Different requests have different tags, none of them above the last.
LEMMA TagsDiffer ==
    ASSUME NEW run \in Seq(Request), NEW last \in Nat, Consecutive(run, last)
    PROVE  /\ \A i, k \in DOMAIN run : run[i].tag = run[k].tag => i = k
           /\ \A i, k \in DOMAIN run : run[i].tag <= run[k].tag => i <= k
           /\ \A i \in DOMAIN run : run[i].tag <= last /\ run[i].tag \in Nat
BY RequestFacts DEF Consecutive

\* The oldest unread reply is to the first running command; its block begins there.
LEMMA FirstAnswered ==
    ASSUME NEW run \in Seq(Request), NEW req \in Seq(Request), NEW rep \in Seq(Reply),
           NEW last \in Nat, Exchange(run, req, rep, last), rep # <<>>
    PROVE  /\ run # <<>> /\ Len(req) < Len(run) /\ Head(run).tag = Head(rep).tag
           /\ \E b \in DOMAIN rep : Block(Head(run), rep, 1, b)
<1> DEFINE p == Len(run) - Len(req)
<1>1. /\ Len(run) \in Nat /\ DOMAIN run = 1..Len(run) /\ Len(req) \in Nat
      /\ DOMAIN rep = 1..Len(rep) /\ Len(rep) \in Nat
      /\ \A j \in DOMAIN rep : rep[j].tag \in Nat
    BY RequestFacts, ReplyFacts
<1>2. /\ p \in Nat /\ p <= Len(run) /\ InBlocks(run, rep, p)
      /\ \A i \in 1..p : i \in DOMAIN run
    BY <1>1 DEF Exchange, Pending
<1>3. 1 \in DOMAIN rep /\ Head(rep) = rep[1]
    BY TailFacts
<1>4. p > 0 => Len(req) < Len(run)
    BY <1>1
<1> HIDE DEF p
<1>5. PICK i \in 1..p : rep[1].tag = run[i].tag
    BY <1>2, <1>3 DEF InBlocks
<1>6. 1 \in 1..p /\ 1 \in DOMAIN run
    BY <1>2
<1>7. run # <<>> /\ Head(run) = run[1]
    BY <1>6, TailFacts
<1>8. PICK a \in DOMAIN rep, b \in DOMAIN rep : Block(run[1], rep, a, b)
    BY <1>2, <1>6 DEF InBlocks
<1>9. rep[a].tag = run[1].tag
    BY <1>1, <1>8 DEF Block, Whole
<1>10. a = 1 \/ rep[1].tag <= rep[a].tag
    <2>1. \A j, k \in DOMAIN rep : j < k => rep[j].tag <= rep[k].tag
        BY <1>2 DEF InBlocks
    <2>2. a = 1 \/ 1 < a
        BY <1>1
    <2> QED
        BY <1>3, <2>1, <2>2
<1>11. a = 1 \/ run[i].tag <= run[1].tag
    BY <1>5, <1>9, <1>10
<1>12. a = 1 \/ i <= 1
    BY <1>2, <1>6, <1>11, TagsDiffer DEF Exchange
<1>13. a = 1 \/ rep[1].tag = run[1].tag
    BY <1>2, <1>5, <1>12
<1>14. a = 1
    BY <1>1, <1>3, <1>8, <1>13 DEF Block, Whole
<1> QED
    BY <1>2, <1>3, <1>4, <1>6, <1>7, <1>8, <1>9, <1>14

\* The requests just written are pending.
LEMMA Sends ==
    ASSUME NEW run \in Seq(Request), NEW req \in Seq(Request), NEW rep \in Seq(Reply),
           NEW last \in Nat, Exchange(run, req, rep, last),
           NEW new \in Seq(Request), \A k \in DOMAIN new : new[k].tag = last + k
    PROVE  /\ Exchange(run \o new, req \o new, rep, last + Len(new))
           /\ \A known, selected \in Nat :
                  Tracks(run, rep, known, selected) => Tracks(run \o new, rep, known, selected)
<1> DEFINE n == Len(run)
           q == Len(req)
           m == Len(new)
           all == run \o new
           due == req \o new
<1>1. /\ n \in Nat /\ DOMAIN run = 1..n /\ q \in Nat /\ DOMAIN req = 1..q
      /\ m \in Nat /\ DOMAIN new = 1..m
    BY RequestFacts
<1>2. /\ Len(all) = n + m /\ DOMAIN all = 1..(n + m) /\ Len(due) = q + m /\ DOMAIN due = 1..(q + m)
      /\ \A k \in 1..n : all[k] = run[k]
      /\ \A k \in 1..m : all[n + k] = new[k] /\ due[q + k] = new[k]
      /\ \A k \in 1..q : due[k] = req[k]
    BY <1>1, ConcatFacts
<1>3. /\ \A k \in 1..n : run[k].tag = (last - n) + k
      /\ q <= n /\ \A k \in 1..q : req[k] = run[(n - q) + k]
      /\ InBlocks(run, rep, n - q)
      /\ \A k \in 1..m : new[k].tag = last + k
    BY <1>1 DEF Exchange, Consecutive, Pending
<1> HIDE DEF n, q, m, all, due
<1>4. Consecutive(all, last + m)
    <2> SUFFICES ASSUME NEW k \in 1..(n + m) PROVE all[k].tag = ((last + m) - (n + m)) + k
        BY <1>2 DEF Consecutive
    <2>1. CASE k \in 1..n
        BY <1>1, <1>2, <1>3, <2>1
    <2>2. CASE k \notin 1..n
        <3>1. k - n \in 1..m /\ n + (k - n) = k
            BY <1>1, <2>2
        <3>2. all[k] = new[k - n]
            BY <1>2, <3>1
        <3>3. new[k - n].tag = last + (k - n)
            BY <1>3, <3>1
        <3> QED
            BY <1>1, <3>2, <3>3
    <2> QED
        BY <2>1, <2>2
<1>5. Pending(all, due)
    <2>1. q + m <= n + m /\ (n + m) - (q + m) = n - q
        BY <1>1, <1>3
    <2>2. ASSUME NEW k \in 1..(q + m) PROVE due[k] = all[(n - q) + k]
        <3>1. CASE k \in 1..q
            <4>1. (n - q) + k \in 1..n
                BY <1>1, <1>3, <3>1
            <4> QED
                BY <1>2, <1>3, <3>1, <4>1
        <3>2. CASE k \notin 1..q
            <4>1. k - q \in 1..m /\ q + (k - q) = k /\ n + (k - q) = (n - q) + k
                BY <1>1, <3>2
            <4>2. due[q + (k - q)] = new[k - q] /\ all[n + (k - q)] = new[k - q]
                BY <1>2, <4>1
            <4> QED
                BY <4>1, <4>2
        <3> QED
            BY <3>1, <3>2
    <2> QED
        BY <1>2, <2>1, <2>2 DEF Pending
<1>6. n - q \in Nat /\ (n + m) - (q + m) = n - q /\ \A i \in 1..(n - q) : all[i] = run[i] /\ i \in 1..n
    BY <1>1, <1>2, <1>3
<1>7. InBlocks(all, rep, n - q)
    <2>1. /\ \A j \in DOMAIN rep : \E i \in 1..(n - q) : rep[j].tag = run[i].tag
          /\ \A j, k \in DOMAIN rep : j < k => rep[j].tag <= rep[k].tag
          /\ \A i \in 1..(n - q) : \E a, b \in DOMAIN rep : Block(run[i], rep, a, b)
        BY <1>3 DEF InBlocks
    <2>2. \A j \in DOMAIN rep : \E i \in 1..(n - q) : rep[j].tag = all[i].tag
        BY <1>6, <2>1
    <2>3. \A i \in 1..(n - q) : \E a, b \in DOMAIN rep : Block(all[i], rep, a, b)
        BY <1>6, <2>1
    <2> QED
        BY <2>1, <2>2, <2>3 DEF InBlocks
<1>8. Exchange(all, due, rep, last + m)
    BY <1>2, <1>4, <1>5, <1>6, <1>7 DEF Exchange
<1>9. ASSUME NEW j \in DOMAIN rep, NEW db PROVE Selects(all, rep, j, db) <=> Selects(run, rep, j, db)
    <2>1. PICK i \in 1..(n - q) : rep[j].tag = run[i].tag
        BY <1>3 DEF InBlocks
    <2>2. i \in DOMAIN all /\ i \in DOMAIN run /\ all[i] = run[i]
        BY <1>1, <1>2, <1>6
    <2>3. all \in Seq(Request) /\ last + m \in Nat
        BY <1>1, ConcatFacts DEF all
    <2>4. /\ \A k \in DOMAIN run : run[k].tag = rep[j].tag <=> k = i
          /\ \A k \in DOMAIN all : all[k].tag = rep[j].tag <=> k = i
        BY <1>4, <2>1, <2>2, <2>3, TagsDiffer DEF Exchange
    <2> QED
        BY <2>2, <2>4 DEF Selects
<1> QED
    BY <1>8, <1>9 DEF Tracks, all, due, m

\* The first pending request is executed, and all of its answer is sent.
LEMMA Executes ==
    ASSUME NEW run \in Seq(Request), NEW req \in Seq(Request), NEW rep \in Seq(Reply),
           NEW last \in Nat, Exchange(run, req, rep, last), req # <<>>,
           NEW answer \in Seq(Reply), answer # <<>>,
           \A k \in DOMAIN answer : answer[k].tag = Head(req).tag,
           Whole(Head(req).cmd, answer, 1, Len(answer))
    PROVE  /\ Exchange(run, Tail(req), rep \o answer, last)
           /\ \A known, selected \in Nat : Tracks(run, rep, known, selected) =>
                  Tracks(run, rep \o answer, known,
                         IF Head(req).cmd.kind = "select" /\ Head(answer).status = "ok"
                         THEN Head(req).cmd.arg ELSE selected)
<1> DEFINE n == Len(run)
           q == Len(req)
           p == n - q
           l == Len(rep)
           m == Len(answer)
           all == rep \o answer
           due == Tail(req)
           h == Head(req)
<1>1. /\ n \in Nat /\ DOMAIN run = 1..n /\ q \in Nat /\ DOMAIN req = 1..q
      /\ \A i \in 1..n : run[i].tag \in Nat
      /\ l \in Nat /\ DOMAIN rep = 1..l /\ m \in Nat /\ DOMAIN answer = 1..m
      /\ \A j \in 1..l : rep[j].tag \in Nat
    BY RequestFacts, ReplyFacts
<1>2. /\ q # 0 /\ h = req[1] /\ Len(due) = q - 1 /\ DOMAIN due = 1..(q - 1)
      /\ \A k \in 1..(q - 1) : due[k] = req[k + 1]
    BY TailFacts
<1>3. m # 0 /\ Head(answer) = answer[1]
    BY TailFacts
<1>4. /\ all \in Seq(Reply) /\ DOMAIN all = 1..(l + m)
      /\ \A j \in 1..l : all[j] = rep[j]
      /\ \A j \in 1..m : all[l + j] = answer[j]
    BY <1>1, ConcatFacts
<1>5. /\ q <= n /\ \A k \in 1..q : req[k] = run[(n - q) + k]
      /\ InBlocks(run, rep, p) /\ Consecutive(run, last)
    BY <1>1 DEF Exchange, Pending
<1>6. p = n - q /\ n = Len(run) /\ \A k \in 1..m : answer[k].tag = h.tag
    BY <1>1
<1>7. Whole(h.cmd, answer, 1, m)
    OBVIOUS
<1> HIDE DEF n, q, p, l, m, all, due, h
<1>8. /\ p \in Nat /\ p + 1 \in 1..n /\ n - (q - 1) = p + 1 /\ q - 1 <= n
      /\ \A i \in 1..p : i \in 1..n /\ i # p + 1 /\ i <= p + 1
      /\ \A i \in 1..(p + 1) : i \in 1..p \/ i = p + 1
    <2>1. p \in Nat /\ p + 1 \in 1..n /\ n - (q - 1) = p + 1 /\ q - 1 <= n /\ p < n
        BY <1>1, <1>2, <1>5, <1>6
    <2>2. \A i \in 1..p : i \in 1..n /\ i # p + 1 /\ i <= p + 1
        BY <1>1, <2>1
    <2>3. \A i \in 1..(p + 1) : i \in 1..p \/ i = p + 1
        BY <2>1
    <2> QED
        BY <2>1, <2>2, <2>3
<1>9. h = run[p + 1]
    <2>1. 1 \in 1..q /\ (n - q) + 1 = p + 1
        BY <1>1, <1>2, <1>6
    <2> QED
        BY <1>2, <1>5, <2>1
<1>10. Pending(run, due)
    <2>1. ASSUME NEW k \in 1..(q - 1) PROVE due[k] = run[(n - (q - 1)) + k]
        <3>1. k + 1 \in 1..q /\ (n - (q - 1)) + k = (n - q) + (k + 1)
            BY <1>1
        <3> QED
            BY <1>2, <1>5, <3>1
    <2> QED
        BY <1>2, <1>6, <1>8, <2>1 DEF Pending
<1>11. Len(run) - Len(due) = p + 1
    BY <1>2, <1>6, <1>8
<1>12. \A j \in 1..(l + m) : j \in 1..l \/ (j - l \in 1..m /\ all[j] = answer[j - l])
    <2> SUFFICES ASSUME NEW j \in 1..(l + m), j \notin 1..l
                 PROVE  j - l \in 1..m /\ all[j] = answer[j - l]
        OBVIOUS
    <2>1. j - l \in 1..m /\ l + (j - l) = j
        BY <1>1
    <2> QED
        BY <1>4, <2>1
<1>13. InBlocks(run, all, p + 1)
    <2>1. \A j \in 1..l : \E i \in 1..p : rep[j].tag = run[i].tag
        BY <1>1, <1>5 DEF InBlocks
    <2>2. \A j \in 1..(l + m) : j \notin 1..l => all[j].tag = run[p + 1].tag
        BY <1>6, <1>9, <1>12
    <2>3. \A i \in 1..p : run[i].tag <= run[p + 1].tag /\ run[i].tag # run[p + 1].tag
        <3> SUFFICES ASSUME NEW i \in 1..p
                     PROVE  run[i].tag <= run[p + 1].tag /\ run[i].tag # run[p + 1].tag
            OBVIOUS
        <3>1. i \in DOMAIN run /\ p + 1 \in DOMAIN run /\ i <= p /\ i \in Nat
            BY <1>1, <1>8
        <3>2. run[i].tag = (last - n) + i /\ run[p + 1].tag = (last - n) + (p + 1)
            BY <1>5, <1>6, <3>1 DEF Consecutive
        <3> QED
            BY <1>1, <1>8, <3>1, <3>2
    <2>4. \A j \in DOMAIN all : \E i \in 1..(p + 1) : all[j].tag = run[i].tag
        <3>1. p + 1 \in 1..(p + 1) /\ \A i \in 1..p : i \in 1..(p + 1)
            BY <1>8
        <3> QED
            BY <1>4, <2>1, <2>2, <3>1
    <2>5. \A j, k \in DOMAIN all : j < k => all[j].tag <= all[k].tag
        <3> SUFFICES ASSUME NEW j \in 1..(l + m), NEW k \in 1..(l + m), j < k
                     PROVE  all[j].tag <= all[k].tag
            BY <1>4
        <3>1. CASE k \in 1..l
            <4>1. j \in 1..l
                BY <1>1, <3>1
            <4>2. rep[j].tag <= rep[k].tag
                BY <1>1, <1>5, <3>1, <4>1 DEF InBlocks
            <4> QED
                BY <1>4, <3>1, <4>1, <4>2
        <3>2. CASE k \notin 1..l /\ j \in 1..l
            <4>1. PICK i \in 1..p : all[j].tag = run[i].tag
                BY <1>4, <2>1, <3>2
            <4>2. all[k].tag = run[p + 1].tag
                BY <2>2, <3>2
            <4> QED
                BY <2>3, <4>1, <4>2
        <3>3. CASE k \notin 1..l /\ j \notin 1..l
            BY <1>1, <1>8, <2>2, <3>3
        <3> QED
            BY <3>1, <3>2, <3>3
    <2>6. ASSUME NEW i \in 1..p PROVE \E a, b \in DOMAIN all : Block(run[i], all, a, b)
        <3>1. PICK a \in 1..l, b \in 1..l : Block(run[i], rep, a, b)
            BY <1>1, <1>5 DEF InBlocks
        <3>2. \A j \in 1..(l + m) : j \in 1..l \/ ~(j <= b)
            BY <1>1
        <3>3. \A j \in 1..(l + m) : all[j].tag = run[i].tag <=> a <= j /\ j <= b
            BY <1>1, <1>4, <2>2, <2>3, <3>1, <3>2 DEF Block
        <3>4. Whole(run[i].cmd, all, a, b)
            BY <1>1, <1>4, <3>1, <3>2 DEF Block, Whole
        <3>5. a \in DOMAIN all /\ b \in DOMAIN all
            BY <1>1, <1>4
        <3> QED
            BY <1>4, <3>3, <3>4, <3>5 DEF Block
    <2>7. Block(run[p + 1], all, l + 1, l + m)
        <3>1. \A j \in 1..(l + m) : j \notin 1..l <=> l + 1 <= j /\ j <= l + m
            BY <1>1
        <3>2. \A j \in 1..l : all[j].tag # run[p + 1].tag
            BY <1>4, <2>1, <2>3
        <3>3. \A j \in 1..(l + m) : all[j].tag = run[p + 1].tag <=> l + 1 <= j /\ j <= l + m
            BY <2>2, <3>1, <3>2
        <3>4. l + 1 <= l + m /\ (l + m) - (l + 1) = m - 1 /\ (1 = m => l + 1 = l + m)
            BY <1>1, <1>3
        <3>5. ASSUME run[p + 1].cmd.kind = "transaction", NEW j \in 1..(l + m), l + 1 <= j, j <= l + m
              PROVE  all[j].status \in {"ok", "queued"} <=> j # l + m
            <4>1. j - l \in 1..m /\ all[j] = answer[j - l] /\ (j - l # m <=> j # l + m)
                  /\ 1 <= j - l /\ j - l <= m
                BY <1>1, <1>12, <3>1, <3>5
            <4>2. answer[j - l].status \in {"ok", "queued"} <=> j - l # m
                BY <1>1, <1>7, <1>9, <3>5, <4>1 DEF Whole
            <4> QED
                BY <4>1, <4>2
        <3>6. Whole(run[p + 1].cmd, all, l + 1, l + m)
            BY <1>4, <1>7, <1>9, <3>4, <3>5 DEF Whole
        <3> QED
            BY <1>4, <3>3, <3>6 DEF Block
    <2>8. l + 1 \in DOMAIN all /\ l + m \in DOMAIN all
        BY <1>1, <1>3, <1>4
    <2> QED
        BY <1>8, <2>4, <2>5, <2>6, <2>7, <2>8 DEF InBlocks
<1>14. Exchange(run, due, all, last)
    BY <1>5, <1>10, <1>11, <1>13 DEF Exchange
<1>15. ASSUME NEW known \in Nat, NEW selected \in Nat, Tracks(run, rep, known, selected)
       PROVE  Tracks(run, all, known, IF h.cmd.kind = "select" /\ answer[1].status = "ok"
                                      THEN h.cmd.arg ELSE selected)
    <2>1. \A j \in 1..l : \A db : Selects(run, all, j, db) <=> Selects(run, rep, j, db)
        BY <1>4 DEF Selects
    <2>2. \A j \in 1..(l + m) : j \notin 1..l => \A db : Selects(run, all, j, db) <=>
              all[j].status = "ok" /\ h.cmd.kind = "select" /\ h.cmd.arg = db
        <3> SUFFICES ASSUME NEW j \in 1..(l + m), j \notin 1..l, NEW db
                     PROVE  Selects(run, all, j, db) <=>
                                all[j].status = "ok" /\ h.cmd.kind = "select" /\ h.cmd.arg = db
            OBVIOUS
        <3>1. PICK i \in DOMAIN run : i = p + 1
            BY <1>1, <1>8
        <3>2. all[j].tag = run[i].tag /\ run[i] = h
            BY <1>6, <1>9, <1>12, <3>1
        <3>3. Selects(run, all, j, db) <=>
                  all[j].status = "ok" /\ run[i].cmd.kind = "select" /\ run[i].cmd.arg = db
            <4>1. \A k \in DOMAIN run : run[k].tag = all[j].tag <=> k = i
                BY <1>5, <3>2, TagsDiffer
            <4> QED
                BY <4>1 DEF Selects
        <3> QED
            BY <3>2, <3>3
    <2>3. \A j \in 1..l, k \in 1..(l + m) : k \notin 1..l => j < k
        BY <1>1
    <2>4. CASE h.cmd.kind = "select" /\ answer[1].status = "ok"
        <3>1. m = 1
            BY <1>7, <2>4 DEF Whole
        <3>2. l + 1 \in DOMAIN all /\ l + 1 \notin 1..l /\ all[l + 1] = answer[1]
              /\ \A k \in DOMAIN all : ~(l + 1 < k)
            BY <1>1, <1>4, <3>1
        <3> QED
            BY <1>4, <2>2, <2>4, <3>2 DEF Tracks
    <2>5. CASE ~(h.cmd.kind = "select" /\ answer[1].status = "ok")
        <3>1. \A j \in 1..(l + m) : j \notin 1..l => \A db : ~Selects(run, all, j, db)
            <4> SUFFICES ASSUME NEW j \in 1..(l + m), j \notin 1..l, h.cmd.kind = "select"
                         PROVE  all[j].status # "ok"
                BY <2>2
            <4>1. m = 1
                BY <1>7 DEF Whole
            <4>2. j - l = 1 /\ all[j] = answer[j - l]
                BY <1>1, <1>12, <4>1
            <4> QED
                BY <2>5, <4>2
        <3>2. \A j \in 1..(l + m) : j \in 1..l \/ \A db : ~Selects(run, all, j, db)
            BY <3>1
        <3>3. \A j \in 1..l : j \in DOMAIN all
            BY <1>1, <1>4
        <3>4. CASE known = selected /\ \A j \in 1..l : \A db : ~Selects(run, rep, j, db)
            <4>1. \A j \in DOMAIN all : \A db : ~Selects(run, all, j, db)
                BY <1>4, <2>1, <3>2, <3>4
            <4> QED
                BY <2>5, <3>4, <4>1 DEF Tracks
        <3>5. CASE \E j \in 1..l : /\ Selects(run, rep, j, selected)
                                   /\ \A k \in 1..l : j < k => \A db : ~Selects(run, rep, k, db)
            <4>1. PICK j \in 1..l : /\ Selects(run, rep, j, selected)
                                    /\ \A k \in 1..l : j < k => \A db : ~Selects(run, rep, k, db)
                BY <3>5
            <4>2. Selects(run, all, j, selected) /\ j \in DOMAIN all
                BY <2>1, <3>3, <4>1
            <4>3. \A k \in DOMAIN all : j < k => \A db : ~Selects(run, all, k, db)
                BY <1>4, <2>1, <3>2, <4>1
            <4> QED
                BY <2>5, <4>2, <4>3 DEF Tracks
        <3> QED
            BY <1>1, <1>15, <3>4, <3>5 DEF Tracks
    <2> QED
        BY <2>4, <2>5
<1> QED
    BY <1>3, <1>14, <1>15 DEF due, all, h

\* When the oldest reply has been read, the blocks behind it move up.
LEMMA BlockMoves ==
    ASSUME NEW rep \in Seq(Reply), rep # <<>>, NEW request,
           NEW a \in DOMAIN rep, NEW b \in DOMAIN rep, Block(request, rep, a, b), a # 1
    PROVE  \E a1, b1 \in DOMAIN Tail(rep) : Block(request, Tail(rep), a1, b1)
<1> DEFINE rest == Tail(rep)
<1>1. /\ a \in Nat /\ b \in Nat /\ a <= b /\ b # 1
      /\ \A j \in DOMAIN rest : j \in Nat /\ j + 1 \in DOMAIN rep /\ rest[j] = rep[j + 1]
      /\ \A j \in DOMAIN rep : j # 1 => j - 1 \in DOMAIN rest
    <2>1. DOMAIN rep = 1..Len(rep) /\ Len(rep) \in Nat
        BY ReplyFacts
    <2>2. a <= b
        BY DEF Block, Whole
    <2>3. a \in Nat /\ b \in Nat /\ b # 1
        BY <2>1, <2>2
    <2>4. /\ DOMAIN rest = 1..(Len(rep) - 1)
          /\ \A j \in DOMAIN rest : j + 1 \in DOMAIN rep /\ rest[j] = rep[j + 1]
          /\ \A j \in DOMAIN rep : j # 1 => j - 1 \in DOMAIN rest
        BY TailFacts
    <2> QED
        BY <2>1, <2>2, <2>3, <2>4
<1>2. a - 1 \in DOMAIN rest /\ b - 1 \in DOMAIN rest
    BY <1>1
<1> HIDE DEF rest
<1>3. /\ \A j \in Nat : (a - 1 <= j <=> a <= j + 1) /\ (j <= b - 1 <=> j + 1 <= b)
      /\ \A j \in Nat : j = b - 1 <=> j + 1 = b
      /\ (b - 1) - (a - 1) = b - a /\ a - 1 <= b - 1 /\ (a = b => a - 1 = b - 1)
    BY <1>1
<1>4. ASSUME NEW j \in DOMAIN rest PROVE rest[j].tag = request.tag <=> a - 1 <= j /\ j <= b - 1
    <2>1. j \in Nat /\ j + 1 \in DOMAIN rep /\ rest[j] = rep[j + 1]
        BY <1>1
    <2>2. rep[j + 1].tag = request.tag <=> a <= j + 1 /\ j + 1 <= b
        BY <2>1 DEF Block
    <2> QED
        BY <1>3, <2>1, <2>2
<1>5. Whole(request.cmd, rest, a - 1, b - 1)
    BY <1>1, <1>3 DEF Block, Whole
<1> QED
    BY <1>2, <1>4, <1>5 DEF Block, rest

\* What the unread replies tell of SELECT, when the oldest one has been read.
LEMMA TracksOn ==
    ASSUME NEW run, NEW run1, NEW rep \in Seq(Reply), rep # <<>>,
           \A j \in DOMAIN Tail(rep) : \A db :
               Selects(run1, Tail(rep), j, db) <=> Selects(run, rep, j + 1, db),
           NEW known, NEW known1, NEW selected,
           Tracks(run, rep, known, selected),
           \A db : Selects(run, rep, 1, db) => known1 = db,
           (\A db : ~Selects(run, rep, 1, db)) => known1 = known
    PROVE  Tracks(run1, Tail(rep), known1, selected)
<1>1. /\ 1 \in DOMAIN rep /\ \A j \in DOMAIN rep : j \in Nat /\ (j # 1 => 1 < j)
      /\ \A j \in DOMAIN Tail(rep) : j \in Nat /\ j + 1 \in DOMAIN rep /\ 1 < j + 1
      /\ \A j \in DOMAIN rep : j # 1 => j - 1 \in DOMAIN Tail(rep) /\ (j - 1) + 1 = j
    <2>1. DOMAIN rep = 1..Len(rep) /\ Len(rep) \in Nat
        BY ReplyFacts
    <2>2. /\ 1 \in DOMAIN rep /\ DOMAIN Tail(rep) = 1..(Len(rep) - 1)
          /\ \A j \in DOMAIN Tail(rep) : j + 1 \in DOMAIN rep
          /\ \A j \in DOMAIN rep : j # 1 => j - 1 \in DOMAIN Tail(rep)
        BY TailFacts
    <2> QED
        BY <2>1, <2>2
<1>2. CASE known = selected /\ \A j \in DOMAIN rep : \A db : ~Selects(run, rep, j, db)
    <2>1. known1 = selected
        BY <1>1, <1>2
    <2>2. \A j \in DOMAIN Tail(rep) : \A db : ~Selects(run1, Tail(rep), j, db)
        BY <1>1, <1>2
    <2> QED
        BY <2>1, <2>2 DEF Tracks
<1>3. CASE \E j \in DOMAIN rep : /\ Selects(run, rep, j, selected)
                               /\ \A k \in DOMAIN rep : j < k => \A db : ~Selects(run, rep, k, db)
    <2>1. PICK j \in DOMAIN rep : /\ Selects(run, rep, j, selected)
                                /\ \A k \in DOMAIN rep : j < k => \A db : ~Selects(run, rep, k, db)
        BY <1>3
    <2>2. \A k \in DOMAIN Tail(rep) : j < k + 1 => \A db : ~Selects(run1, Tail(rep), k, db)
        BY <1>1, <2>1
    <2>3. CASE j = 1
        <3>1. known1 = selected
            BY <2>1, <2>3
        <3>2. \A k \in DOMAIN Tail(rep) : \A db : ~Selects(run1, Tail(rep), k, db)
            BY <1>1, <2>2, <2>3
        <3> QED
            BY <3>1, <3>2 DEF Tracks
    <2>4. CASE j # 1
        <3>1. j - 1 \in DOMAIN Tail(rep) /\ (j - 1) + 1 = j
            BY <1>1, <2>4
        <3>2. Selects(run1, Tail(rep), j - 1, selected)
            BY <2>1, <3>1
        <3>3. \A k \in DOMAIN Tail(rep) : j - 1 < k => j < k + 1
            BY <1>1
        <3> QED
            BY <2>2, <3>1, <3>2, <3>3 DEF Tracks
    <2> QED
        BY <2>3, <2>4
<1> QED
    BY <1>2, <1>3 DEF Tracks

\* What is left of the exchange behind the oldest reply.
LEMMA Remaining ==
    ASSUME NEW run \in Seq(Request), NEW req \in Seq(Request), NEW rep \in Seq(Reply),
           NEW last \in Nat, Exchange(run, req, rep, last), rep # <<>>
    PROVE  /\ \A i \in 1..(Len(run) - Len(req)) : i # 1 =>
                  \E a, b \in DOMAIN Tail(rep) : Block(run[i], Tail(rep), a, b)
           /\ \A j, k \in DOMAIN Tail(rep) : j < k => Tail(rep)[j].tag <= Tail(rep)[k].tag
           /\ \A j \in DOMAIN Tail(rep) : \E i \in 1..(Len(run) - Len(req)) :
                  Tail(rep)[j].tag = run[i].tag
<1> DEFINE p == Len(run) - Len(req)
           rest == Tail(rep)
<1>1. InBlocks(run, rep, p) /\ Consecutive(run, last)
    BY DEF Exchange
<1>2. run # <<>> /\ Head(run).tag = Head(rep).tag
    BY FirstAnswered
<1>3. /\ 1 \in DOMAIN run /\ 1 \in DOMAIN rep /\ rep[1].tag = run[1].tag
      /\ \A j \in DOMAIN rest : j + 1 \in DOMAIN rep /\ rest[j] = rep[j + 1]
    BY <1>2, TailFacts
<1>4. \A i \in 1..p : i \in DOMAIN run
    <2>1. Len(run) \in Nat /\ DOMAIN run = 1..Len(run) /\ Len(req) \in Nat
        BY RequestFacts
    <2> QED
        BY <2>1
<1>5. \A j, k \in DOMAIN rest : j < k => j + 1 < k + 1
    <2>1. DOMAIN rest = 1..(Len(rep) - 1) /\ Len(rep) \in Nat
        BY ReplyFacts, TailFacts
    <2> QED
        BY <2>1
<1> HIDE DEF p
<1>6. ASSUME NEW i \in 1..p, i # 1
      PROVE  \E a, b \in DOMAIN rest : Block(run[i], rest, a, b)
    <2>1. PICK a \in DOMAIN rep, b \in DOMAIN rep : Block(run[i], rep, a, b)
        BY <1>1 DEF InBlocks
    <2>2. rep[1].tag # run[i].tag
        BY <1>1, <1>3, <1>4, <1>6, TagsDiffer
    <2>3. a <= b /\ a \in Nat
        BY <2>1, ReplyFacts DEF Block, Whole
    <2>4. a # 1
        BY <1>3, <2>1, <2>2, <2>3 DEF Block
    <2> QED
        BY <2>1, <2>4, BlockMoves
<1>7. \A j, k \in DOMAIN rest : j < k => rest[j].tag <= rest[k].tag
    <2>1. \A j, k \in DOMAIN rep : j < k => rep[j].tag <= rep[k].tag
        BY <1>1 DEF InBlocks
    <2> SUFFICES ASSUME NEW j \in DOMAIN rest, NEW k \in DOMAIN rest, j < k
                 PROVE  rest[j].tag <= rest[k].tag
        OBVIOUS
    <2>2. rep[j + 1].tag <= rep[k + 1].tag
        BY <1>3, <1>5, <2>1
    <2> QED
        BY <1>3, <2>2
<1>8. \A j \in DOMAIN rest : \E i \in 1..p : rest[j].tag = run[i].tag
    BY <1>1, <1>3 DEF InBlocks
<1> QED
    BY <1>6, <1>7, <1>8 DEF p

\* A reply in the middle of a pipeline or a transaction.
LEMMA ReadsOn ==
    ASSUME NEW run \in Seq(Request), NEW req \in Seq(Request), NEW rep \in Seq(Reply),
           NEW last \in Nat, Exchange(run, req, rep, last), rep # <<>>,
           Intermediate(Head(run).cmd, Head(rep).status),
           NEW run1 \in Seq(Request), Len(run1) = Len(run), run1[1].tag = run[1].tag,
           run1[1].cmd.kind = run[1].cmd.kind,
           run[1].cmd.kind = "pipeline" => run1[1].cmd.arg = run[1].cmd.arg - 1,
           \A k \in DOMAIN run : k # 1 => run1[k] = run[k]
    PROVE  /\ Exchange(run1, req, Tail(rep), last)
           /\ \A known, selected \in Nat :
                  Tracks(run, rep, known, selected) => Tracks(run1, Tail(rep), known, selected)
<1> DEFINE p == Len(run) - Len(req)
           rest == Tail(rep)
<1>1. /\ run # <<>> /\ Len(req) < Len(run) /\ Head(run).tag = Head(rep).tag
      /\ \E b \in DOMAIN rep : Block(Head(run), rep, 1, b)
    BY FirstAnswered
<1>2. /\ 1 \in DOMAIN run /\ 1 \in DOMAIN rep /\ Head(run) = run[1] /\ Head(rep) = rep[1]
      /\ rest \in Seq(Reply)
      /\ \A j \in DOMAIN rest : j + 1 \in DOMAIN rep /\ rest[j] = rep[j + 1]
      /\ \A j \in DOMAIN rep : j # 1 => j - 1 \in DOMAIN rest
    BY <1>1, TailFacts
<1>3. /\ Len(run) \in Nat /\ DOMAIN run = 1..Len(run) /\ DOMAIN run1 = 1..Len(run)
      /\ Len(req) \in Nat /\ DOMAIN req = 1..Len(req)
      /\ \A k \in DOMAIN run : run[k].cmd \in Command
      /\ \A j \in DOMAIN rep : j \in Nat
    BY RequestFacts, ReplyFacts
<1>4. Consecutive(run, last) /\ Pending(run, req)
    BY DEF Exchange
<1>5. \A k \in DOMAIN run : run1[k].tag = run[k].tag
    BY <1>2
<1>6. Consecutive(run1, last)
    BY <1>3, <1>4, <1>5 DEF Consecutive
<1>7. Pending(run1, req)
    <2>1. \A k \in DOMAIN req : (Len(run) - Len(req)) + k # 1 /\ (Len(run) - Len(req)) + k \in DOMAIN run
        BY <1>1, <1>3
    <2> QED
        BY <1>3, <1>4, <2>1 DEF Pending
<1>8. p \in Nat /\ 1 \in 1..p /\ \A i \in 1..p : i \in DOMAIN run
    BY <1>1, <1>3
<1>9. \E a, b \in DOMAIN rest : Block(run1[1], rest, a, b)
    <2>1. PICK b \in DOMAIN rep : Block(run[1], rep, 1, b)
        BY <1>1, <1>2
    <2>2. b # 1
        BY <1>2, <1>3, <2>1 DEF Block, Whole, Intermediate, Command
    <2>3. /\ b \in Nat /\ 1 <= b /\ b - 1 \in DOMAIN rest
          /\ \A j \in DOMAIN rest : j \in Nat /\ 1 <= j
        <3>1. DOMAIN rest = 1..(Len(rep) - 1) /\ DOMAIN rep = 1..Len(rep) /\ Len(rep) \in Nat
            BY ReplyFacts, TailFacts
        <3> QED
            BY <1>2, <2>2, <3>1
    <2>4. 1 \in DOMAIN rest
        <3>1. DOMAIN rest = 1..(Len(rep) - 1) /\ Len(rep) \in Nat
            BY ReplyFacts, TailFacts
        <3> QED
            BY <2>2, <2>3, <3>1
    <2>5. ASSUME NEW j \in DOMAIN rest
          PROVE  rest[j].tag = run1[1].tag <=> 1 <= j /\ j <= b - 1
        <3>1. rest[j] = rep[j + 1] /\ j + 1 \in DOMAIN rep
            BY <1>2
        <3>2. rep[j + 1].tag = run[1].tag <=> 1 <= j + 1 /\ j + 1 <= b
            BY <2>1, <3>1 DEF Block
        <3> QED
            BY <2>3, <3>1, <3>2
    <2>6. Whole(run1[1].cmd, rest, 1, b - 1)
        <3>1. Whole(run[1].cmd, rep, 1, b)
            BY <2>1 DEF Block
        <3>2. CASE run[1].cmd.kind = "pipeline"
            <4>1. b - 1 = run[1].cmd.arg - 1 /\ run[1].cmd.arg \in Nat
                BY <1>2, <1>3, <3>1, <3>2 DEF Whole, Command
            <4>2. 1 <= b - 1 /\ (b - 1) - 1 = run1[1].cmd.arg - 1
                BY <2>2, <2>3, <3>2, <4>1
            <4> QED
                BY <3>2, <4>2 DEF Whole
        <3>3. CASE run[1].cmd.kind = "transaction"
            <4>1. 1 <= b - 1
                BY <2>2, <2>3
            <4>2. ASSUME NEW j \in DOMAIN rest, 1 <= j, j <= b - 1
                  PROVE  rest[j].status \in {"ok", "queued"} <=> j # b - 1
                <5>1. rest[j] = rep[j + 1] /\ j + 1 \in DOMAIN rep
                    BY <1>2
                <5>2. 1 <= j + 1 /\ j + 1 <= b /\ (j + 1 # b <=> j # b - 1)
                    BY <2>3, <4>2
                <5> QED
                    BY <3>1, <3>3, <5>1, <5>2 DEF Whole
            <4> QED
                BY <3>3, <4>1, <4>2 DEF Whole
        <3> QED
            BY <1>2, <3>2, <3>3 DEF Intermediate
    <2> QED
        BY <2>3, <2>4, <2>5, <2>6 DEF Block
<1>10. InBlocks(run1, rest, p)
    <2>1. \A i \in 1..p : \E a, b \in DOMAIN rest : Block(run1[i], rest, a, b)
        <3> SUFFICES ASSUME NEW i \in 1..p, i # 1
                     PROVE  \E a, b \in DOMAIN rest : Block(run1[i], rest, a, b)
            BY <1>9
        <3>1. run1[i] = run[i]
            BY <1>8
        <3> QED
            BY <3>1, Remaining
    <2>2. \A j, k \in DOMAIN rest : j < k => rest[j].tag <= rest[k].tag
        BY Remaining
    <2>3. \A j \in DOMAIN rest : \E i \in 1..p : rest[j].tag = run[i].tag
        BY Remaining
    <2>4. \A j \in DOMAIN rest : \E i \in 1..p : rest[j].tag = run1[i].tag
        BY <1>5, <1>8, <2>3
    <2> QED
        BY <2>1, <2>2, <2>4 DEF InBlocks
<1>11. Exchange(run1, req, rest, last)
    BY <1>6, <1>7, <1>10 DEF Exchange
<1>12. \A db : ~Selects(run, rep, 1, db)
    <2>1. \A i \in DOMAIN run : run[i].tag = rep[1].tag <=> i = 1
        BY <1>1, <1>2, <1>4, TagsDiffer
    <2> QED
        BY <1>2, <2>1 DEF Selects, Intermediate
<1>13. \A j \in DOMAIN rest : \A db : Selects(run1, rest, j, db) <=> Selects(run, rep, j + 1, db)
    <2> SUFFICES ASSUME NEW j \in DOMAIN rest, NEW db
                 PROVE  Selects(run1, rest, j, db) <=> Selects(run, rep, j + 1, db)
        OBVIOUS
    <2>1. rest[j] = rep[j + 1]
        BY <1>2
    <2>2. DOMAIN run1 = DOMAIN run
        BY <1>3
    <2>3. \A k \in DOMAIN run :
              /\ run1[k].tag = run[k].tag
              /\ run1[k].cmd.kind = "select" <=> run[k].cmd.kind = "select"
              /\ run[k].cmd.kind = "select" => run1[k] = run[k]
        BY <1>2, <1>5 DEF Intermediate
    <2> QED
        BY <2>1, <2>2, <2>3 DEF Selects
<1>14. ASSUME NEW known \in Nat, NEW selected \in Nat, Tracks(run, rep, known, selected)
       PROVE  Tracks(run1, rest, known, selected)
    BY <1>12, <1>13, <1>14, TracksOn
<1> QED
    BY <1>11, <1>14

\* The last reply of the first running command, which leaves with it.
LEMMA ReadsLast ==
    ASSUME NEW run \in Seq(Request), NEW req \in Seq(Request), NEW rep \in Seq(Reply),
           NEW last \in Nat, Exchange(run, req, rep, last), rep # <<>>,
           ~Intermediate(Head(run).cmd, Head(rep).status)
    PROVE  /\ Exchange(Tail(run), req, Tail(rep), last)
           /\ \A known, selected \in Nat : Tracks(run, rep, known, selected) =>
                  Tracks(Tail(run), Tail(rep),
                         IF Head(run).cmd.kind = "select" /\ Head(rep).status = "ok"
                         THEN Head(run).cmd.arg ELSE known, selected)
<1> DEFINE n == Len(run)
           q == Len(req)
           p == n - q
           rest == Tail(rep)
           behind == Tail(run)
<1>1. /\ run # <<>> /\ Len(req) < Len(run) /\ Head(run).tag = Head(rep).tag
      /\ \E b \in DOMAIN rep : Block(Head(run), rep, 1, b)
    BY FirstAnswered
<1>2. /\ 1 \in DOMAIN run /\ 1 \in DOMAIN rep /\ Head(run) = run[1] /\ Head(rep) = rep[1]
      /\ rest \in Seq(Reply) /\ behind \in Seq(Request)
      /\ \A j \in DOMAIN rest : j + 1 \in DOMAIN rep /\ rest[j] = rep[j + 1]
      /\ \A k \in DOMAIN behind : k + 1 \in DOMAIN run /\ behind[k] = run[k + 1]
      /\ \A k \in DOMAIN run : k # 1 => k - 1 \in DOMAIN behind
      /\ Len(behind) = n - 1 /\ DOMAIN behind = 1..(n - 1)
    BY <1>1, TailFacts
<1>3. /\ n \in Nat /\ DOMAIN run = 1..n /\ q \in Nat /\ DOMAIN req = 1..q /\ q < n
      /\ run[1].cmd \in Command
      /\ \A j \in DOMAIN rest : j \in Nat /\ 1 < j + 1
    <2>1. DOMAIN rest = 1..(Len(rep) - 1) /\ Len(rep) \in Nat
        BY ReplyFacts, TailFacts
    <2> QED
        BY <1>1, <1>2, <2>1, RequestFacts
<1>4. /\ \A k \in DOMAIN run : run[k].tag = (last - n) + k
      /\ \A k \in DOMAIN req : req[k] = run[(n - q) + k]
      /\ Consecutive(run, last)
    BY DEF Exchange, Consecutive, Pending
<1>5. Block(run[1], rep, 1, 1)
    <2>1. PICK b \in DOMAIN rep : Block(run[1], rep, 1, b)
        BY <1>1, <1>2
    <2>2. b \in Nat
        BY <2>1, ReplyFacts
    <2>3. CASE run[1].cmd.kind = "pipeline"
        <3>1. run[1].cmd.arg = 1
            BY <1>2, <1>3, <2>3 DEF Intermediate, Command
        <3>2. b - 1 = 0
            BY <2>1, <2>3, <3>1 DEF Block, Whole
        <3> QED
            BY <2>1, <2>2, <3>2
    <2>4. CASE run[1].cmd.kind = "transaction"
        <3>1. rep[1].status \notin {"ok", "queued"} /\ 1 <= b
            BY <1>2, <2>1, <2>4 DEF Intermediate, Block, Whole
        <3>2. b = 1
            BY <1>2, <2>1, <2>4, <3>1 DEF Block, Whole
        <3> QED
            BY <2>1, <3>2
    <2>5. CASE run[1].cmd.kind \notin {"pipeline", "transaction"}
        BY <2>1, <2>5 DEF Block, Whole
    <2> QED
        BY <2>3, <2>4, <2>5
<1>6. \A j \in DOMAIN rest : rest[j].tag # run[1].tag
    <2> SUFFICES ASSUME NEW j \in DOMAIN rest PROVE rest[j].tag # run[1].tag
        OBVIOUS
    <2>1. rest[j] = rep[j + 1] /\ j + 1 \in DOMAIN rep /\ ~(j + 1 <= 1)
        BY <1>2, <1>3
    <2> QED
        BY <1>5, <2>1 DEF Block
<1>7. /\ \A i \in 1..p : i # 1 => \E a, b \in DOMAIN rest : Block(run[i], rest, a, b)
      /\ \A j, k \in DOMAIN rest : j < k => rest[j].tag <= rest[k].tag
      /\ \A j \in DOMAIN rest : \E i \in 1..p : rest[j].tag = run[i].tag
    BY Remaining
<1>8. /\ p - 1 \in Nat /\ (n - 1) - q = p - 1
      /\ \A i \in 1..(p - 1) : i + 1 \in 1..p /\ i + 1 # 1 /\ i \in 1..(n - 1)
      /\ \A i \in 1..p : i # 1 => i - 1 \in 1..(p - 1) /\ (i - 1) + 1 = i
    BY <1>3
<1>9. Consecutive(behind, last)
    <2> SUFFICES ASSUME NEW k \in 1..(n - 1) PROVE behind[k].tag = (last - (n - 1)) + k
        BY <1>2 DEF Consecutive
    <2>1. behind[k] = run[k + 1] /\ run[k + 1].tag = (last - n) + (k + 1)
        BY <1>2, <1>4
    <2> QED
        BY <1>3, <2>1
<1>10. Pending(behind, req)
    <2>1. ASSUME NEW k \in 1..q PROVE req[k] = behind[((n - 1) - q) + k]
        <3>1. ((n - 1) - q) + k \in 1..(n - 1) /\ (((n - 1) - q) + k) + 1 = (n - q) + k
            BY <1>3
        <3>2. behind[((n - 1) - q) + k] = run[(n - q) + k]
            BY <1>2, <3>1
        <3> QED
            BY <1>3, <1>4, <3>2
    <2>2. q <= n - 1
        BY <1>3
    <2> QED
        BY <1>2, <1>3, <2>1, <2>2 DEF Pending
<1> HIDE DEF n, q, p, rest, behind
<1>11. InBlocks(behind, rest, p - 1)
    <2>1. \A i \in 1..(p - 1) : behind[i] = run[i + 1]
        BY <1>2, <1>8
    <2>2. \A i \in 1..(p - 1) : \E a, b \in DOMAIN rest : Block(behind[i], rest, a, b)
        BY <1>7, <1>8, <2>1
    <2>3. ASSUME NEW j \in DOMAIN rest PROVE \E i \in 1..(p - 1) : rest[j].tag = behind[i].tag
        <3>1. PICK i \in 1..p : rest[j].tag = run[i].tag
            BY <1>7
        <3>2. i # 1
            BY <1>6, <3>1
        <3>3. i - 1 \in 1..(p - 1) /\ behind[i - 1] = run[i]
            BY <1>8, <2>1, <3>2
        <3> QED
            BY <3>1, <3>3
    <2> QED
        BY <1>7, <2>2, <2>3 DEF InBlocks
<1>12. Exchange(behind, req, rest, last)
    <2>1. Len(behind) - Len(req) = p - 1
        BY <1>2, <1>8 DEF q
    <2> QED
        BY <1>9, <1>10, <1>11, <2>1 DEF Exchange
<1>13. ASSUME NEW j \in DOMAIN rest, NEW db
       PROVE  Selects(behind, rest, j, db) <=> Selects(run, rep, j + 1, db)
    <2>1. rest[j] = rep[j + 1] /\ rest[j].tag # run[1].tag
        BY <1>2, <1>6
    <2>2. \A k \in DOMAIN behind : k + 1 \in DOMAIN run /\ behind[k] = run[k + 1]
        BY <1>2
    <2>3. \A k \in DOMAIN run : k # 1 => k - 1 \in DOMAIN behind /\ behind[k - 1] = run[k]
        <3>1. \A k \in DOMAIN run : (k - 1) + 1 = k
            BY <1>3
        <3> QED
            BY <1>2, <3>1
    <2>4. Selects(behind, rest, j, db) => Selects(run, rep, j + 1, db)
        BY <2>1, <2>2 DEF Selects
    <2>5. Selects(run, rep, j + 1, db) => Selects(behind, rest, j, db)
        BY <2>1, <2>3 DEF Selects
    <2> QED
        BY <2>4, <2>5
<1>14. \A i \in DOMAIN run : run[i].tag = rep[1].tag <=> i = 1
    BY <1>1, <1>2, <1>4, TagsDiffer
<1>15. ASSUME NEW known \in Nat, NEW selected \in Nat, Tracks(run, rep, known, selected)
       PROVE  Tracks(behind, rest, IF run[1].cmd.kind = "select" /\ rep[1].status = "ok"
                                   THEN run[1].cmd.arg ELSE known, selected)
    <2> DEFINE known1 == IF run[1].cmd.kind = "select" /\ rep[1].status = "ok"
                         THEN run[1].cmd.arg ELSE known
    <2>1. \A db : Selects(run, rep, 1, db) => known1 = db
        BY <1>14 DEF Selects
    <2>2. ASSUME \A db : ~Selects(run, rep, 1, db) PROVE known1 = known
        <3>1. ~Selects(run, rep, 1, run[1].cmd.arg)
            BY <2>2
        <3> QED
            BY <1>2, <1>14, <3>1 DEF Selects
    <2>3. \A j \in DOMAIN rest : \A db : Selects(behind, rest, j, db) <=> Selects(run, rep, j + 1, db)
        BY <1>13
    <2> HIDE DEF known1
    <2>4. Tracks(behind, rest, known1, selected)
        BY <1>15, <2>1, <2>2, <2>3, TracksOn DEF rest
    <2> QED
        BY <2>4 DEF known1
<1> QED
    BY <1>2, <1>12, <1>15 DEF behind, rest


-----------------------------------------------------------------------------
(* The exchange is kept by every step of a session that nobody disturbs. *)

\* No owner has been destroyed, nobody disconnects, and if a connect may time
\* out, none has: what waits in the socket's buffer after a timeout is sent
\* later, and its replies meet the commands of another time.
Undisturbed ==
    /\ destroyed = {} /\ IsConnected
    /\ "timeout" \in Faults => Healthy

\* Replies come from a connected socket; without one nothing is under way; only
\* a nested loop connects; and nothing has been selected before the first connect.
Wired ==
    /\ socket # "connected" => replies = <<>>
    /\ socket \in {"null", "unconnected"} => runningCommands = <<>> /\ requests = <<>>
    /\ socket = "connecting" => nested \in {"init", "reconnect"}
    /\ nested = "init" \/ thread = "starting" => dbNumber = 0
    /\ thread = "starting" => socket = "null"

Sound ==
    /\ Wired
    /\ Exchange(runningCommands, requests, replies, sent)
    /\ socket = "connected" => Tracks(runningCommands, replies, dbNumber, serverDb)

\* When the thread is gone, so is all that it had under way.
Ended ==
    /\ thread = "finished" => runningCommands = <<>> /\ requests = <<>> /\ replies = <<>>
    /\ thread = "crashed" => stoppingTransporter

DeliveryInvariant ==
    /\ PromiseInvariant
    /\ Ended
    /\ Undisturbed => Sound

\* Nothing is sent unasked, and no transaction is refused in the middle.
NothingUnasked == Faults \intersect {"errorState", "queueError"} = {}

LEMMA InitDelivery == Init => DeliveryInvariant
<1> SUFFICES ASSUME Init PROVE DeliveryInvariant
    OBVIOUS
<1>1. Exchange(runningCommands, requests, replies, sent)
    BY NothingSent DEF Init
<1> QED
    BY <1>1, InitPromise DEF Init, DeliveryInvariant, Ended, Sound, Wired

\* Owners stay destroyed, a disconnected session disconnected, an unhealthy one unhealthy.
LEMMA SessionWorsens ==
    ASSUME PromiseInvariant, [Next]_vars
    PROVE  /\ destroyed \subseteq destroyed'
           /\ IsConnected' => IsConnected
           /\ Healthy' => Healthy
<1>1. [Promise!Next]_(Promise!vars)
    BY PromiseStep
<1>2. destroyed \subseteq destroyed'
    BY <1>1 DEF Promise!Next, Promise!Post, Promise!Answer, Promise!Destroy, Promise!Cancel, Promise!Break, Promise!Lose,
                Promise!Close, Promise!vars
<1>3. /\ SessionState' = "open" => SessionState = "open"
      /\ SessionState' \in {"open", "broken"} => SessionState \in {"open", "broken"}
    <2>1. SessionState \in {"open", "broken", "closed"}
        BY DEF SessionState
    <2> QED
        BY <1>1, <2>1
        DEF Promise!Next, Promise!Post, Promise!Answer, Promise!Destroy, Promise!Cancel, Promise!Break, Promise!Lose,
            Promise!Close, Promise!vars
<1>4. /\ IsConnected <=> SessionState \in {"open", "broken"}
      /\ Healthy <=> SessionState = "open"
    BY DEF SessionState, Healthy
<1>5. /\ IsConnected' <=> SessionState' \in {"open", "broken"}
      /\ Healthy' <=> SessionState' = "open"
    BY DEF SessionState, Healthy
<1> QED
    BY <1>2, <1>3, <1>4, <1>5

LEMMA ErrorIsSeen == ASSUME TypeOK, outbox' = Append(outbox, "error") PROVE ~Healthy'
<1>1. outbox \in Seq(Signal) /\ "error" \in Signal
    BY DEF TypeOK, Signal
<1>2. Len(outbox) + 1 \in DOMAIN outbox' /\ outbox'[Len(outbox) + 1] = "error"
    BY <1>1, AppendProperties
<1> QED
    BY <1>2 DEF Healthy

\* A session that is disturbed remains so.
LEMMA DisturbedStays ==
    ASSUME PromiseInvariant, [Next]_vars, Undisturbed'
    PROVE  Undisturbed
BY SessionWorsens DEF Undisturbed

LEMMA EndedStep == ASSUME PromiseInvariant, Ended, [Next]_vars PROVE Ended'
<1> USE DEF Ended
<1>1. CASE thread \in {"starting", "running"} /\ thread' \in {"starting", "running"}
    BY <1>1
<1>2. CASE CallerNext
    BY <1>2, CallerControl DEF PromiseInvariant, IsConnected, netVars, queueVars
<1>3. CASE Quit
    BY <1>3 DEF Quit, DisconnectFromHost
<1>4. CASE TransporterInit \/ InboxNext
    BY <1>1, <1>4 DEF TransporterInit, InboxNext, AddCommands, AuthOk, CancelCommands, ShutdownStart,
                      Receive, AtEventLoop
<1>5. CASE QueueNext
    <2>1. thread = "running"
        BY <1>5 DEF QueueNext, QueueIsEmpty, RunInternalCommand, Poll, RunNextCommand, Resume,
                    ProcessingQueue
    <2>2. CASE QueueIsEmpty \/ Poll
        BY <2>1, <2>2 DEF QueueIsEmpty, Poll, threadVars
    <2>3. CASE ~(QueueIsEmpty \/ Poll)
        <3>1. PICK todo, c, w : RunCommands(todo, c, w)
            BY <1>5, <2>3 DEF QueueNext, RunInternalCommand, RunNextCommand, Resume
        <3>2. \/ thread' = thread
              \/ thread' = "crashed" /\ socket = "null" /\ UNCHANGED stoppingTransporter
            BY <3>1 DEF RunCommands, Transmit, Reconnect, Refuse, Crash
        <3> QED
            BY <2>1, <3>2 DEF PromiseInvariant, ControlInvariant, NoSocketNoCalls
    <2> QED
        BY <2>2, <2>3
<1>6. CASE ConnectNext \/ ReplyNext
    BY <1>1, <1>6, ConnectControl, ReplyControl DEF PromiseInvariant
<1>7. CASE ServerNext
    <2>1. thread = "running" /\ thread' = thread
        BY <1>7 DEF ServerNext, ServerExecutes, ServerProtocolError, ServerRefusesSelect,
                    ServerAbortsTransaction, ServerErrorState, Respond, threadVars
    <2> QED
        BY <1>1, <2>1
<1>8. CASE UNCHANGED vars
    BY <1>8 DEF vars, callerVars, queueVars, threadVars, netVars
<1> QED
    BY <1>2, <1>3, <1>4, <1>5, <1>6, <1>7, <1>8 DEF Next

\* What the proofs for the handlers start from.
Calm == PromiseInvariant /\ Undisturbed /\ Sound /\ Undisturbed'

LEMMA CalmTypes ==
    ASSUME Calm
    PROVE  /\ runningCommands \in Seq(Request) /\ requests \in Seq(Request)
           /\ replies \in Seq(Reply) /\ sent \in Nat /\ dbNumber \in Nat /\ serverDb \in Nat
           /\ TypeOK /\ ControlInvariant
           /\ Exchange(runningCommands, requests, replies, sent)
           /\ ~stoppingTransporter /\ ~stoppingTransporter'
BY DEF Calm, PromiseInvariant, ControlInvariant, TypeOK, Sound, Undisturbed, IsConnected

\* The calls that are posted and taken, the end of the thread, and what the
\* queues do among themselves, leave the exchange alone.
LEMMA ThreadSound ==
    ASSUME Calm, CallerNext \/ TransporterInit \/ Quit \/ InboxNext
    PROVE  Sound'
<1>1. CASE CallerNext
    <2>1. UNCHANGED <<queueVars, thread, loopVars, netVars, dbNumber>>
        BY <1>1, CallerControl, CalmTypes
        DEF CallerNext, Submit, DestroyOwner, Disconnect, ReceiveSignal
    <2> QED
        BY <2>1 DEF Calm, Sound, Wired, queueVars, loopVars, netVars
<1>2. CASE TransporterInit
    BY <1>2 DEF TransporterInit, Calm, Sound, Wired, callerVars, queueVars
<1>3. ~Quit
    BY DEF Quit, Calm, Undisturbed, IsConnected
<1>4. CASE AddCommands \/ AuthOk
    BY <1>4 DEF AddCommands, AuthOk, Calm, Sound, Wired, callerVars, loopVars, netVars
<1>5. ~CancelCommands
    <2>1. inbox # <<>> => Head(inbox) = inbox[1] /\ 1 \in DOMAIN inbox
        BY CalmTypes, TailFacts DEF TypeOK
    <2> QED
        BY <2>1 DEF CancelCommands, Receive, Calm, PromiseInvariant, InboxGenuine, Undisturbed
<1>6. ~ShutdownStart
    <2>1. ShutdownStart => UNCHANGED stoppingTransporter /\ Receive("shutdown")
        BY DEF ShutdownStart, callerVars
    <2> QED
        BY <2>1, CalmTypes, ReceivedCall DEF ControlInvariant
<1> QED
    BY <1>1, <1>2, <1>3, <1>4, <1>5, <1>6 DEF InboxNext

\* executeCmd: what it writes is tagged and pending; it reconnects only when
\* nothing is under way.
LEMMA RunCommandsSound ==
    ASSUME Calm, thread = "running", NEW todo \in Seq(Command), NEW c, NEW w, RunCommands(todo, c, w)
    PROVE  Sound'
<1>1. UNCHANGED <<dbNumber, serverDb>>
    BY DEF RunCommands
<1>2. CASE Transmit(todo, c, w)
    <2>1. /\ Tagged(todo) \in Seq(Request) /\ Len(Tagged(todo)) = Len(todo)
          /\ \A k \in DOMAIN Tagged(todo) : Tagged(todo)[k].tag = sent + k
        <3>1. Len(todo) \in Nat /\ DOMAIN todo = 1..Len(todo)
            BY SeqFacts
        <3>2. Tagged(todo) \in Seq(Request)
            BY TaggedType, CalmTypes
        <3>3. DOMAIN Tagged(todo) = 1..Len(todo)
            BY <3>1 DEF Tagged
        <3>4. Len(Tagged(todo)) = Len(todo)
            BY <3>1, <3>2, <3>3, SeqFacts
        <3>5. \A k \in DOMAIN todo : Tagged(todo)[k].tag = sent + k
            BY DEF Tagged
        <3> QED
            BY <3>1, <3>2, <3>3, <3>4, <3>5
    <2>2. /\ Exchange(runningCommands', requests', replies', sent')
          /\ Tracks(runningCommands, replies, dbNumber, serverDb) =>
                 Tracks(runningCommands', replies, dbNumber, serverDb)
        BY <1>2, <2>1, CalmTypes, Sends DEF Transmit
    <2>3. todo = <<>> => runningCommands' = runningCommands /\ requests' = requests
        <3>1. todo = <<>> => Tagged(todo) = <<>>
            BY DEF Tagged
        <3> QED
            BY <1>2, <3>1, CalmTypes, ConcatEmptySeq DEF Transmit
    <2>4. Wired'
        BY <1>1, <1>2, <2>3 DEF Transmit, Return, Calm, Sound, Wired
    <2> QED
        BY <1>1, <1>2, <2>2, <2>4 DEF Transmit, Calm, Sound
<1>3. CASE Reconnect(todo, c, w)
    <2>1. runningCommands' = <<>> /\ requests' = <<>> /\ replies' = <<>> /\ sent' = sent
        BY <1>3 DEF Reconnect, Calm, Sound, Wired
    <2>2. Exchange(runningCommands', requests', replies', sent')
        BY <2>1, NothingSent, CalmTypes
    <2> QED
        BY <1>1, <1>3, <2>1, <2>2 DEF Reconnect, Sound, Wired
<1>4. CASE Refuse(todo, c, w)
    <2>1. UNCHANGED <<runningCommands, requests, replies, sent, socket, thread>>
        BY <1>4 DEF Refuse, Calm, Sound, Wired
    <2>2. nested' = "init" => nested = "init"
        BY <1>4 DEF Refuse, Return
    <2> QED
        BY <1>1, <1>4, <2>1, <2>2 DEF Refuse, Calm, Sound, Wired
<1>5. ~Crash(todo, c, w)
    BY CalmTypes DEF Crash, ControlInvariant, NoSocketNoCalls
<1> QED
    BY <1>2, <1>3, <1>4, <1>5 DEF RunCommands

LEMMA QueueSound == ASSUME Calm, QueueNext PROVE Sound'
<1>1. CASE QueueIsEmpty \/ Poll
    BY <1>1 DEF QueueIsEmpty, Poll, Return, Calm, Sound, Wired, callerVars, threadVars, netVars
<1>2. CASE RunInternalCommand
    <2>1. Head(internalCommands) \in Command /\ thread = "running"
        BY <1>2, CalmTypes, HeadTailProperties DEF TypeOK, RunInternalCommand, ProcessingQueue
    <2> QED
        BY <1>2, <2>1, WithSelectType, RunCommandsSound DEF RunInternalCommand
<1>3. CASE RunNextCommand
    <2>1. Head(commands) \in Command /\ thread = "running"
        BY <1>3, CalmTypes, HeadTailProperties DEF TypeOK, RunNextCommand, ProcessingQueue
    <2> QED
        BY <1>3, <2>1, WithSelectType, RunCommandsSound DEF RunNextCommand
<1>4. CASE Resume
    BY <1>4, CalmTypes, RunCommandsSound DEF TypeOK, Resume
<1> QED
    BY <1>1, <1>2, <1>3, <1>4 DEF QueueNext

\* A connection begins with nothing to read and both sides in database 0; when
\* it is lost, nothing stays under way.
LEMMA ConnectSound == ASSUME Calm, ConnectNext PROVE Sound'
<1>1. UNCHANGED <<thread, stoppingTransporter>> /\ thread = "running"
    BY ConnectControl, CalmTypes
<1>2. CASE ConnectSucceeds
    <2>1. replies' = <<>> /\ UNCHANGED <<runningCommands, requests, replies, sent>>
        BY <1>2 DEF ConnectSucceeds, Calm, Sound, Wired, queueVars
    <2>2. dbNumber' = 0 /\ serverDb' = 0 /\ socket' = "connected" /\ nested' \in {"none", "resume"}
        BY <1>2 DEF ConnectSucceeds, EndNestedLoop, ResetDbIndex, Calm, Sound, Wired
    <2>3. Tracks(runningCommands', replies', dbNumber', serverDb')
        BY <2>1, <2>2 DEF Tracks
    <2> QED
        BY <1>1, <2>1, <2>2, <2>3 DEF Calm, Sound, Wired
<1>3. CASE ConnectFails
    <2>1. /\ runningCommands' = <<>> /\ requests' = <<>> /\ replies' = <<>> /\ sent' = sent
          /\ socket' = "unconnected" /\ nested' \in {"none", "resume"}
        BY <1>3 DEF ConnectFails, EndNestedLoop, ErrorOccurred, Calm, Sound, Wired
    <2>2. Exchange(runningCommands', requests', replies', sent')
        BY <2>1, NothingSent, CalmTypes
    <2> QED
        BY <1>1, <2>1, <2>2 DEF Sound, Wired
<1>4. ~ConnectTimesOut
    <2> SUFFICES ASSUME ConnectTimesOut PROVE FALSE
        OBVIOUS
    <2>1. "timeout" \in Faults /\ outbox' = Append(outbox, "error")
        BY DEF ConnectTimesOut, Spend, ErrorOccurred
    <2> QED
        BY <2>1, CalmTypes, ErrorIsSeen DEF Calm, Undisturbed
<1>5. ~ConnectInterrupted
    BY CalmTypes DEF ConnectInterrupted
<1>6. ~ConnectsLate
    BY DEF ConnectsLate, Calm, Sound, Wired
<1>7. CASE SocketError \/ UnknownSocketError
    <2>1. /\ runningCommands' = <<>> /\ requests' = <<>> /\ replies' = <<>> /\ sent' = sent
          /\ socket' = "unconnected" /\ nested' \in {"none", "inline"}
        BY <1>7 DEF SocketError, UnknownSocketError, ConnectionLost, ErrorOccurred, loopVars
    <2>2. Exchange(runningCommands', requests', replies', sent')
        BY <2>1, NothingSent, CalmTypes
    <2> QED
        BY <1>1, <2>1, <2>2 DEF Sound, Wired
<1> QED
    BY <1>2, <1>3, <1>4, <1>5, <1>6, <1>7 DEF ConnectNext

\* sendResponse gives the oldest reply to the first running command, and that
\* is the one it answers.
LEMMA ReplySound == ASSUME Calm, ReplyNext PROVE Sound'
<1>1. /\ replies # <<>> /\ replies' = Tail(replies)
      /\ UNCHANGED <<thread, nested, socket, requests, serverDb, sent>>
    BY ReplyControl, CalmTypes
    DEF ReplyNext, DiscardReply, UnexpectedReply, IntermediateReply, FinalReply, RetryCommand,
        CompleteCommand, ReadReply, threadVars, loopVars
<1>2. /\ socket = "connected" /\ nested # "init" /\ thread # "starting"
    BY <1>1, CalmTypes, ReplyControl DEF Calm, Sound, Wired, ControlInvariant, NestedConnects
<1>3. Wired'
    BY <1>1, <1>2 DEF Wired
<1>4. /\ runningCommands # <<>> /\ Head(runningCommands) = runningCommands[1]
      /\ 1 \in DOMAIN runningCommands
      /\ Head(runningCommands).cmd \in Command
    <2>1. runningCommands # <<>>
        BY <1>1, CalmTypes, FirstAnswered
    <2> QED
        BY <2>1, CalmTypes, TailFacts, RequestFacts
<1>5. Tracks(runningCommands, replies, dbNumber, serverDb)
    BY <1>2 DEF Calm, Sound
<1>6. ~DiscardReply /\ ~UnexpectedReply
    BY <1>4, CalmTypes DEF DiscardReply, UnexpectedReply
<1>7. CASE IntermediateReply
    <2>1. /\ Intermediate(Head(runningCommands).cmd, Head(replies).status)
          /\ runningCommands' = IF Head(runningCommands).cmd.kind = "pipeline"
                                THEN [runningCommands EXCEPT ![1].cmd.arg = Head(runningCommands).cmd.arg - 1]
                                ELSE runningCommands
          /\ UNCHANGED dbNumber
        BY <1>7 DEF IntermediateReply, callerVars
    <2>2. runningCommands' \in Seq(Request)
        BY <1>1, ReplyControl, CalmTypes DEF ControlInvariant, TypeOK
    <2>3. /\ Len(runningCommands') = Len(runningCommands)
          /\ runningCommands'[1].tag = runningCommands[1].tag
          /\ runningCommands'[1].cmd.kind = runningCommands[1].cmd.kind
          /\ runningCommands[1].cmd.kind = "pipeline" =>
                 runningCommands'[1].cmd.arg = runningCommands[1].cmd.arg - 1
          /\ \A k \in DOMAIN runningCommands : k # 1 => runningCommands'[k] = runningCommands[k]
        <3>1. CASE Head(runningCommands).cmd.kind # "pipeline"
            BY <1>4, <2>1, <3>1
        <3>2. CASE Head(runningCommands).cmd.kind = "pipeline"
            <4>1. runningCommands' = [runningCommands EXCEPT ![1] =
                      [runningCommands[1] EXCEPT !.cmd =
                          [runningCommands[1].cmd EXCEPT !.arg = runningCommands[1].cmd.arg - 1]]]
                BY <1>4, <2>1, <3>2
            <4>2. runningCommands[1] \in Request /\ runningCommands[1].cmd \in Command
                BY <1>4, CalmTypes, RequestFacts
            <4>3. runningCommands'[1] = [runningCommands[1] EXCEPT !.cmd =
                      [runningCommands[1].cmd EXCEPT !.arg = runningCommands[1].cmd.arg - 1]]
                BY <1>4, <4>1
            <4>4. /\ runningCommands'[1].tag = runningCommands[1].tag
                  /\ runningCommands'[1].cmd.kind = runningCommands[1].cmd.kind
                  /\ runningCommands'[1].cmd.arg = runningCommands[1].cmd.arg - 1
                BY <4>2, <4>3 DEF Request, Command
            <4>5. \A k \in DOMAIN runningCommands : k # 1 => runningCommands'[k] = runningCommands[k]
                BY <4>1
            <4>6. Len(runningCommands') = Len(runningCommands)
                <5>1. DOMAIN runningCommands' = DOMAIN runningCommands
                    BY <4>1
                <5> QED
                    BY <2>2, <5>1, CalmTypes, LenOfDomain
            <4> QED
                BY <4>4, <4>5, <4>6
        <3> QED
            BY <3>1, <3>2
    <2>4. /\ Exchange(runningCommands', requests, Tail(replies), sent)
          /\ Tracks(runningCommands', Tail(replies), dbNumber, serverDb)
        BY <1>1, <1>5, <2>1, <2>2, <2>3, CalmTypes, ReadsOn
    <2> QED
        BY <1>1, <1>3, <2>1, <2>4 DEF Sound
<1>8. ASSUME FinalReply,
             dbNumber' = IF Head(runningCommands).cmd.kind = "select" /\ Head(replies).status = "ok"
                         THEN Head(runningCommands).cmd.arg ELSE dbNumber
      PROVE  Sound'
    <2>1. runningCommands' = Tail(runningCommands)
          /\ ~Intermediate(Head(runningCommands).cmd, Head(replies).status)
        BY <1>8 DEF FinalReply, Dequeue
    <2>2. /\ Exchange(Tail(runningCommands), requests, Tail(replies), sent)
          /\ Tracks(Tail(runningCommands), Tail(replies), dbNumber', serverDb)
        BY <1>1, <1>5, <1>8, <2>1, CalmTypes, ReadsLast
    <2> QED
        BY <1>1, <1>3, <2>1, <2>2 DEF Sound
<1>9. CASE RetryCommand
    BY <1>8, <1>9 DEF RetryCommand, callerVars
<1>10. CASE CompleteCommand
    BY <1>8, <1>10 DEF CompleteCommand
<1> QED
    BY <1>6, <1>7, <1>9, <1>10 DEF ReplyNext

\* The statuses are a whole answer to the command.
Shaped(cmd, statuses) ==
    /\ statuses \in Seq(Status) /\ statuses # <<>>
    /\ cmd.kind = "pipeline" => Len(statuses) - 1 = cmd.arg - 1
    /\ cmd.kind = "transaction" =>
           \A j \in 1..Len(statuses) : statuses[j] \in {"ok", "queued"} <=> j # Len(statuses)
    /\ cmd.kind \notin {"pipeline", "transaction"} => Len(statuses) = 1

\* The replies that the server makes of them.
RepliesTo(tag, statuses) == [k \in DOMAIN statuses |-> [tag |-> tag, status |-> statuses[k]]]

LEMMA RepliesToFacts ==
    ASSUME NEW tag \in Nat, NEW cmd, NEW statuses, Shaped(cmd, statuses)
    PROVE  LET answer == RepliesTo(tag, statuses)
           IN  /\ answer \in Seq(Reply) /\ answer # <<>>
               /\ \A k \in DOMAIN answer : answer[k].tag = tag
               /\ Whole(cmd, answer, 1, Len(answer))
               /\ Head(answer).status = statuses[1]
<1> DEFINE answer == RepliesTo(tag, statuses)
<1>1. /\ Len(statuses) \in Nat \ {0} /\ DOMAIN statuses = 1..Len(statuses)
      /\ \A k \in DOMAIN statuses : statuses[k] \in Status
    BY SeqFacts, TailFacts DEF Shaped
<1>2. \A k \in DOMAIN statuses : [tag |-> tag, status |-> statuses[k]] \in Reply
    BY <1>1 DEF Reply, Status
<1>3. /\ DOMAIN answer = 1..Len(statuses)
      /\ \A k \in DOMAIN answer : answer[k] = [tag |-> tag, status |-> statuses[k]]
    BY <1>1 DEF RepliesTo
<1>4. answer \in [1..Len(statuses) -> Reply]
    BY <1>1, <1>2 DEF RepliesTo
<1> HIDE DEF answer
<1>5. answer \in Seq(Reply)
    BY <1>1, <1>4
<1>6. Len(answer) = Len(statuses)
    BY <1>1, <1>3, <1>5, SeqFacts
<1>7. answer # <<>> /\ Head(answer) = answer[1] /\ 1 \in DOMAIN answer
    <2>1. Len(answer) # 0
        BY <1>1, <1>6
    <2>2. answer # <<>>
        BY <2>1, EmptySeq
    <2> QED
        BY <1>5, <2>2, TailFacts
<1>8. Whole(cmd, answer, 1, Len(answer))
    <2>1. 1 <= Len(answer)
        BY <1>1, <1>6
    <2>2. cmd.kind = "transaction" =>
              \A j \in DOMAIN answer : answer[j].status \in {"ok", "queued"} <=> j # Len(answer)
        <3>1. \A j \in DOMAIN answer : answer[j].status = statuses[j] /\ j \in 1..Len(statuses)
            BY <1>3
        <3> HIDE DEF answer
        <3> QED
            BY <1>6, <3>1 DEF Shaped
    <2> QED
        BY <1>6, <2>1, <2>2 DEF Whole, Shaped
<1> QED
    BY <1>3, <1>5, <1>7, <1>8 DEF answer

\* The server answers the first pending request, in the shape of its kind.
LEMMA RespondSound ==
    ASSUME Calm, NEW statuses, Respond(statuses), Shaped(Head(requests).cmd, statuses),
           serverDb' = IF Head(requests).cmd.kind = "select" /\ statuses[1] = "ok"
                       THEN Head(requests).cmd.arg ELSE serverDb
    PROVE  Sound'
<1> DEFINE answer == RepliesTo(Head(requests).tag, statuses)
<1>1. requests # <<>> /\ Head(requests).tag \in Nat
    <2>1. requests # <<>>
        BY DEF Respond
    <2>2. Head(requests) = requests[1] /\ 1 \in DOMAIN requests
        BY <2>1, CalmTypes, TailFacts
    <2> QED
        BY <2>1, <2>2, CalmTypes, RequestFacts
<1>2. requests' = Tail(requests) /\ replies' = replies \o answer
    BY DEF Respond, RepliesTo
<1> HIDE DEF answer
<1>3. /\ answer \in Seq(Reply) /\ answer # <<>>
      /\ \A k \in DOMAIN answer : answer[k].tag = Head(requests).tag
      /\ Whole(Head(requests).cmd, answer, 1, Len(answer))
      /\ Head(answer).status = statuses[1]
    BY <1>1, RepliesToFacts DEF answer
<1>4. /\ UNCHANGED <<runningCommands, dbNumber, thread, nested, socket, sent>>
      /\ socket = "connected" /\ thread = "running"
    BY DEF Respond, callerVars, queueVars, threadVars, loopVars
<1>5. Tracks(runningCommands, replies, dbNumber, serverDb)
    BY <1>4 DEF Calm, Sound
<1>6. /\ Exchange(runningCommands, Tail(requests), replies \o answer, sent)
      /\ \A known, selected \in Nat : Tracks(runningCommands, replies, known, selected) =>
             Tracks(runningCommands, replies \o answer, known,
                    IF Head(requests).cmd.kind = "select" /\ Head(answer).status = "ok"
                    THEN Head(requests).cmd.arg ELSE selected)
    BY <1>1, <1>3, CalmTypes, Executes
<1>7. Tracks(runningCommands, replies', dbNumber, serverDb')
    BY <1>2, <1>3, <1>5, <1>6, CalmTypes
<1> QED
    BY <1>2, <1>4, <1>6, <1>7 DEF Calm, Sound, Wired

LEMMA ServerSound == ASSUME NothingUnasked, Calm, ServerNext PROVE Sound'
<1> DEFINE cmd == Head(requests).cmd
<1>1. requests # <<>> => cmd \in Command
    <2>1. requests # <<>> => Head(requests) = requests[1] /\ 1 \in DOMAIN requests
        BY CalmTypes, TailFacts
    <2> QED
        BY <2>1, CalmTypes, RequestFacts
<1>2. ~ServerAbortsTransaction /\ ~ServerErrorState
    BY DEF ServerAbortsTransaction, ServerErrorState, Spend, NothingUnasked
<1>3. CASE ServerExecutes
    <2> DEFINE statuses == SuccessStatuses(cmd)
    <2>1. /\ cmd \in Command /\ Respond(statuses)
          /\ serverDb' = IF cmd.kind = "select" THEN cmd.arg ELSE serverDb
        BY <1>1, <1>3 DEF ServerExecutes
    <2>2. /\ cmd.arg \in Nat
          /\ cmd.kind \in {"plain", "select", "handshake", "pipeline", "transaction"}
          /\ cmd.kind = "pipeline" => cmd.arg > 0
        BY <2>1 DEF Command
    <2>3. statuses \in Seq(Status)
        BY <2>1, SuccessStatusesType, GoodStatuses
    <2>4. CASE cmd.kind = "pipeline"
        <3>1. statuses = [k \in 1..cmd.arg |-> "value"]
            BY <2>4 DEF SuccessStatuses
        <3>2. DOMAIN statuses = 1..cmd.arg
            BY <3>1
        <3>3. Len(statuses) = cmd.arg
            BY <2>2, <2>3, <3>2, SeqFacts
        <3>4. statuses # <<>> /\ Len(statuses) - 1 = cmd.arg - 1 /\ Len(statuses) \in Nat
            BY <2>2, <2>4, <3>2, <3>3
        <3> HIDE DEF statuses
        <3>5. Shaped(cmd, statuses)
            BY <2>3, <2>4, <3>4 DEF Shaped
        <3> QED
            BY <2>1, <2>4, <3>5, RespondSound
    <2>5. CASE cmd.kind = "transaction"
        <3> DEFINE queued == [k \in 1..cmd.arg |-> "queued"]
                   front == <<"ok">> \o queued
        <3>1. statuses = front \o <<"value">>
            BY <2>5 DEF SuccessStatuses
        <3>2. queued \in Seq(Status) /\ DOMAIN queued = 1..cmd.arg
            BY <2>2 DEF Status
        <3>3. Len(queued) = cmd.arg /\ \A k \in DOMAIN queued : queued[k] = "queued"
            BY <2>2, <3>2, SeqFacts
        <3>4. /\ <<"ok">> \in Seq(Status) /\ Len(<<"ok">>) = 1 /\ DOMAIN <<"ok">> = {1}
              /\ <<"ok">>[1] = "ok"
              /\ <<"value">> \in Seq(Status) /\ Len(<<"value">>) = 1 /\ DOMAIN <<"value">> = {1}
              /\ <<"value">>[1] = "value"
            BY DEF Status
        <3> HIDE DEF queued
        <3>5. /\ front \in Seq(Status) /\ Len(front) = cmd.arg + 1
              /\ DOMAIN front = 1..(cmd.arg + 1)
            <4>1. /\ front \in Seq(Status) /\ Len(front) = Len(<<"ok">>) + Len(queued)
                  /\ DOMAIN front = 1..(Len(<<"ok">>) + Len(queued))
                BY <3>2, <3>4, ConcatFacts
            <4>2. Len(<<"ok">>) + Len(queued) = cmd.arg + 1
                BY <2>2, <3>3, <3>4
            <4> QED
                BY <4>1, <4>2
        <3>6. \A k \in DOMAIN front : front[k] \in {"ok", "queued"}
            <4> SUFFICES ASSUME NEW k \in DOMAIN front PROVE front[k] \in {"ok", "queued"}
                OBVIOUS
            <4>1. k \in DOMAIN <<"ok">> \/ k - 1 \in DOMAIN queued
                BY <3>2, <3>4, ConcatFacts
            <4>2. k \in DOMAIN <<"ok">> => front[k] = "ok"
                BY <3>2, <3>4, ConcatFacts
            <4>3. k - 1 \in DOMAIN queued => front[1 + (k - 1)] = "queued"
                BY <3>2, <3>3, <3>4, ConcatFacts
            <4>4. 1 + (k - 1) = k
                BY <2>2, <3>5
            <4> QED
                BY <4>1, <4>2, <4>3, <4>4
        <3> HIDE DEF front
        <3>7. /\ Len(statuses) = cmd.arg + 2
              /\ \A k \in 1..(cmd.arg + 1) : statuses[k] = front[k]
              /\ statuses[cmd.arg + 2] = "value"
            <4>1. /\ Len(statuses) = Len(front) + Len(<<"value">>)
                  /\ \A k \in DOMAIN front : statuses[k] = front[k]
                  /\ statuses[Len(front) + 1] = "value"
                BY <3>1, <3>4, <3>5, ConcatFacts
            <4>2. Len(front) + Len(<<"value">>) = cmd.arg + 2 /\ Len(front) + 1 = cmd.arg + 2
                BY <2>2, <3>4, <3>5
            <4> QED
                BY <3>5, <4>1, <4>2
        <3>8. \A j \in 1..Len(statuses) : statuses[j] \in {"ok", "queued"} <=> j # Len(statuses)
            <4>1. \A j \in 1..(cmd.arg + 2) : j = cmd.arg + 2 \/ j \in 1..(cmd.arg + 1)
                BY <2>2
            <4>2. \A j \in 1..(cmd.arg + 1) : j # cmd.arg + 2
                BY <2>2
            <4> QED
                BY <3>5, <3>6, <3>7, <4>1, <4>2
        <3>9. Len(statuses) \in Nat /\ Len(statuses) # 0
            BY <2>2, <3>7
        <3>10. statuses # <<>>
            BY <3>9, EmptySeq
        <3> HIDE DEF statuses
        <3>11. Shaped(cmd, statuses)
            BY <2>3, <2>5, <3>8, <3>10 DEF Shaped
        <3> QED
            BY <2>1, <2>5, <3>11, RespondSound
    <2>6. CASE cmd.kind \in {"plain", "select", "handshake"}
        <3>1. /\ statuses = <<"value">> \/ statuses = <<"ok">> \/ statuses = <<"pong">>
              /\ cmd.kind = "select" => statuses = <<"ok">>
            BY <2>6 DEF SuccessStatuses
        <3>2. Len(statuses) = 1 /\ statuses # <<>> /\ (cmd.kind = "select" => statuses[1] = "ok")
            BY <3>1
        <3> HIDE DEF statuses
        <3>3. Shaped(cmd, statuses)
            BY <2>3, <2>6, <3>2 DEF Shaped
        <3> QED
            BY <2>1, <2>6, <3>2, <3>3, RespondSound
    <2> QED
        BY <2>2, <2>4, <2>5, <2>6
<1>4. CASE ServerProtocolError
    <2>1. /\ Respond(<<"protocolError">>) /\ cmd.kind \in {"plain", "select", "handshake"}
          /\ serverDb' = serverDb
        BY <1>4 DEF ServerProtocolError
    <2>2. /\ <<"protocolError">> \in Seq(Status) /\ Len(<<"protocolError">>) = 1
          /\ <<"protocolError">> # <<>> /\ <<"protocolError">>[1] # "ok"
        BY DEF Status
    <2>3. Shaped(cmd, <<"protocolError">>)
        BY <2>1, <2>2 DEF Shaped
    <2> QED
        BY <2>1, <2>2, <2>3, RespondSound
<1>5. CASE ServerRefusesSelect
    <2>1. /\ Respond(<<"error">>) /\ cmd.kind = "select" /\ serverDb' = serverDb
        BY <1>5 DEF ServerRefusesSelect
    <2>2. /\ <<"error">> \in Seq(Status) /\ Len(<<"error">>) = 1
          /\ <<"error">> # <<>> /\ <<"error">>[1] # "ok"
        BY DEF Status
    <2>3. Shaped(cmd, <<"error">>)
        BY <2>1, <2>2 DEF Shaped
    <2> QED
        BY <2>1, <2>2, <2>3, RespondSound
<1> QED
    BY <1>2, <1>3, <1>4, <1>5 DEF ServerNext

LEMMA DeliveryStep ==
    ASSUME NothingUnasked
    PROVE  DeliveryInvariant /\ [Next]_vars => DeliveryInvariant'
<1> SUFFICES ASSUME DeliveryInvariant, [Next]_vars PROVE DeliveryInvariant'
    OBVIOUS
<1>1. PromiseInvariant' /\ Ended'
    BY PromiseStep, EndedStep DEF DeliveryInvariant
<1>2. ASSUME Undisturbed' PROVE Sound'
    <2>1. Calm
        BY <1>2, DisturbedStays DEF DeliveryInvariant, Calm
    <2>2. CASE Next
        BY <2>1, <2>2, ThreadSound, QueueSound, ConnectSound, ReplySound, ServerSound DEF Next
    <2>3. CASE UNCHANGED vars
        BY <2>1, <2>3
        DEF vars, callerVars, queueVars, threadVars, loopVars, netVars, Calm, Sound, Wired
    <2> QED
        BY <2>2, <2>3
<1> QED
    BY <1>1, <1>2 DEF DeliveryInvariant

LEMMA DeliveryHolds == ASSUME NothingUnasked PROVE Spec => []DeliveryInvariant
BY InitDelivery, DeliveryStep, PTL DEF Spec

-----------------------------------------------------------------------------

\* Every running command has its request, or a reply, on the way.
LEMMA ExchangeMatches ==
    ASSUME TypeOK, Exchange(runningCommands, requests, replies, sent)
    PROVE  RepliesMatch
<1>1. /\ runningCommands \in Seq(Request) /\ requests \in Seq(Request) /\ replies \in Seq(Reply)
      /\ sent \in Nat
    BY DEF TypeOK
<1>2. replies # <<>> => runningCommands # <<>> /\ Head(runningCommands).tag = Head(replies).tag
    BY <1>1, FirstAnswered
<1>3. ASSUME NEW k \in DOMAIN runningCommands
      PROVE  \/ \E j \in DOMAIN requests : requests[j].tag = runningCommands[k].tag
             \/ \E j \in DOMAIN replies : replies[j].tag = runningCommands[k].tag
    <2> DEFINE p == Len(runningCommands) - Len(requests)
    <2>1. /\ DOMAIN runningCommands = 1..Len(runningCommands) /\ Len(runningCommands) \in Nat
          /\ DOMAIN requests = 1..Len(requests) /\ Len(requests) \in Nat
          /\ DOMAIN replies = 1..Len(replies) /\ Len(replies) \in Nat
        BY <1>1, RequestFacts, ReplyFacts
    <2>2. CASE k \in 1..p
        <3>1. PICK a \in DOMAIN replies, b \in DOMAIN replies : Block(runningCommands[k], replies, a, b)
            BY <2>2 DEF Exchange, InBlocks
        <3>2. a <= a /\ a <= b
            BY <2>1, <3>1 DEF Block, Whole
        <3> QED
            BY <3>1, <3>2 DEF Block
    <2>3. CASE k \notin 1..p
        <3>1. k - p \in DOMAIN requests /\ p + (k - p) = k
            BY <2>1, <2>3
        <3>2. requests[k - p] = runningCommands[p + (k - p)]
            BY <3>1 DEF Exchange, Pending
        <3> QED
            BY <3>1, <3>2
    <2> QED
        BY <2>2, <2>3
<1> QED
    BY <1>2, <1>3 DEF RepliesMatch

\* readyRead gives each reply to the command it answers, and every command it
\* waits for is still on its way (sendCommand, sendResponse, the retry and the
\* reconnect): as long as no owner is destroyed, whose running commands
\* cancelCommands forgets, no connect times out, and the server sends nothing
\* unasked and refuses no command inside a transaction.
THEOREM RepliesAreDelivered ==
    ASSUME Faults \intersect {"timeout", "errorState", "queueError"} = {}
    PROVE  Spec => [](destroyed = {} => RepliesMatch)
<1>1. NothingUnasked /\ "timeout" \notin Faults
    BY DEF NothingUnasked
<1>2. ASSUME DeliveryInvariant, destroyed = {} PROVE RepliesMatch
    <2>1. TypeOK
        BY <1>2 DEF DeliveryInvariant, PromiseInvariant, ControlInvariant
    <2>2. CASE stoppingTransporter
        BY <2>2 DEF RepliesMatch
    <2>3. CASE ~stoppingTransporter /\ thread = "finished"
        <3>1. replies = <<>> /\ runningCommands = <<>>
            BY <1>2, <2>3 DEF DeliveryInvariant, Ended
        <3> QED
            BY <3>1 DEF RepliesMatch
    <2>4. CASE ~stoppingTransporter /\ thread # "finished"
        <3>1. thread \in {"starting", "running"}
            BY <1>2, <2>1, <2>4 DEF DeliveryInvariant, Ended, TypeOK
        <3>2. Sound
            BY <1>1, <1>2, <2>4, <3>1 DEF DeliveryInvariant, Undisturbed, IsConnected
        <3> QED
            BY <2>1, <3>2, ExchangeMatches DEF Sound
    <2> QED
        BY <2>2, <2>3, <2>4
<1> QED
    BY <1>1, <1>2, DeliveryHolds, PTL

\* When nothing is under way in a healthy session, m_dbNumber is the database that
\* the server has selected, whatever connects failed or timed out, were repeated or
\* had their SELECT refused: the SELECT of executeCmd, its OK in sendResponse and
\* resetDbIndex keep the two together, under the conditions above.
THEOREM DatabaseIsTracked ==
    ASSUME Faults \intersect {"errorState", "queueError"} = {}
    PROVE  Spec => [](destroyed = {} => DatabaseTracked)
<1>1. NothingUnasked
    BY DEF NothingUnasked
<1>2. ASSUME DeliveryInvariant, destroyed = {} PROVE DatabaseTracked
    <2> SUFFICES ASSUME Healthy, socket = "connected", requests \o replies = <<>>
                 PROVE  dbNumber = serverDb
        BY DEF DatabaseTracked
    <2>1. Sound
        BY <1>2 DEF DeliveryInvariant, Undisturbed, Healthy
    <2>2. replies = <<>>
        <3>1. requests \in Seq(Request \union Reply) /\ replies \in Seq(Request \union Reply)
            BY <1>2, SeqGrows DEF DeliveryInvariant, PromiseInvariant, ControlInvariant, TypeOK
        <3>2. Len(requests) \in Nat /\ Len(replies) \in Nat
            BY <3>1, SeqFacts
        <3>3. Len(requests \o replies) = Len(requests) + Len(replies)
            BY <3>1, ConcatFacts
        <3>4. Len(replies) = 0
            BY <3>2, <3>3
        <3> QED
            BY <3>1, <3>4, EmptySeq
    <2> QED
        BY <2>1, <2>2 DEF Sound, Tracks
<1> QED
    BY <1>1, <1>2, DeliveryHolds, PTL

-----------------------------------------------------------------------------
(* The order of the users' commands of normal priority. *)

User(cmd) == cmd.id # 0 /\ ~cmd.hi

\* The users' commands in s are in the order they were posted; those in s were
\* posted before those in t.
Ascending(s) == \A j, k \in DOMAIN s : j < k /\ User(s[j]) /\ User(s[k]) => s[j].id < s[k].id
Below(s, t) == \A j \in DOMAIN s : \A k \in DOMAIN t : User(s[j]) /\ User(t[k]) => s[j].id < t[k].id

AddsIn(box) == {k \in DOMAIN box : box[k].type = "add"}

\* What is running is before what waits, and that before what is still in the inbox.
InLine(run, cmds, box) ==
    /\ Ascending(run) /\ Ascending(cmds) /\ Below(run, cmds)
    /\ \A k \in AddsIn(box) : /\ Ascending(box[k].batch)
                              /\ Below(run, box[k].batch) /\ Below(cmds, box[k].batch)
    /\ \A j, k \in AddsIn(box) : j < k => Below(box[j].batch, box[k].batch)

LEMMA NoUsers ==
    ASSUME NEW s, \A k \in DOMAIN s : ~User(s[k])
    PROVE  Ascending(s) /\ \A t : Below(s, t) /\ Below(t, s)
BY DEF Ascending, Below

LEMMA OrderOfConcat ==
    ASSUME NEW s \in Seq(Command), NEW t \in Seq(Command)
    PROVE  /\ Ascending(s) /\ Ascending(t) /\ Below(s, t) => Ascending(s \o t)
           /\ \A u : Below(s, u) /\ Below(t, u) => Below(s \o t, u)
           /\ \A u : Below(u, s) /\ Below(u, t) => Below(u, s \o t)
<1> DEFINE st == s \o t
           m == Len(s)
<1>1. /\ m \in Nat /\ DOMAIN s = 1..m
      /\ Len(t) \in Nat /\ DOMAIN t = 1..Len(t)
      /\ DOMAIN st = 1..(m + Len(t))
      /\ \A k \in DOMAIN s : st[k] = s[k]
      /\ \A k \in DOMAIN t : st[m + k] = t[k]
    BY SeqFacts, ConcatFacts
<1> HIDE DEF st, m
<1>2. \A k \in DOMAIN st : \/ k \in DOMAIN s /\ st[k] = s[k]
                           \/ k - m \in DOMAIN t /\ k > m /\ st[k] = t[k - m]
    <2> SUFFICES ASSUME NEW k \in DOMAIN st, k \notin DOMAIN s
                 PROVE  k - m \in DOMAIN t /\ k > m /\ st[k] = t[k - m]
        BY <1>1
    <2>1. k - m \in DOMAIN t /\ k > m /\ m + (k - m) = k
        BY <1>1
    <2>2. st[m + (k - m)] = t[k - m]
        BY <1>1, <2>1
    <2> QED
        BY <2>1, <2>2
<1>3. ASSUME Ascending(s), Ascending(t), Below(s, t),
             NEW j \in DOMAIN st, NEW k \in DOMAIN st, j < k, User(st[j]), User(st[k])
      PROVE  st[j].id < st[k].id
    <2>1. CASE j \in DOMAIN s /\ k \in DOMAIN s /\ st[j] = s[j] /\ st[k] = s[k]
        BY <1>3, <2>1 DEF Ascending
    <2>2. CASE j \in DOMAIN s /\ st[j] = s[j] /\ k - m \in DOMAIN t /\ st[k] = t[k - m]
        BY <1>3, <2>2 DEF Below
    <2>3. CASE j - m \in DOMAIN t /\ st[j] = t[j - m] /\ k - m \in DOMAIN t /\ st[k] = t[k - m]
        <3>1. j - m < k - m
            BY <1>1, <1>3
        <3> QED
            BY <1>3, <2>3, <3>1 DEF Ascending
    <2>4. ~(j > m /\ k \in DOMAIN s)
        BY <1>1, <1>3
    <2> QED
        BY <1>2, <2>1, <2>2, <2>3, <2>4
<1>4. ASSUME NEW u, Below(s, u), Below(t, u) PROVE Below(st, u)
    <2> SUFFICES ASSUME NEW j \in DOMAIN st, NEW k \in DOMAIN u, User(st[j]), User(u[k])
                 PROVE  st[j].id < u[k].id
        BY DEF Below
    <2>1. CASE j \in DOMAIN s /\ st[j] = s[j]
        BY <1>4, <2>1 DEF Below
    <2>2. CASE j - m \in DOMAIN t /\ st[j] = t[j - m]
        BY <1>4, <2>2 DEF Below
    <2> QED
        BY <1>2, <2>1, <2>2
<1>5. ASSUME NEW u, Below(u, s), Below(u, t) PROVE Below(u, st)
    <2> SUFFICES ASSUME NEW j \in DOMAIN u, NEW k \in DOMAIN st, User(u[j]), User(st[k])
                 PROVE  u[j].id < st[k].id
        BY DEF Below
    <2>1. CASE k \in DOMAIN s /\ st[k] = s[k]
        BY <1>5, <2>1 DEF Below
    <2>2. CASE k - m \in DOMAIN t /\ st[k] = t[k - m]
        BY <1>5, <2>2 DEF Below
    <2> QED
        BY <1>2, <2>1, <2>2
<1> QED
    BY <1>3, <1>4, <1>5 DEF Ascending, st

\* A queue without its head, and the head before the rest of it.
LEMMA OrderOfTail ==
    ASSUME NEW s \in Seq(Command), s # <<>>
    PROVE  /\ Ascending(s) => Ascending(Tail(s))
           /\ \A u : Below(s, u) => Below(Tail(s), u)
           /\ Ascending(s) => \A k \in DOMAIN Tail(s) :
                  User(Head(s)) /\ User(Tail(s)[k]) => Head(s).id < Tail(s)[k].id
           /\ \A u : Below(s, u) => \A k \in DOMAIN u : User(Head(s)) /\ User(u[k]) => Head(s).id < u[k].id
           /\ \A u : Below(u, s) => \A k \in DOMAIN u : User(u[k]) /\ User(Head(s)) => u[k].id < Head(s).id
           /\ \A u : Below(u, s) => Below(u, Tail(s))
<1> DEFINE t == Tail(s)
<1>1. /\ 1 \in DOMAIN s /\ Head(s) = s[1] /\ DOMAIN s = 1..Len(s) /\ Len(s) \in Nat
      /\ DOMAIN t = 1..(Len(s) - 1)
      /\ \A k \in DOMAIN t : k + 1 \in DOMAIN s /\ t[k] = s[k + 1]
    BY SeqFacts, TailFacts
<1> HIDE DEF t
<1>2. \A j, k \in DOMAIN t : j < k => j + 1 < k + 1
    BY <1>1
<1>3. \A k \in DOMAIN t : 1 < k + 1
    BY <1>1
<1>4. Ascending(s) => Ascending(t)
    <2> SUFFICES ASSUME Ascending(s), NEW j \in DOMAIN t, NEW k \in DOMAIN t, j < k,
                        User(t[j]), User(t[k])
                 PROVE  t[j].id < t[k].id
        BY DEF Ascending
    <2> QED
        BY <1>1, <1>2 DEF Ascending
<1>5. Ascending(s) => \A k \in DOMAIN t : User(Head(s)) /\ User(t[k]) => Head(s).id < t[k].id
    BY <1>1, <1>3 DEF Ascending
<1> QED
    BY <1>1, <1>4, <1>5 DEF Below, t

LEMMA OrderOfSubsequence ==
    ASSUME NEW s \in Seq(Command), NEW I \in SUBSET DOMAIN s
    PROVE  /\ Ascending(s) => Ascending(Subsequence(s, I))
           /\ \A u : Below(s, u) => Below(Subsequence(s, I), u)
           /\ \A u : Below(u, s) => Below(u, Subsequence(s, I))
<1> DEFINE t == Subsequence(s, I)
           n == Cardinality(I)
<1>1. PICK f \in [1..n -> I] :
          /\ \A k \in 1..n : t[k] = s[f[k]]
          /\ \A j, k \in 1..n : j < k => f[j] < f[k]
    BY SubsequenceOrder
<1>2. DOMAIN t = 1..n
    BY DEF Subsequence
<1> HIDE DEF t, n
<1>3. \A k \in DOMAIN t : f[k] \in DOMAIN s /\ t[k] = s[f[k]]
    BY <1>1, <1>2
<1>4. Ascending(s) => Ascending(t)
    <2> SUFFICES ASSUME Ascending(s), NEW j \in DOMAIN t, NEW k \in DOMAIN t, j < k,
                        User(t[j]), User(t[k])
                 PROVE  t[j].id < t[k].id
        BY DEF Ascending
    <2>1. f[j] < f[k]
        BY <1>1, <1>2
    <2> QED
        BY <1>3, <2>1 DEF Ascending
<1> QED
    BY <1>3, <1>4 DEF Below, t

\* What executeCmd runs for a command is in its place.
LEMMA OrderOfSelect ==
    ASSUME NEW cmd \in Command
    PROVE  /\ Ascending(WithSelect(cmd))
           /\ \A k \in DOMAIN WithSelect(cmd) : User(WithSelect(cmd)[k]) => WithSelect(cmd)[k] = cmd
<1> DEFINE s == WithSelect(cmd)
<1>1. s = <<SelectCommand(cmd.db), cmd>> \/ s = <<cmd>>
    BY DEF WithSelect
<1>2. ~User(SelectCommand(cmd.db))
    BY DEF User, SelectCommand
<1> HIDE DEF s
<1>3. \A j, k \in DOMAIN s : j < k => ~User(s[j])
    BY <1>1, <1>2
<1>4. \A k \in DOMAIN s : User(s[k]) => s[k] = cmd
    BY <1>1, <1>2
<1> QED
    BY <1>3, <1>4 DEF Ascending, s

\* The commands under way with a pipeline's counter turned are as they were.
LEMMA OrderOfSame ==
    ASSUME NEW s, NEW t, DOMAIN s = DOMAIN t,
           \A k \in DOMAIN s : s[k].id = t[k].id /\ s[k].hi = t[k].hi
    PROVE  /\ Ascending(s) => Ascending(t)
           /\ \A u : Below(s, u) => Below(t, u)
BY DEF Ascending, Below, User

\* The oldest call taken out of the inbox, and a younger one put in.
LEMMA InLineTail ==
    ASSUME NEW run, NEW cmds, NEW box \in Seq(Call), box # <<>>, InLine(run, cmds, box)
    PROVE  /\ InLine(run, cmds, Tail(box))
           /\ Head(box).type = "add" =>
                  /\ Ascending(Head(box).batch)
                  /\ Below(run, Head(box).batch) /\ Below(cmds, Head(box).batch)
                  /\ \A k \in AddsIn(Tail(box)) : Below(Head(box).batch, Tail(box)[k].batch)
<1> DEFINE rest == Tail(box)
<1>1. /\ 1 \in DOMAIN box /\ Head(box) = box[1] /\ Len(box) \in Nat
      /\ DOMAIN rest = 1..(Len(box) - 1)
      /\ \A k \in DOMAIN rest : k + 1 \in DOMAIN box /\ rest[k] = box[k + 1]
    BY TailFacts
<1> HIDE DEF rest
<1>2. \A k \in AddsIn(rest) : k + 1 \in AddsIn(box) /\ rest[k] = box[k + 1] /\ 1 < k + 1
    BY <1>1 DEF AddsIn
<1>3. \A j, k \in AddsIn(rest) : j < k => j + 1 < k + 1
    BY <1>1 DEF AddsIn
<1>4. Head(box).type = "add" => 1 \in AddsIn(box)
    BY <1>1 DEF AddsIn
<1> QED
    BY <1>1, <1>2, <1>3, <1>4 DEF InLine, rest

LEMMA InLineAppend ==
    ASSUME NEW run, NEW cmds, NEW box \in Seq(Call), NEW call \in Call, InLine(run, cmds, box),
           call.type = "add" =>
               /\ Ascending(call.batch) /\ Below(run, call.batch) /\ Below(cmds, call.batch)
               /\ \A k \in AddsIn(box) : Below(box[k].batch, call.batch)
    PROVE  InLine(run, cmds, Append(box, call))
<1> DEFINE all == Append(box, call)
           n == Len(box)
<1>1. /\ n \in Nat /\ DOMAIN box = 1..n /\ DOMAIN all = 1..(n + 1) /\ all[n + 1] = call
      /\ \A k \in 1..n : all[k] = box[k]
    BY SeqFacts, AppendProperties
<1> HIDE DEF all, n
<1>2. \A k \in AddsIn(all) : \/ k \in AddsIn(box) /\ all[k] = box[k]
                             \/ k = n + 1 /\ all[k] = call /\ call.type = "add"
    BY <1>1 DEF AddsIn
<1>3. \A k \in AddsIn(box) : k <= n
    BY <1>1 DEF AddsIn
<1>4. \A j, k \in AddsIn(all) : j < k => j # n + 1
    BY <1>1 DEF AddsIn
<1>5. \A j, k \in AddsIn(all) : j < k => Below(all[j].batch, all[k].batch)
    BY <1>2, <1>4 DEF InLine
<1> QED
    BY <1>2, <1>5 DEF InLine, all

-----------------------------------------------------------------------------
(* The order is kept while the session is well. *)

\* A session that is well has a socket that is connected or connecting for the
\* first time: an error of the socket is on its way to the Connection at once.
Smooth ==
    /\ socket # "unconnected" /\ suspended = <<>> /\ nested \in {"none", "init"}
    /\ \A k \in DOMAIN internalCommands : internalCommands[k].hi

OrderInvariant ==
    /\ PromiseInvariant
    /\ WakeupInvariant
    /\ Healthy => Smooth /\ InLine(CommandsOf(runningCommands), commands, inbox)

\* Nothing puts a running command back in front of the others.
NothingPutBack == Faults \intersect {"unknown", "protocolError"} = {}

\* What the proofs for the handlers start from.
Orderly ==
    /\ PromiseInvariant /\ WakeupInvariant /\ Healthy /\ Healthy'
    /\ Smooth /\ InLine(CommandsOf(runningCommands), commands, inbox)
StaysOrderly == Smooth' /\ InLine(CommandsOf(runningCommands'), commands', inbox')

LEMMA OrderlyTypes ==
    ASSUME Orderly
    PROVE  /\ TypeOK /\ ControlInvariant /\ ~stoppingTransporter /\ ~stoppingTransporter'
           /\ runningCommands \in Seq(Request) /\ commands \in Seq(Command)
           /\ internalCommands \in Seq(Command) /\ inbox \in Seq(Call)
           /\ CommandsOf(runningCommands) \in Seq(Command)
BY CommandsOfType
DEF Orderly, PromiseInvariant, ControlInvariant, TypeOK, Healthy, IsConnected

\* What is left alone stays in order.
LEMMA OrderLeft ==
    ASSUME Orderly, UNCHANGED <<runningCommands, commands, inbox>>, Smooth'
    PROVE  StaysOrderly
BY DEF Orderly, StaysOrderly

LEMMA InitOrder == Init => OrderInvariant
<1> SUFFICES ASSUME Init PROVE OrderInvariant
    OBVIOUS
<1>1. CommandsOf(runningCommands) = <<>> /\ commands = <<>> /\ inbox = <<>>
    BY DEF Init, CommandsOf
<1>2. InLine(<<>>, <<>>, <<>>)
    BY DEF InLine, Ascending, Below, AddsIn
<1> QED
    BY <1>1, <1>2, InitPromise, InitWakeup DEF Init, OrderInvariant, Smooth

\* A batch is posted behind everything that was posted before.
LEMMA SubmitOrder ==
    ASSUME Orderly, NEW batch \in Batches, Submit(batch)
    PROVE  InLine(CommandsOf(runningCommands), commands, inbox')
<1> DEFINE m == Len(submitted)
           posted == [k \in DOMAIN batch |-> [batch[k] EXCEPT !.id = m + k]]
           call == [type |-> "add", batch |-> posted]
<1>1. m \in Nat /\ DOMAIN submitted = 1..m
    BY OrderlyTypes, SeqFacts DEF TypeOK
<1>2. /\ Len(batch) \in Nat /\ DOMAIN batch = 1..Len(batch)
      /\ \A k \in DOMAIN batch : batch[k] \in Command
    BY BatchesAssumption, SeqFacts
<1>3. /\ DOMAIN posted = 1..Len(batch)
      /\ \A k \in DOMAIN posted : posted[k].id = m + k /\ posted[k] \in Command
    BY <1>1, <1>2 DEF Command
<1>4. posted \in Seq(Command)
    <2>1. posted \in [1..Len(batch) -> Command]
        BY <1>2, <1>3
    <2> HIDE DEF posted
    <2> QED
        BY <1>2, <2>1
<1>5. inbox' = Append(inbox, call)
    BY DEF Submit
<1> HIDE DEF posted
<1>6. call \in Call
    BY <1>4, CallTypes
<1>7. Ascending(posted)
    BY <1>1, <1>2, <1>3 DEF Ascending
<1>8. ASSUME NEW s \in Seq(Genuine) PROVE Below(s, posted)
    <2> SUFFICES ASSUME NEW j \in DOMAIN s, NEW k \in DOMAIN posted, User(s[j])
                 PROVE  s[j].id < posted[k].id
        BY DEF Below
    <2>1. s[j].id \in 1..m
        BY <1>1, SeqFacts DEF User, Genuine
    <2>2. posted[k].id = m + k /\ k \in 1..Len(batch)
        BY <1>3
    <2> QED
        BY <1>1, <1>2, <2>1, <2>2
<1>9. /\ CommandsOf(runningCommands) \in Seq(Genuine) /\ commands \in Seq(Genuine)
      /\ \A k \in AddsIn(inbox) : inbox[k].batch \in Seq(Genuine)
    BY DEF Orderly, PromiseInvariant, HandsGenuine, InboxGenuine, Adds, AddsIn
<1> QED
    BY <1>5, <1>6, <1>7, <1>8, <1>9, OrderlyTypes, InLineAppend DEF Orderly

LEMMA CallerOrder == ASSUME Orderly, CallerNext PROVE StaysOrderly
<1>1. UNCHANGED <<runningCommands, commands, internalCommands, nested, suspended, socket>>
    BY CallerControl, OrderlyTypes DEF queueVars, loopVars, netVars
<1>2. Smooth'
    BY <1>1 DEF Orderly, Smooth
<1>3. CASE \E batch \in Batches : Submit(batch)
    BY <1>1, <1>2, <1>3, SubmitOrder DEF StaysOrderly
<1>4. ASSUME NEW call \in Call, inbox' = Append(inbox, call),
             call.type = "add" => call.batch = <<HandshakeCommand>>
      PROVE  StaysOrderly
    <2>1. \A k \in DOMAIN <<HandshakeCommand>> : ~User(<<HandshakeCommand>>[k])
        BY DEF User, HandshakeCommand
    <2>2. /\ Ascending(<<HandshakeCommand>>)
          /\ \A t : Below(<<HandshakeCommand>>, t) /\ Below(t, <<HandshakeCommand>>)
        BY <2>1, NoUsers
    <2>3. InLine(CommandsOf(runningCommands), commands, inbox')
        BY <1>4, <2>2, OrderlyTypes, InLineAppend DEF Orderly
    <2> QED
        BY <1>1, <1>2, <2>3 DEF StaysOrderly
<1>5. CASE \E owner \in Owners : DestroyOwner(owner)
    <2>1. PICK owner \in Owners : inbox' = Append(inbox, [type |-> "cancel", owner |-> owner])
        BY <1>5 DEF DestroyOwner
    <2> QED
        BY <1>4, <2>1, CallTypes
<1>6. ~Disconnect
    BY OrderlyTypes DEF Disconnect, Shutdown
<1>7. CASE ReceiveSignal
    <2>1. [type |-> "add", batch |-> <<HandshakeCommand>>] \in Call
        <3>1. <<HandshakeCommand>> \in Seq(Command)
            BY HandshakeType
        <3> QED
            BY <3>1, CallTypes
    <2>2. ~Shutdown
        BY OrderlyTypes DEF Shutdown
    <2> QED
        BY <1>4, <1>7, <2>1, <2>2, CallTypes DEF ReceiveSignal, HandleSignal
<1> QED
    BY <1>3, <1>5, <1>6, <1>7 DEF CallerNext

LEMMA AddOrder == ASSUME Orderly, AddCommands PROVE StaysOrderly
<1> DEFINE batch == Head(inbox).batch
           hi == Subsequence(batch, HiPriority(batch))
           low == Subsequence(batch, LowPriority(batch))
           run == CommandsOf(runningCommands)
<1>1. /\ batch \in Seq(Command) /\ inbox # <<>> /\ inbox' = Tail(inbox) /\ Head(inbox).type = "add"
      /\ internalCommands' = internalCommands \o hi /\ commands' = commands \o low
      /\ UNCHANGED <<runningCommands, nested, suspended, socket>>
    BY OrderlyTypes, ReceiveType DEF AddCommands, Receive, Enqueue, loopVars, netVars
<1>2. /\ HiPriority(batch) \in SUBSET DOMAIN batch /\ LowPriority(batch) \in SUBSET DOMAIN batch
      /\ hi \in Seq(Command) /\ low \in Seq(Command)
    BY <1>1, FilterType DEF HiPriority, LowPriority
<1>3. \A k \in DOMAIN internalCommands' : internalCommands'[k].hi
    <2>1. \A k \in DOMAIN hi : hi[k].hi
        <3> HIDE DEF batch
        <3>1. \A i \in HiPriority(batch) : batch[i].hi
            BY DEF HiPriority
        <3>2. \A k \in DOMAIN hi : \E i \in HiPriority(batch) : hi[k] = batch[i]
            BY <1>1, <1>2, SubsequenceElements
        <3> HIDE DEF hi
        <3> QED
            BY <3>1, <3>2
    <2>2. \A k \in DOMAIN internalCommands : internalCommands[k].hi
        BY DEF Orderly, Smooth
    <2> HIDE DEF hi
    <2>3. ASSUME NEW k \in DOMAIN internalCommands' PROVE internalCommands'[k].hi
        <3>1. k \in DOMAIN internalCommands \/ k - Len(internalCommands) \in DOMAIN hi
            BY <1>1, <1>2, OrderlyTypes, ConcatFacts
        <3>2. k \in DOMAIN internalCommands => internalCommands'[k] = internalCommands[k]
            BY <1>1, <1>2, OrderlyTypes, ConcatFacts
        <3>3. k - Len(internalCommands) \in DOMAIN hi =>
                  internalCommands'[Len(internalCommands) + (k - Len(internalCommands))]
                      = hi[k - Len(internalCommands)]
            <4>1. \A i \in DOMAIN hi : internalCommands'[Len(internalCommands) + i] = hi[i]
                <5>1. internalCommands \in Seq(Command) /\ hi \in Seq(Command)
                    BY <1>2, OrderlyTypes
                <5>2. \A i \in DOMAIN hi : (internalCommands \o hi)[Len(internalCommands) + i] = hi[i]
                    BY <5>1, ConcatFacts
                <5> QED
                    BY <1>1, <5>2
            <4> QED
                BY <4>1
        <3>4. Len(internalCommands) + (k - Len(internalCommands)) = k
            <4>1. Len(internalCommands) \in Nat
                BY OrderlyTypes, SeqFacts
            <4>2. DOMAIN internalCommands' = 1..(Len(internalCommands) + Len(hi)) /\ Len(hi) \in Nat
                BY <1>1, <1>2, OrderlyTypes, ConcatFacts, SeqFacts
            <4> QED
                BY <4>1, <4>2
        <3> QED
            BY <2>1, <2>2, <3>1, <3>2, <3>3, <3>4
    <2> QED
        BY <2>3
<1> HIDE DEF batch, hi, low
<1>4. Smooth'
    BY <1>1, <1>3 DEF Orderly, Smooth
<1>5. /\ InLine(run, commands, Tail(inbox))
      /\ Ascending(batch) /\ Below(run, batch) /\ Below(commands, batch)
      /\ \A k \in AddsIn(Tail(inbox)) : Below(batch, Tail(inbox)[k].batch)
    BY <1>1, OrderlyTypes, InLineTail DEF Orderly, batch
<1>6. /\ Ascending(low) /\ Below(run, low) /\ Below(commands, low)
      /\ \A k \in AddsIn(Tail(inbox)) : Below(low, Tail(inbox)[k].batch)
    BY <1>1, <1>2, <1>5, OrderOfSubsequence DEF low
<1> HIDE DEF run
<1>7. /\ Ascending(commands') /\ Below(run, commands')
      /\ \A k \in AddsIn(Tail(inbox)) : Below(commands', Tail(inbox)[k].batch)
    BY <1>1, <1>2, <1>5, <1>6, OrderlyTypes, OrderOfConcat DEF InLine
<1>8. InLine(run, commands', inbox')
    BY <1>1, <1>5, <1>7 DEF InLine
<1> QED
    BY <1>1, <1>4, <1>8 DEF StaysOrderly, run

LEMMA CancelOrder == ASSUME Orderly, CancelCommands PROVE StaysOrderly
<1> DEFINE owner == Head(inbox).owner
           run == CommandsOf(runningCommands)
           I == DOMAIN run \ OwnedBy(run, owner)
           J == DOMAIN commands \ OwnedBy(commands, owner)
<1>1. /\ inbox # <<>> /\ inbox' = Tail(inbox)
      /\ runningCommands' = Subsequence(runningCommands, I)
      /\ commands' = Subsequence(commands, J)
      /\ UNCHANGED <<internalCommands, nested, suspended, socket>>
    BY DEF CancelCommands, Receive, WithoutOwner, loopVars, netVars
<1>2. /\ I \in SUBSET DOMAIN run /\ I \in SUBSET DOMAIN runningCommands
      /\ J \in SUBSET DOMAIN commands
    BY OrderlyTypes, CommandsOfType
<1> HIDE DEF I, J
<1>3. CommandsOf(runningCommands') = Subsequence(run, I)
    BY <1>1, <1>2, OrderlyTypes, CommandsOfRunning
<1>4. run \in Seq(Command) /\ commands \in Seq(Command) /\ inbox \in Seq(Call)
    BY OrderlyTypes
<1>5. InLine(run, commands, Tail(inbox))
    BY <1>1, <1>4, InLineTail DEF Orderly
<1> HIDE DEF run
<1>6. /\ Ascending(run) => Ascending(Subsequence(run, I))
      /\ \A u : Below(run, u) => Below(Subsequence(run, I), u)
      /\ Ascending(commands) => Ascending(Subsequence(commands, J))
      /\ \A u : Below(commands, u) => Below(Subsequence(commands, J), u)
      /\ \A u : Below(u, commands) => Below(u, Subsequence(commands, J))
    BY <1>2, <1>4, OrderOfSubsequence
<1>7. InLine(CommandsOf(runningCommands'), commands', inbox')
    BY <1>1, <1>3, <1>5, <1>6 DEF InLine
<1>8. Smooth'
    BY <1>1 DEF Orderly, Smooth
<1> QED
    BY <1>7, <1>8 DEF StaysOrderly

LEMMA ThreadOrder ==
    ASSUME Orderly, TransporterInit \/ Quit \/ InboxNext
    PROVE  StaysOrderly
<1>1. CASE TransporterInit
    <2>1. Smooth' /\ UNCHANGED <<runningCommands, commands, inbox>>
        BY <1>1 DEF TransporterInit, Orderly, Smooth, queueVars
    <2> QED
        BY <2>1, OrderLeft
<1>2. ~Quit
    BY OrderlyTypes DEF Quit
<1>3. CASE AuthOk
    <2>1. /\ inbox # <<>> /\ inbox' = Tail(inbox) /\ Smooth'
          /\ UNCHANGED <<runningCommands, commands>>
        BY <1>3 DEF AuthOk, Receive, Orderly, Smooth, loopVars, netVars
    <2>2. InLine(CommandsOf(runningCommands), commands, inbox')
        BY <2>1, OrderlyTypes, InLineTail DEF Orderly
    <2> QED
        BY <2>1, <2>2 DEF StaysOrderly
<1>4. ~ShutdownStart
    <2>1. ShutdownStart => UNCHANGED stoppingTransporter /\ Receive("shutdown")
        BY DEF ShutdownStart, callerVars
    <2> QED
        BY <2>1, OrderlyTypes, ReceivedCall DEF ControlInvariant
<1> QED
    BY <1>1, <1>2, <1>3, <1>4, AddOrder, CancelOrder DEF InboxNext

\* What executeCmd runs goes behind what is running.
LEMMA RunCommandsOrder ==
    ASSUME Orderly, thread = "running", NEW todo \in Seq(Command), NEW c, NEW w,
           RunCommands(todo, c, w), InLine(CommandsOf(runningCommands) \o todo, c, inbox),
           \A k \in DOMAIN internalCommands' : internalCommands'[k].hi
    PROVE  StaysOrderly
<1>1. ~Reconnect(todo, c, w) /\ ~Refuse(todo, c, w)
    BY DEF Reconnect, Refuse, Orderly, Smooth
<1>2. ~Crash(todo, c, w)
    BY OrderlyTypes DEF Crash, ControlInvariant, NoSocketNoCalls
<1>3. Transmit(todo, c, w) /\ inbox' = inbox
    BY <1>1, <1>2 DEF RunCommands
<1>4. CommandsOf(runningCommands') = CommandsOf(runningCommands) \o todo
    BY <1>3, OrderlyTypes, CommandsOfTransmitted DEF Transmit, TypeOK
<1>5. Smooth'
    BY <1>3 DEF Transmit, Return, Orderly, Smooth
<1> QED
    BY <1>3, <1>4, <1>5 DEF Transmit, StaysOrderly

LEMMA QueueOrder == ASSUME Orderly, QueueNext PROVE StaysOrderly
<1> DEFINE run == CommandsOf(runningCommands)
<1>0. run \in Seq(Command) /\ InLine(run, commands, inbox)
    BY OrderlyTypes DEF Orderly
<1>1. CASE QueueIsEmpty \/ Poll
    <2>1. Smooth' /\ UNCHANGED <<runningCommands, commands, inbox>>
        BY <1>1 DEF QueueIsEmpty, Poll, Return, Orderly, Smooth, threadVars, netVars
    <2> QED
        BY <2>1, OrderLeft
<1>2. CASE RunInternalCommand
    <2> DEFINE todo == WithSelect(Head(internalCommands))
    <2>1. /\ RunCommands(todo, commands, OtherWakeups) /\ thread = "running"
          /\ internalCommands # <<>> /\ internalCommands' = Tail(internalCommands)
        BY <1>2 DEF RunInternalCommand, ProcessingQueue
    <2>2. /\ 1 \in DOMAIN internalCommands /\ Head(internalCommands) = internalCommands[1]
          /\ \A k \in DOMAIN internalCommands' :
                 k + 1 \in DOMAIN internalCommands /\ internalCommands'[k] = internalCommands[k + 1]
        BY <2>1, OrderlyTypes, TailFacts
    <2>3. /\ Head(internalCommands) \in Command /\ Head(internalCommands).hi
          /\ \A k \in DOMAIN internalCommands' : internalCommands'[k].hi
        BY <2>2, OrderlyTypes, SeqFacts DEF Orderly, Smooth
    <2>4. todo \in Seq(Command)
        BY <2>3, WithSelectType
    <2>5. \A k \in DOMAIN todo : ~User(todo[k])
        BY <2>3, OrderOfSelect DEF User
    <2> HIDE DEF todo, run
    <2>6. Ascending(todo) /\ \A t : Below(todo, t) /\ Below(t, todo)
        BY <2>5, NoUsers
    <2>7. InLine(run \o todo, commands, inbox)
        BY <1>0, <2>4, <2>6, OrderOfConcat DEF InLine
    <2> QED
        BY <2>1, <2>3, <2>4, <2>7, RunCommandsOrder DEF run
<1>3. CASE RunNextCommand
    <2> DEFINE todo == WithSelect(Head(commands))
    <2>1. /\ RunCommands(todo, Tail(commands), OtherWakeups) /\ thread = "running"
          /\ commands # <<>> /\ internalCommands' = internalCommands
        BY <1>3 DEF RunNextCommand, ProcessingQueue
    <2>2. commands \in Seq(Command) /\ Head(commands) \in Command
        BY <2>1, OrderlyTypes, HeadTailProperties
    <2>3. /\ todo \in Seq(Command) /\ Ascending(todo)
          /\ \A k \in DOMAIN todo : User(todo[k]) => todo[k] = Head(commands)
        BY <2>2, WithSelectType, OrderOfSelect
    <2>4. \A k \in DOMAIN internalCommands' : internalCommands'[k].hi
        BY <2>1 DEF Orderly, Smooth
    <2> HIDE DEF todo, run
    <2>5. /\ Below(todo, Tail(commands)) /\ Below(run, todo) /\ Ascending(Tail(commands))
          /\ Below(run, Tail(commands))
        <3>1. Ascending(commands) /\ Below(run, commands)
            BY <1>0 DEF InLine
        <3>2. /\ Ascending(Tail(commands)) /\ Below(run, Tail(commands))
              /\ \A k \in DOMAIN Tail(commands) : User(Head(commands)) /\ User(Tail(commands)[k]) =>
                     Head(commands).id < Tail(commands)[k].id
              /\ \A k \in DOMAIN run : User(run[k]) /\ User(Head(commands)) =>
                     run[k].id < Head(commands).id
            BY <2>1, <2>2, <3>1, OrderOfTail
        <3>3. Below(todo, Tail(commands))
            BY <2>3, <3>2 DEF Below
        <3>4. Below(run, todo)
            BY <2>3, <3>2 DEF Below
        <3> QED
            BY <3>2, <3>3, <3>4
    <2>6. ASSUME NEW u, Below(commands, u) PROVE Below(todo, u) /\ Below(Tail(commands), u)
        <3>1. /\ Below(Tail(commands), u)
              /\ \A k \in DOMAIN u : User(Head(commands)) /\ User(u[k]) => Head(commands).id < u[k].id
            BY <2>1, <2>2, <2>6, OrderOfTail
        <3>2. Below(todo, u)
            BY <2>3, <3>1 DEF Below
        <3> QED
            BY <3>1, <3>2
    <2>7. /\ Ascending(run \o todo) /\ Below(run \o todo, Tail(commands))
          /\ \A u : Below(run, u) /\ Below(commands, u) => Below(run \o todo, u)
        <3>1. Ascending(run)
            BY <1>0 DEF InLine
        <3> QED
            BY <1>0, <2>3, <2>5, <2>6, <3>1, OrderOfConcat
    <2>8. InLine(run \o todo, Tail(commands), inbox)
        BY <1>0, <2>5, <2>6, <2>7 DEF InLine
    <2> QED
        BY <2>1, <2>3, <2>4, <2>8, RunCommandsOrder DEF run
<1>4. ~Resume
    BY DEF Resume, Orderly, Smooth
<1> QED
    BY <1>1, <1>2, <1>3, <1>4 DEF QueueNext

LEMMA ConnectOrder == ASSUME NothingPutBack, Orderly, ConnectNext PROVE StaysOrderly
<1>1. UNCHANGED <<inbox, suspended>>
    BY ConnectControl, OrderlyTypes
<1>2. CASE ConnectSucceeds \/ ConnectsLate
    <2>1. Smooth' /\ UNCHANGED <<runningCommands, commands>>
        BY <1>1, <1>2 DEF ConnectSucceeds, ConnectsLate, EndNestedLoop, Orderly, Smooth, queueVars,
                          loopVars
    <2> QED
        BY <1>1, <2>1, OrderLeft
<1>3. ~ConnectFails /\ ~ConnectTimesOut /\ ~SocketError
    <2>1. ConnectFails \/ ConnectTimesOut \/ SocketError => outbox' = Append(outbox, "error")
        BY DEF ConnectFails, ConnectTimesOut, SocketError, ErrorOccurred
    <2> QED
        BY <2>1, OrderlyTypes, ErrorIsSeen DEF Orderly
<1>4. ~ConnectInterrupted /\ ~UnknownSocketError
    BY OrderlyTypes DEF ConnectInterrupted, UnknownSocketError, Spend, NothingPutBack
<1> QED
    BY <1>2, <1>3, <1>4 DEF ConnectNext

\* A reply takes the first running command away or leaves it where it is.
LEMMA ReplyOrder == ASSUME Orderly, ReplyNext PROVE StaysOrderly
<1> DEFINE run == CommandsOf(runningCommands)
<1>1. /\ UNCHANGED <<inbox, internalCommands, suspended, nested, socket>>
      /\ Smooth'
    BY ReplyControl, OrderlyTypes DEF Orderly, Smooth
<1>2. ~DiscardReply
    BY OrderlyTypes DEF DiscardReply
<1>3. ~RetryCommand
    <2>1. replies # <<>> => Head(replies) = replies[1] /\ 1 \in DOMAIN replies
        BY OrderlyTypes, TailFacts DEF TypeOK
    <2> QED
        BY <2>1 DEF RetryCommand, FinalReply, ReadReply, Orderly, WakeupInvariant, NoProtocolErrors
<1>4. CASE UnexpectedReply
    <2>1. ~(outbox' = Append(outbox, "error"))
        BY OrderlyTypes, ErrorIsSeen DEF Orderly
    <2>2. UNCHANGED <<runningCommands, commands>>
        BY <1>4, <2>1 DEF UnexpectedReply, ErrorOccurred
    <2> QED
        BY <1>1, <2>2, OrderLeft
<1>5. CASE IntermediateReply
    <2>1. /\ DOMAIN runningCommands' = DOMAIN runningCommands
          /\ \A k \in DOMAIN runningCommands :
                 /\ runningCommands'[k].cmd.id = runningCommands[k].cmd.id
                 /\ runningCommands'[k].cmd.hi = runningCommands[k].cmd.hi
          /\ commands' = commands
        <3>1. \/ runningCommands' = [runningCommands EXCEPT ![1].cmd.arg = Head(runningCommands).cmd.arg - 1]
              \/ runningCommands' = runningCommands
            BY <1>5 DEF IntermediateReply
        <3>2. \A k \in DOMAIN runningCommands : runningCommands[k] \in Request
            BY OrderlyTypes, SeqFacts
        <3> QED
            BY <1>5, <3>1, <3>2 DEF IntermediateReply, Request, Command
    <2>2. /\ DOMAIN run = DOMAIN CommandsOf(runningCommands')
          /\ \A k \in DOMAIN run : /\ run[k].id = CommandsOf(runningCommands')[k].id
                                   /\ run[k].hi = CommandsOf(runningCommands')[k].hi
        BY <2>1 DEF CommandsOf
    <2> HIDE DEF run
    <2>3. /\ Ascending(run) => Ascending(CommandsOf(runningCommands'))
          /\ \A u : Below(run, u) => Below(CommandsOf(runningCommands'), u)
        BY <2>2, OrderOfSame
    <2>4. InLine(CommandsOf(runningCommands'), commands', inbox')
        BY <1>1, <2>1, <2>3 DEF Orderly, InLine, run
    <2> QED
        BY <1>1, <2>4 DEF StaysOrderly
<1>6. CASE CompleteCommand
    <2>1. runningCommands # <<>> /\ runningCommands' = Tail(runningCommands) /\ commands' = commands
        BY <1>6 DEF CompleteCommand, FinalReply, Dequeue
    <2>2. run # <<>> /\ run \in Seq(Command) /\ CommandsOf(runningCommands') = Tail(run)
        BY <2>1, OrderlyTypes, CommandsOfRunning
    <2> HIDE DEF run
    <2>3. /\ Ascending(run) => Ascending(Tail(run))
          /\ \A u : Below(run, u) => Below(Tail(run), u)
        BY <2>2, OrderOfTail
    <2>4. InLine(CommandsOf(runningCommands'), commands', inbox')
        BY <1>1, <2>1, <2>2, <2>3 DEF Orderly, InLine, run
    <2> QED
        BY <1>1, <2>4 DEF StaysOrderly
<1> QED
    BY <1>2, <1>3, <1>4, <1>5, <1>6 DEF ReplyNext

LEMMA ServerOrder == ASSUME Orderly, ServerNext PROVE StaysOrderly
<1>1. UNCHANGED <<runningCommands, commands, internalCommands, inbox, suspended, nested, socket>>
    BY ServerControl, OrderlyTypes DEF queueVars, threadVars, loopVars
<1>2. Smooth'
    BY <1>1 DEF Orderly, Smooth
<1> QED
    BY <1>1, <1>2, OrderLeft

LEMMA OrderStep ==
    ASSUME NothingPutBack
    PROVE  OrderInvariant /\ [Next]_vars => OrderInvariant'
<1> SUFFICES ASSUME OrderInvariant, [Next]_vars PROVE OrderInvariant'
    OBVIOUS
<1>1. PromiseInvariant' /\ WakeupInvariant'
    BY PromiseStep, WakeupStep DEF OrderInvariant, NothingPutBack
<1>2. ASSUME Healthy' PROVE Smooth' /\ InLine(CommandsOf(runningCommands), commands, inbox)'
    <2>1. Orderly
        BY <1>2, SessionWorsens DEF OrderInvariant, Orderly
    <2>2. CASE Next
        BY <2>1, <2>2, CallerOrder, ThreadOrder, QueueOrder, ConnectOrder, ReplyOrder, ServerOrder
        DEF Next, StaysOrderly
    <2>3. CASE UNCHANGED vars
        BY <2>1, <2>3 DEF vars, callerVars, queueVars, threadVars, loopVars, netVars, Orderly, Smooth
    <2> QED
        BY <2>2, <2>3
<1> QED
    BY <1>1, <1>2 DEF OrderInvariant

\* The users' commands of normal priority are written in the order they were posted, in
\* a healthy session, whatever owners are destroyed and whatever fails besides the two
\* things that put a command back: reAddRunningCommandToQueue, which turns the order of
\* the running commands round, and the retry after a protocol error.
THEOREM WrittenInOrder ==
    ASSUME Faults \intersect {"unknown", "protocolError"} = {}
    PROVE  Spec => []FirstInFirstOut
<1>1. NothingPutBack
    BY DEF NothingPutBack
<1>2. OrderInvariant => FirstInFirstOut
    <2> SUFFICES ASSUME OrderInvariant, Healthy PROVE Ascending(CommandsOf(runningCommands) \o commands)
        BY DEF FirstInFirstOut, Ascending, User
    <2>1. /\ CommandsOf(runningCommands) \in Seq(Command) /\ commands \in Seq(Command)
        BY CommandsOfType DEF OrderInvariant, PromiseInvariant, ControlInvariant, TypeOK
    <2> QED
        BY <2>1, OrderOfConcat DEF OrderInvariant, InLine
<1>3. Spec => []OrderInvariant
    BY <1>1, InitOrder, OrderStep, PTL DEF Spec
<1> QED
    BY <1>2, <1>3, PTL

=============================================================================

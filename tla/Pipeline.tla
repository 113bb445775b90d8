------------------------------ MODULE Pipeline ------------------------------
(***************************************************************************)
(* Connection::pipelinedCmd (connection.cpp), which cuts a list of         *)
(* commands into pipelines of a limited length and posts them, beside      *)
(* connect() and disconnect().  It may be called from the thread of the    *)
(* Connection or from another one, a worker: m_blockingOp and              *)
(* m_stoppingTransporter are there for that case.                          *)
(*                                                                         *)
(* Mode::Normal.  The transporter is one queue that is executed once the   *)
(* handshake is over; commands are numbered in the order of the lists they *)
(* are in.  The worker has no event loop of its own.                       *)
(***************************************************************************)
EXTENDS Integers, FiniteSets, SequencesExt, Subsequences

CONSTANTS
    LimitConnected,  \* AbstractTransporter::pipelineCommandsLimit, 1000
    LimitOtherwise,  \* without a transporter, 100
    MaxCommands,     \* bound: commands in all lists
    MaxCalls,        \* bound: lists, some of which may be empty
    MaxSessions      \* bound: sessions when connect() is called

ASSUME LimitsAssumption ==
    /\ LimitConnected \in Nat \ {0}
    /\ LimitOtherwise \in Nat \ {0}
ASSUME BoundsAssumption == MaxCommands \in Nat /\ MaxCalls \in Nat /\ MaxSessions \in Nat

VARIABLES
    autoConnect,  \* m_autoConnect
    transporter,  \* m_transporter is not null
    thread,       \* m_transporterThread: "none", "running", "finished"; "crashed" when the
                  \* QThread object was destroyed while its thread ran
    stopping,     \* m_stoppingTransporter
    main,         \* disconnect(): "idle", "waiting" for m_blockingOp, "quitting", "clearing"
    impatient,    \* tryLock has timed out
    blockingOp,   \* m_blockingOp is locked by pipelinedCmd
    \* pipelinedCmd
    pc,           \* "idle", "building", "posting" or "last"
    caller,       \* "main" or "worker"
    list,         \* commands still to be looked at
    limit,        \* limit
    chunks,       \* pendingCommands
    chunk,        \* cmd
    \* the session
    commands,     \* posted pipelines, not yet executed
    contexts,     \* callAfterConnect: the pipelines that wait for authOk, each with its caller
    initialized,  \* authOk
    session,      \* sessions started
    \* history
    calls,        \* of pipelinedCmd so far
    numbered,     \* commands in all lists so far
    executed,     \* by the server
    detour        \* pipelinedCmd had to connect, or an end of the session came in between

callVars == <<pc, caller, list, limit, chunks, chunk>>
mainVars == <<main, impatient, stopping>>
sessionVars == <<transporter, thread, initialized, session>>
vars == <<autoConnect, mainVars, blockingOp, callVars, sessionVars, commands, contexts,
          calls, numbered, executed, detour>>

Numbers == 1..MaxCommands

\* Every variable stays in its type, and no pipeline is longer than the limit
\* that held when its list was cut.
TypeOK ==
    /\ autoConnect \in BOOLEAN
    /\ transporter \in BOOLEAN
    /\ thread \in {"none", "running", "finished", "crashed"}
    /\ stopping \in BOOLEAN
    /\ main \in {"idle", "waiting", "quitting", "clearing"}
    /\ impatient \in BOOLEAN
    /\ blockingOp \in BOOLEAN
    /\ pc \in {"idle", "building", "posting", "last"}
    /\ caller \in {"main", "worker"}
    /\ list \in Seq(Numbers)
    /\ limit \in {LimitConnected, LimitOtherwise}
    /\ chunks \in Seq(Seq(Numbers))
    /\ chunk \in Seq(Numbers)
    /\ \A c \in Range(Append(chunks, chunk)) : Len(c) <= limit
    /\ commands \in Seq(Seq(Numbers))
    /\ contexts \in Seq([caller : {"main", "worker"}, cmds : Seq(Seq(Numbers))])
    /\ initialized \in BOOLEAN
    /\ session \in Nat
    /\ calls \in 0..MaxCalls
    /\ numbered \in 0..MaxCommands
    /\ executed \in Seq(Numbers)
    /\ detour \in BOOLEAN

Init ==
    /\ autoConnect \in BOOLEAN
    /\ transporter = FALSE
    /\ thread = "none"
    /\ stopping = FALSE
    /\ main = "idle"
    /\ impatient = FALSE
    /\ blockingOp = FALSE
    /\ pc = "idle"
    /\ caller = "main"
    /\ list = <<>>
    /\ limit = LimitOtherwise
    /\ chunks = <<>>
    /\ chunk = <<>>
    /\ commands = <<>>
    /\ contexts = <<>>
    /\ initialized = FALSE
    /\ session = 0
    /\ calls = 0
    /\ numbered = 0
    /\ executed = <<>>
    /\ detour = FALSE

-----------------------------------------------------------------------------
(* connect() and disconnect(). *)

Alive == thread # "crashed"
IsConnected == ~stopping /\ transporter /\ thread = "running"

\* The Connection's thread is free: neither in disconnect() nor in pipelinedCmd.
MainIsFree == Alive /\ main = "idle" /\ ~(pc # "idle" /\ caller = "main")

\* connect(false), not connected: m_transporterThread is a new QThread, and the
\* old one is destroyed, which must have ended.
StartSession ==
    /\ session' = session + 1
    /\ transporter' = TRUE
    /\ thread' = IF thread = "running" THEN "crashed" ELSE "running"
    /\ initialized' = FALSE

Connect ==
    /\ MainIsFree
    /\ ~IsConnected
    /\ session < MaxSessions
    /\ StartSession
    /\ UNCHANGED <<autoConnect, mainVars, blockingOp, callVars, commands, contexts,
                   calls, numbered, executed, detour>>

\* disconnect() with a transporter that runs, up to tryLock.
Disconnect ==
    /\ MainIsFree
    /\ transporter /\ thread = "running"
    /\ stopping' = TRUE
    /\ main' = "waiting"
    /\ detour' = TRUE
    /\ UNCHANGED <<autoConnect, impatient, blockingOp, callVars, sessionVars, commands,
                   contexts, calls, numbered, executed>>

\* tryLock(10000) and unlock(), or its timeout.
TryLock ==
    /\ Alive /\ main = "waiting"
    /\ ~blockingOp
    /\ main' = "quitting"
    /\ UNCHANGED <<autoConnect, stopping, impatient, blockingOp, callVars, sessionVars,
                   commands, contexts, calls, numbered, executed, detour>>

TryLockTimesOut ==
    /\ Alive /\ main = "waiting"
    /\ blockingOp
    /\ impatient' = TRUE
    /\ main' = "quitting"
    /\ UNCHANGED <<autoConnect, stopping, blockingOp, callVars, sessionVars, commands,
                   contexts, calls, numbered, executed, detour>>

\* quit() and wait(); the transporter drops its queue.
Quit ==
    /\ Alive /\ main = "quitting"
    /\ thread' = "finished"
    /\ commands' = <<>>
    /\ initialized' = FALSE
    /\ main' = "clearing"
    /\ UNCHANGED <<autoConnect, stopping, impatient, blockingOp, callVars, transporter, session,
                   contexts, calls, numbered, executed, detour>>

\* m_transporter and m_transporterThread are cleared.
Clear ==
    /\ Alive /\ main = "clearing"
    /\ thread' = IF thread = "running" THEN "crashed" ELSE "none"
    /\ transporter' = FALSE
    /\ stopping' = FALSE
    /\ impatient' = FALSE
    /\ main' = "idle"
    /\ UNCHANGED <<autoConnect, blockingOp, callVars, initialized, session, commands, contexts,
                   calls, numbered, executed, detour>>

-----------------------------------------------------------------------------
(* pipelinedCmd. *)

\* Mutant: there is no QMutexLocker.
NoMutex == UNCHANGED blockingOp
Lock == ~blockingOp /\ blockingOp' = TRUE

\* The list has n commands, or none.
PipelinedCmd(n, thr) ==
    /\ Alive /\ pc = "idle"
    /\ thr = "main" => MainIsFree
    /\ calls < MaxCalls /\ calls' = calls + 1
    /\ numbered + n <= MaxCommands
    /\ Lock
    /\ pc' = "building"
    /\ caller' = thr
    /\ list' = [k \in 1..n |-> numbered + k]
    /\ limit' = IF transporter THEN LimitConnected ELSE LimitOtherwise
    /\ chunks' = <<>>
    /\ chunk' = <<>>
    /\ numbered' = numbered + n
    /\ detour' = (detour \/ ~IsConnected)
    /\ UNCHANGED <<autoConnect, mainVars, sessionVars, commands, contexts, executed>>

\* Mutant: the mutex stays locked.
KeepLocked == pc' = "idle" /\ UNCHANGED blockingOp
EndOfCall == pc' = "idle" /\ blockingOp' = FALSE

\* m_stoppingTransporter is looked at before each command of the list, and so not
\* at all when there is none.  What was collected goes with the call.
GiveUp ==
    /\ Alive /\ pc = "building"
    /\ list # <<>>
    /\ stopping
    /\ EndOfCall
    /\ UNCHANGED <<autoConnect, mainVars, caller, list, limit, chunks, chunk, sessionVars,
                   commands, contexts, calls, numbered, executed, detour>>

\* Mutants: cmd.length() > limit; a new pipeline begins without the command.
LongerThanLimit == Len(chunk) > limit
Full == Len(chunk) >= limit
BeginEmpty(c) == <<>>
BeginWith(c) == <<c>>

BuildPipeline ==
    /\ Alive /\ pc = "building"
    /\ list # <<>>
    /\ ~stopping
    /\ list' = Tail(list)
    /\ IF Full THEN chunks' = Append(chunks, chunk) /\ chunk' = BeginWith(Head(list))
       ELSE chunk' = Append(chunk, Head(list)) /\ UNCHANGED chunks
    /\ UNCHANGED <<autoConnect, mainVars, blockingOp, pc, caller, limit, sessionVars, commands,
                   contexts, calls, numbered, executed, detour>>

Built ==
    /\ Alive /\ pc = "building"
    /\ list = <<>>
    /\ pc' = "posting"
    /\ UNCHANGED <<autoConnect, mainVars, blockingOp, caller, list, limit, chunks, chunk,
                   sessionVars, commands, contexts, calls, numbered, executed, detour>>

\* Mutant: new commands are put in front.
PutInFront(cmds) == commands' = cmds \o commands
Enqueue(cmds) == commands' = commands \o cmds

\* Mutant: disableAutoConnect is not looked at.
AlwaysConnects == TRUE
MayConnect == autoConnect

\* runCommands or runCommand: posted to the session that is there, or to the one
\* that is started for it when it is authorised.
Post(cmds) ==
    \/ /\ IsConnected
       /\ Enqueue(cmds)
       /\ UNCHANGED <<sessionVars, contexts, detour>>
    \/ /\ ~IsConnected /\ MayConnect
       /\ contexts' = Append(contexts, [caller |-> caller, cmds |-> cmds])
       /\ StartSession
       /\ detour' = TRUE
       /\ UNCHANGED commands

\* Without auto-connect it is an exception; so is the last pipeline when it is empty.
MustThrow == ~IsConnected /\ ~MayConnect
IsValid == chunk # <<>>

RunCommands ==
    /\ Alive /\ pc = "posting"
    /\ Post(chunks)
    /\ pc' = "last"
    /\ UNCHANGED <<autoConnect, mainVars, blockingOp, caller, list, limit, chunks, chunk,
                   calls, numbered, executed>>

RunLastCommand ==
    /\ Alive /\ pc = "last"
    /\ IsValid
    /\ Post(<<chunk>>)
    /\ EndOfCall
    /\ UNCHANGED <<autoConnect, mainVars, caller, list, limit, chunks, chunk,
                   calls, numbered, executed>>

Throw ==
    /\ Alive /\ pc \in {"posting", "last"}
    /\ MustThrow \/ (pc = "last" /\ ~IsValid)
    /\ EndOfCall
    /\ UNCHANGED <<autoConnect, mainVars, caller, list, limit, chunks, chunk, sessionVars,
                   commands, contexts, calls, numbered, executed, detour>>

-----------------------------------------------------------------------------
(* The session. *)

DeleteContexts == contexts' = <<>>

\* authOk in the Connection's thread.  The slot of a context that a worker made
\* is queued to that worker, and never runs.
AuthOk ==
    /\ MainIsFree
    /\ IsConnected /\ ~initialized
    /\ initialized' = TRUE
    /\ LET ofMain == Subsequence(contexts, {k \in DOMAIN contexts : contexts[k].caller = "main"})
       IN  commands' = commands \o FlattenSeq([k \in DOMAIN ofMain |-> ofMain[k].cmds])
    /\ DeleteContexts
    /\ UNCHANGED <<autoConnect, mainVars, blockingOp, callVars, transporter, thread, session,
                   calls, numbered, executed, detour>>

Execute ==
    /\ Alive
    /\ thread = "running" /\ initialized
    /\ commands # <<>>
    /\ executed' = executed \o Head(commands)
    /\ commands' = Tail(commands)
    /\ UNCHANGED <<autoConnect, mainVars, blockingOp, callVars, sessionVars, contexts, calls,
                   numbered, detour>>

-----------------------------------------------------------------------------

CallNext == GiveUp \/ BuildPipeline \/ Built \/ RunCommands \/ RunLastCommand \/ Throw
MainNext == TryLock \/ TryLockTimesOut \/ Quit \/ Clear

Next ==
    \/ Connect \/ Disconnect \/ MainNext
    \/ \E n \in 0..MaxCommands, thr \in {"main", "worker"} : PipelinedCmd(n, thr)
    \/ CallNext
    \/ AuthOk \/ Execute

Spec == Init /\ [][Next]_vars

\* A call goes on, disconnect() goes on once it has its mutex, and a handshake
\* ends.  The timeout of tryLock is not relied upon.
Fairness ==
    /\ WF_vars(CallNext)
    /\ WF_vars(TryLock \/ Quit \/ Clear)
    /\ WF_vars(AuthOk)
    /\ WF_vars(Execute)

FairSpec == Spec /\ Fairness

-----------------------------------------------------------------------------
(* Properties. *)

\* The server runs the commands of all lists in their order and skips none, as
\* long as the Connection was connected whenever pipelinedCmd was called and
\* nobody disconnects.
ListsRunInOrder ==
    ~detour => \A k \in DOMAIN executed : executed[k] = k

\* disconnect() does not stop the thread under a call that posts commands, unless it
\* has lost patience: a call that comes after the mutex was free finds
\* m_stoppingTransporter set at its first command, and gives up.  A call without
\* commands does not look, and posts its empty list.
BlockingOpIsRespected ==
    main \in {"quitting", "clearing"} /\ ~impatient =>
        pc \in {"idle", "building"} \/ chunk = <<>>

\* A QThread is destroyed while it runs only by a pipelinedCmd of another thread
\* that auto-connects while disconnect() waits for it.
ThreadOutlivesItsObject ==
    thread = "crashed" => autoConnect /\ caller = "worker"

\* The commands of a list are all run when the Connection was connected whenever
\* pipelinedCmd was called, unless somebody disconnects.
ListsAreRun ==
    \A c \in Numbers : c <= numbered ~> c \in Range(executed) \/ detour

\* disconnect() returns although a call of another thread may hold the mutex.
DisconnectReturns == main # "idle" ~> main = "idle" \/ ~Alive

=============================================================================

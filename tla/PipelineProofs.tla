--------------------------- MODULE PipelineProofs ---------------------------
(***************************************************************************)
(* disconnect() and pipelinedCmd on two threads: the thread of the         *)
(* transporter is not stopped under a call that posts commands, and its    *)
(* QThread object is not destroyed while it runs, but for a worker that    *)
(* auto-connects in the meantime.  The lists of pipelinedCmd are run in    *)
(* their order.                                                            *)
(***************************************************************************)
EXTENDS Pipeline, SubsequencesProofs, TLAPS

\* The mutex is held exactly during a call, and m_stoppingTransporter is set
\* exactly during disconnect().
MutexIsOfCall == blockingOp = (pc # "idle")
StoppingIsOfDisconnect == stopping = (main # "idle")

\* The Connection's thread is in one of them at a time, and loses its patience only
\* in disconnect().
OneAtATime == pc # "idle" /\ caller = "main" => main = "idle"
Patience == main \in {"idle", "waiting"} => ~impatient

\* While disconnect() is past its mutex, a call has a command to look at and will
\* see m_stoppingTransporter, or it has none to post.
CallWillGiveUp ==
    main \in {"quitting", "clearing"} /\ ~impatient =>
        pc = "idle" \/ (pc = "building" /\ list # <<>>) \/ chunk = <<>>

\* A thread that runs has a transporter; where disconnect() has just ended it, a
\* worker has started the next.
ThreadHasTransporter == thread = "running" => transporter
RestartedByWorker == main = "clearing" /\ thread = "running" => autoConnect /\ caller = "worker"

ControlTypes ==
    /\ main \in {"idle", "waiting", "quitting", "clearing"}
    /\ pc \in {"idle", "building", "posting", "last"}
    /\ caller \in {"main", "worker"}
    /\ blockingOp \in BOOLEAN /\ stopping \in BOOLEAN

PipelineInvariant ==
    /\ ControlTypes
    /\ MutexIsOfCall /\ StoppingIsOfDisconnect
    /\ OneAtATime /\ Patience /\ CallWillGiveUp
    /\ ThreadHasTransporter /\ RestartedByWorker
    /\ ThreadOutlivesItsObject

LEMMA InitPipeline == Init => PipelineInvariant
BY DEF Init, PipelineInvariant, ControlTypes, MutexIsOfCall, StoppingIsOfDisconnect, OneAtATime,
   Patience, CallWillGiveUp, ThreadHasTransporter, RestartedByWorker, ThreadOutlivesItsObject

\* connect() finds no thread that runs.
LEMMA ConnectStep == PipelineInvariant /\ Connect => PipelineInvariant'
<1> SUFFICES ASSUME PipelineInvariant, Connect PROVE PipelineInvariant'
    OBVIOUS
<1> USE DEF PipelineInvariant, Connect, MainIsFree, Alive, callVars, mainVars
<1>1. thread # "running"
    BY DEF IsConnected, ThreadHasTransporter, StoppingIsOfDisconnect, ControlTypes
<1>2. ControlTypes' /\ MutexIsOfCall' /\ StoppingIsOfDisconnect' /\ OneAtATime' /\ Patience'
    BY DEF ControlTypes, MutexIsOfCall, StoppingIsOfDisconnect, OneAtATime, Patience
<1>3. CallWillGiveUp' /\ ThreadHasTransporter' /\ RestartedByWorker' /\ ThreadOutlivesItsObject'
    BY <1>1 DEF StartSession, CallWillGiveUp, ThreadHasTransporter, RestartedByWorker,
       ThreadOutlivesItsObject
<1> QED
    BY <1>2, <1>3

\* The steps of disconnect().
LEMMA DisconnectStep == PipelineInvariant /\ (Disconnect \/ MainNext) => PipelineInvariant'
<1> SUFFICES ASSUME PipelineInvariant, Disconnect \/ MainNext PROVE PipelineInvariant'
    OBVIOUS
<1> USE DEF PipelineInvariant, ControlTypes, MutexIsOfCall, StoppingIsOfDisconnect, OneAtATime,
        Patience, CallWillGiveUp, ThreadHasTransporter, RestartedByWorker, ThreadOutlivesItsObject,
        callVars, sessionVars, Alive
<1>1. CASE Disconnect
    BY <1>1 DEF Disconnect, MainIsFree
<1>2. CASE TryLock
    BY <1>2 DEF TryLock
<1>3. CASE TryLockTimesOut
    BY <1>3 DEF TryLockTimesOut
<1>4. CASE Quit
    BY <1>4 DEF Quit
<1>5. CASE Clear
    BY <1>5 DEF Clear
<1> QED
    BY <1>1, <1>2, <1>3, <1>4, <1>5 DEF MainNext

\* A call begins with nothing to post.
LEMMA CallBegins ==
    ASSUME PipelineInvariant, NEW n \in 0..MaxCommands, NEW thr \in {"main", "worker"},
           PipelinedCmd(n, thr)
    PROVE  PipelineInvariant'
<1> USE DEF PipelinedCmd, PipelineInvariant
<1>2. ControlTypes' /\ MutexIsOfCall' /\ StoppingIsOfDisconnect' /\ Patience'
    BY DEF ControlTypes, MutexIsOfCall, StoppingIsOfDisconnect, Patience, Lock, mainVars
<1>3. OneAtATime' /\ CallWillGiveUp'
    BY DEF OneAtATime, CallWillGiveUp, MainIsFree, mainVars
<1>4. ThreadHasTransporter' /\ RestartedByWorker' /\ ThreadOutlivesItsObject'
    BY DEF ThreadHasTransporter, RestartedByWorker, ThreadOutlivesItsObject, MainIsFree, Alive,
       mainVars, sessionVars
<1> QED
    BY <1>2, <1>3, <1>4

\* A call posts: only a worker can find the transporter stopping, and so start a
\* session beside one that ends.
LEMMA PostKeepsThread ==
    ASSUME PipelineInvariant, NEW cmds, Post(cmds), UNCHANGED <<main, caller, autoConnect>>,
           pc # "idle", thread # "crashed"
    PROVE  ThreadHasTransporter' /\ RestartedByWorker' /\ ThreadOutlivesItsObject'
<1> USE DEF PipelineInvariant, ThreadHasTransporter, RestartedByWorker, ThreadOutlivesItsObject
<1>1. CASE IsConnected /\ UNCHANGED sessionVars
    BY <1>1 DEF sessionVars
<1>2. CASE ~IsConnected /\ MayConnect /\ StartSession
    <2>1. CASE caller = "worker"
        BY <1>2, <2>1 DEF StartSession, MayConnect
    <2>2. CASE caller = "main"
        <3>1. main = "idle" /\ ~stopping
            BY <2>2 DEF OneAtATime, StoppingIsOfDisconnect
        <3> QED
            BY <1>2, <3>1 DEF StartSession, IsConnected
    <2> QED
        BY <2>1, <2>2 DEF ControlTypes
<1> QED
    BY <1>1, <1>2 DEF Post

LEMMA CallStep == PipelineInvariant /\ CallNext => PipelineInvariant'
<1> SUFFICES ASSUME PipelineInvariant, CallNext PROVE PipelineInvariant'
    OBVIOUS
<1> USE DEF PipelineInvariant, mainVars
<1>1. CASE GiveUp
    BY <1>1 DEF GiveUp, EndOfCall, sessionVars, ControlTypes, MutexIsOfCall, StoppingIsOfDisconnect,
       OneAtATime, Patience, CallWillGiveUp, ThreadHasTransporter, RestartedByWorker,
       ThreadOutlivesItsObject
<1>2. CASE Throw
    BY <1>2 DEF Throw, EndOfCall, sessionVars, ControlTypes, MutexIsOfCall, StoppingIsOfDisconnect,
       OneAtATime, Patience, CallWillGiveUp, ThreadHasTransporter, RestartedByWorker,
       ThreadOutlivesItsObject
<1>3. CASE BuildPipeline
    BY <1>3 DEF BuildPipeline, sessionVars, ControlTypes, MutexIsOfCall, StoppingIsOfDisconnect,
       OneAtATime, Patience, CallWillGiveUp, ThreadHasTransporter, RestartedByWorker,
       ThreadOutlivesItsObject
<1>4. CASE Built
    BY <1>4 DEF Built, sessionVars, ControlTypes, MutexIsOfCall, StoppingIsOfDisconnect,
       OneAtATime, Patience, CallWillGiveUp, ThreadHasTransporter, RestartedByWorker,
       ThreadOutlivesItsObject
<1>5. CASE RunCommands
    <2>1. ControlTypes' /\ MutexIsOfCall' /\ StoppingIsOfDisconnect' /\ OneAtATime' /\ Patience'
          /\ CallWillGiveUp'
        BY <1>5 DEF RunCommands, ControlTypes, MutexIsOfCall, StoppingIsOfDisconnect, OneAtATime,
           Patience, CallWillGiveUp
    <2>2. ThreadHasTransporter' /\ RestartedByWorker' /\ ThreadOutlivesItsObject'
        BY <1>5, PostKeepsThread DEF RunCommands, Alive
    <2> QED
        BY <2>1, <2>2
<1>6. CASE RunLastCommand
    <2>1. ControlTypes' /\ MutexIsOfCall' /\ StoppingIsOfDisconnect' /\ OneAtATime' /\ Patience'
          /\ CallWillGiveUp'
        BY <1>6 DEF RunLastCommand, EndOfCall, ControlTypes, MutexIsOfCall, StoppingIsOfDisconnect,
           OneAtATime, Patience, CallWillGiveUp
    <2>2. ThreadHasTransporter' /\ RestartedByWorker' /\ ThreadOutlivesItsObject'
        BY <1>6, PostKeepsThread DEF RunLastCommand, Alive
    <2> QED
        BY <2>1, <2>2
<1> QED
    BY <1>1, <1>2, <1>3, <1>4, <1>5, <1>6 DEF CallNext

LEMMA PipelineStep == PipelineInvariant /\ [Next]_vars => PipelineInvariant'
<1> SUFFICES ASSUME PipelineInvariant, [Next]_vars PROVE PipelineInvariant'
    OBVIOUS
<1> DEFINE Control == <<autoConnect, main, impatient, stopping, blockingOp, pc, caller, list,
                        chunk, transporter, thread>>
<1>1. CASE UNCHANGED Control
    BY <1>1 DEF PipelineInvariant, ControlTypes, MutexIsOfCall, StoppingIsOfDisconnect, OneAtATime,
       Patience, CallWillGiveUp, ThreadHasTransporter, RestartedByWorker, ThreadOutlivesItsObject
<1>2. CASE AuthOk \/ Execute \/ UNCHANGED vars
    <2>1. UNCHANGED Control
        BY <1>2 DEF AuthOk, Execute, vars, mainVars, callVars, sessionVars
    <2> QED
        BY <1>1, <2>1
<1>3. CASE \E n \in 0..MaxCommands, thr \in {"main", "worker"} : PipelinedCmd(n, thr)
    BY <1>3, CallBegins
<1> QED
    BY <1>2, <1>3, ConnectStep, DisconnectStep, CallStep DEF Next

LEMMA PipelineInvariantHolds == Spec => []PipelineInvariant
BY InitPipeline, PipelineStep, PTL DEF Spec

\* However the two threads are interleaved, disconnect() does not stop the
\* transporter under a call that posts commands, as long as it got the mutex.
THEOREM DisconnectWaitsForCalls == Spec => []BlockingOpIsRespected
<1>1. PipelineInvariant => BlockingOpIsRespected
    BY DEF PipelineInvariant, CallWillGiveUp, BlockingOpIsRespected
<1> QED
    BY <1>1, PipelineInvariantHolds, PTL

\* A QThread object is destroyed while its thread runs only after a worker has
\* auto-connected beside disconnect().
THEOREM ThreadIsSafe == Spec => []ThreadOutlivesItsObject
<1>1. PipelineInvariant => ThreadOutlivesItsObject
    BY DEF PipelineInvariant
<1> QED
    BY <1>1, PipelineInvariantHolds, PTL

-----------------------------------------------------------------------------
(* Lists are run in their order. *)

\* s holds the numbers from a + 1 up to b; so do the sequences in cs, one after the other.
Counts(s, a, b) == s \in Seq(Nat) /\ b = a + Len(s) /\ \A k \in DOMAIN s : s[k] = a + k
Offsets(cs, a, b, off) ==
    /\ off[0] = a /\ off[Len(cs)] = b
    /\ \A k \in DOMAIN cs : Counts(cs[k], off[k - 1], off[k])
Covers(cs, a, b) ==
    /\ cs \in Seq(Seq(Nat))
    /\ \E off \in [0..Len(cs) -> Nat] : Offsets(cs, a, b, off)

\* What pipelinedCmd has still to post: the numbers from a + 1 up to b.
StillToPost(a, b) ==
    \/ pc = "idle" /\ a = b
    \/ pc = "building" /\ \E c, d \in Nat : /\ Covers(chunks, a, c) /\ Counts(chunk, c, d)
                                            /\ Counts(list, d, b)
    \/ pc = "posting" /\ \E c \in Nat : Covers(chunks, a, c) /\ Counts(chunk, c, b)
    \/ pc = "last" /\ Counts(chunk, a, b)

\* Every number is executed, posted or still to be posted, in this order.
AllInOrder ==
    \E e, p \in Nat : Counts(executed, 0, e) /\ Covers(commands, e, p) /\ StillToPost(p, numbered)

\* Nobody disconnects and nobody had to connect: a call finds the session there.
Undisturbed ==
    /\ main = "idle" /\ contexts = <<>> /\ numbered \in Nat
    /\ thread \in {"none", "running"} /\ (thread = "none" => ~transporter)
    /\ (pc # "idle" => IsConnected)

OrderInvariant == PipelineInvariant /\ (~detour => Undisturbed /\ AllInOrder)

-----------------------------------------------------------------------------

LEMMA CountsAppend ==
    ASSUME NEW a \in Nat, NEW b \in Nat, NEW s, Counts(s, a, b)
    PROVE  Counts(Append(s, b + 1), a, b + 1)
<1>1. /\ s \in Seq(Nat) /\ Len(s) \in Nat /\ DOMAIN s = 1..Len(s) /\ b = a + Len(s)
      /\ \A k \in DOMAIN s : s[k] = a + k
    BY LenProperties DEF Counts
<1> DEFINE t == Append(s, b + 1)
<1>2. /\ t \in Seq(Nat) /\ Len(t) = Len(s) + 1 /\ DOMAIN t = 1..(Len(s) + 1)
      /\ \A k \in 1..Len(s) : t[k] = s[k]
      /\ t[Len(s) + 1] = b + 1
    BY <1>1, AppendProperties, LenProperties
<1> HIDE DEF t
<1>3. \A k \in DOMAIN t : t[k] = a + k
    <2> SUFFICES ASSUME NEW k \in 1..(Len(s) + 1) PROVE t[k] = a + k
        BY <1>2
    <2>1. CASE k \in 1..Len(s)
        BY <1>1, <1>2, <2>1
    <2>2. CASE k = Len(s) + 1
        BY <1>1, <1>2, <2>2
    <2> QED
        BY <1>1, <2>1, <2>2
<1> QED
    BY <1>1, <1>2, <1>3 DEF Counts, t

LEMMA CountsTail ==
    ASSUME NEW a \in Nat, NEW b \in Nat, NEW s, Counts(s, a, b), s # <<>>
    PROVE  Head(s) = a + 1 /\ Counts(Tail(s), a + 1, b)
<1>1. /\ s \in Seq(Nat) /\ Len(s) \in Nat /\ DOMAIN s = 1..Len(s) /\ b = a + Len(s) /\ Len(s) # 0
      /\ \A k \in DOMAIN s : s[k] = a + k
    BY LenProperties, EmptySeq DEF Counts
<1> DEFINE t == Tail(s)
<1>2. /\ t \in Seq(Nat) /\ Len(t) = Len(s) - 1 /\ DOMAIN t = 1..Len(t)
      /\ \A k \in 1..Len(t) : t[k] = s[k + 1]
      /\ Head(s) = s[1]
    BY <1>1, HeadTailProperties, LenProperties
<1> HIDE DEF t
<1>3. \A k \in DOMAIN t : t[k] = a + 1 + k
    <2> SUFFICES ASSUME NEW k \in 1..(Len(s) - 1) PROVE t[k] = a + 1 + k
        BY <1>2
    <2>1. k + 1 \in DOMAIN s
        BY <1>1
    <2>2. t[k] = a + (k + 1)
        BY <1>1, <1>2, <2>1
    <2> QED
        BY <2>2
<1>4. 1 \in DOMAIN s
    BY <1>1
<1> QED
    BY <1>1, <1>2, <1>3, <1>4 DEF Counts, t

LEMMA CountsConcat ==
    ASSUME NEW a \in Nat, NEW b \in Nat, NEW c \in Nat, NEW s, NEW t, Counts(s, a, b), Counts(t, b, c)
    PROVE  Counts(s \o t, a, c)
<1>1. /\ s \in Seq(Nat) /\ Len(s) \in Nat /\ DOMAIN s = 1..Len(s) /\ b = a + Len(s)
      /\ \A k \in DOMAIN s : s[k] = a + k
      /\ t \in Seq(Nat) /\ Len(t) \in Nat /\ DOMAIN t = 1..Len(t) /\ c = b + Len(t)
      /\ \A k \in DOMAIN t : t[k] = b + k
    BY LenProperties DEF Counts
<1> DEFINE u == s \o t
<1>2. /\ u \in Seq(Nat) /\ Len(u) = Len(s) + Len(t) /\ DOMAIN u = 1..(Len(s) + Len(t))
      /\ \A k \in 1..(Len(s) + Len(t)) : u[k] = IF k <= Len(s) THEN s[k] ELSE t[k - Len(s)]
    BY <1>1, ConcatProperties, LenProperties
<1> HIDE DEF u
<1>3. \A k \in DOMAIN u : u[k] = a + k
    <2> SUFFICES ASSUME NEW k \in 1..(Len(s) + Len(t)) PROVE u[k] = a + k
        BY <1>2
    <2>1. CASE k <= Len(s)
        <3>1. k \in DOMAIN s
            BY <1>1, <2>1
        <3> QED
            BY <1>1, <1>2, <2>1, <3>1
    <2>2. CASE ~(k <= Len(s))
        <3>1. k - Len(s) \in DOMAIN t
            BY <1>1, <2>2
        <3>2. u[k] = b + (k - Len(s))
            BY <1>1, <1>2, <2>2, <3>1
        <3> QED
            BY <1>1, <3>2
    <2> QED
        BY <2>1, <2>2
<1> QED
    BY <1>1, <1>2, <1>3 DEF Counts, u

LEMMA CoversNothing == ASSUME NEW a \in Nat PROVE Covers(<<>>, a, a)
<1> DEFINE off == [k \in 0..0 |-> a]
<1>1. off \in [0..0 -> Nat] /\ Offsets(<<>>, a, a, off)
    BY DEF Offsets
<1> QED
    BY <1>1 DEF Covers

LEMMA CoversConcat ==
    ASSUME NEW a \in Nat, NEW b \in Nat, NEW c \in Nat, NEW cs, NEW ds,
           Covers(cs, a, b), Covers(ds, b, c)
    PROVE  Covers(cs \o ds, a, c)
<1> DEFINE m == Len(cs)
           n == Len(ds)
           es == cs \o ds
<1>1. /\ cs \in Seq(Seq(Nat)) /\ m \in Nat /\ DOMAIN cs = 1..m
      /\ ds \in Seq(Seq(Nat)) /\ n \in Nat /\ DOMAIN ds = 1..n
    BY LenProperties DEF Covers
<1>2. /\ es \in Seq(Seq(Nat)) /\ Len(es) = m + n /\ DOMAIN es = 1..(m + n)
      /\ \A k \in 1..(m + n) : es[k] = IF k <= m THEN cs[k] ELSE ds[k - m]
    BY <1>1, ConcatProperties, LenProperties
<1>3. PICK f \in [0..m -> Nat] : Offsets(cs, a, b, f)
    BY DEF Covers
<1>4. PICK g \in [0..n -> Nat] : Offsets(ds, b, c, g)
    BY DEF Covers
<1> DEFINE off == [k \in 0..(m + n) |-> IF k <= m THEN f[k] ELSE g[k - m]]
<1>5. f[0] = a /\ f[m] = b /\ \A k \in 1..m : Counts(cs[k], f[k - 1], f[k])
    BY <1>1, <1>3 DEF Offsets
<1>6. g[0] = b /\ g[n] = c /\ \A k \in 1..n : Counts(ds[k], g[k - 1], g[k])
    BY <1>1, <1>4 DEF Offsets
<1> HIDE DEF m, n, es
<1>7. off \in [0..(m + n) -> Nat]
    <2> SUFFICES ASSUME NEW k \in 0..(m + n) PROVE (IF k <= m THEN f[k] ELSE g[k - m]) \in Nat
        OBVIOUS
    <2>1. CASE k <= m
        <3>1. k \in 0..m
            BY <1>1, <2>1
        <3> QED
            BY <2>1, <3>1
    <2>2. CASE ~(k <= m)
        <3>1. k - m \in 0..n
            BY <1>1, <2>2
        <3> QED
            BY <2>2, <3>1
    <2> QED
        BY <2>1, <2>2
<1>8. /\ \A k \in 0..m : off[k] = f[k]
      /\ \A k \in 0..n : off[m + k] = g[k]
    <2>1. ASSUME NEW k \in 0..m PROVE off[k] = f[k]
        <3>1. k \in 0..(m + n) /\ k <= m
            BY <1>1
        <3> QED
            BY <3>1
    <2>2. ASSUME NEW k \in 0..n PROVE off[m + k] = g[k]
        <3>1. /\ m + k \in 0..(m + n) /\ (m + k) - m = k
              /\ k # 0 => ~(m + k <= m)
              /\ k = 0 => m + k = m /\ m + k <= m
            BY <1>1
        <3>2. k # 0 => off[m + k] = g[k]
            BY <3>1
        <3>3. k = 0 => off[m + k] = f[m]
            BY <3>1
        <3> QED
            BY <1>5, <1>6, <3>2, <3>3
    <2> QED
        BY <2>1, <2>2
<1>9. 0 \in 0..m /\ n \in 0..n
    BY <1>1
<1> HIDE DEF off
<1>10. off[0] = a /\ off[m + n] = c
    BY <1>5, <1>6, <1>8, <1>9
<1>11. ASSUME NEW k \in 1..(m + n) PROVE Counts(es[k], off[k - 1], off[k])
    <2>1. CASE k <= m
        <3>1. k - 1 \in 0..m /\ k \in 0..m /\ k \in 1..m
            BY <1>1, <2>1
        <3> QED
            BY <1>2, <1>5, <1>8, <2>1, <3>1
    <2>2. CASE ~(k <= m)
        <3> DEFINE i == k - m
        <3>1. i - 1 \in 0..n /\ i \in 0..n /\ i \in 1..n /\ m + i = k /\ m + (i - 1) = k - 1
            BY <1>1, <2>2
        <3>2. es[k] = ds[i]
            BY <1>2, <2>2
        <3> HIDE DEF i
        <3>3. off[m + i] = g[i] /\ off[m + (i - 1)] = g[i - 1]
            BY <1>8, <3>1
        <3> QED
            BY <1>6, <3>1, <3>2, <3>3
    <2> QED
        BY <2>1, <2>2
<1> QED
    BY <1>2, <1>7, <1>10, <1>11 DEF Covers, Offsets, es

LEMMA CoversOne ==
    ASSUME NEW a \in Nat, NEW b \in Nat, NEW s, Counts(s, a, b)
    PROVE  Covers(<<s>>, a, b)
<1> DEFINE off == [k \in 0..1 |-> IF k = 0 THEN a ELSE b]
<1>1. off \in [0..1 -> Nat] /\ off[0] = a /\ off[1] = b
    OBVIOUS
<1>2. <<s>> \in Seq(Seq(Nat)) /\ DOMAIN <<s>> = {1} /\ Len(<<s>>) = 1 /\ <<s>>[1] = s
    BY DEF Counts
<1> HIDE DEF off
<1> QED
    BY <1>1, <1>2 DEF Covers, Offsets

LEMMA CoversTail ==
    ASSUME NEW a \in Nat, NEW b \in Nat, NEW cs, Covers(cs, a, b), cs # <<>>
    PROVE  \E c \in Nat : Counts(Head(cs), a, c) /\ Covers(Tail(cs), c, b)
<1> DEFINE m == Len(cs)
           ds == Tail(cs)
<1>1. cs \in Seq(Seq(Nat)) /\ m \in Nat /\ m # 0 /\ DOMAIN cs = 1..m
    BY LenProperties, EmptySeq DEF Covers
<1>2. /\ ds \in Seq(Seq(Nat)) /\ Len(ds) = m - 1 /\ DOMAIN ds = 1..(m - 1)
      /\ \A k \in 1..(m - 1) : ds[k] = cs[k + 1]
      /\ Head(cs) = cs[1]
    BY <1>1, HeadTailProperties, LenProperties
<1>3. PICK f \in [0..m -> Nat] : Offsets(cs, a, b, f)
    BY DEF Covers
<1>4. f[0] = a /\ f[m] = b /\ \A k \in 1..m : Counts(cs[k], f[k - 1], f[k])
    BY <1>1, <1>3 DEF Offsets
<1> HIDE DEF m, ds
<1> DEFINE off == [k \in 0..(m - 1) |-> f[k + 1]]
<1>5. /\ off \in [0..(m - 1) -> Nat] /\ off[0] = f[1] /\ off[m - 1] = f[m]
      /\ \A k \in 0..(m - 1) : off[k] = f[k + 1]
    <2>1. \A k \in 0..(m - 1) : k + 1 \in 0..m
        BY <1>1
    <2>2. 0 \in 0..(m - 1) /\ m - 1 \in 0..(m - 1) /\ (m - 1) + 1 = m /\ 0 + 1 = 1
        BY <1>1
    <2> QED
        BY <2>1, <2>2
<1> HIDE DEF off
<1>6. \A k \in 1..(m - 1) : Counts(ds[k], off[k - 1], off[k])
    <2> SUFFICES ASSUME NEW k \in 1..(m - 1) PROVE Counts(ds[k], off[k - 1], off[k])
        OBVIOUS
    <2>1. k - 1 \in 0..(m - 1) /\ k \in 0..(m - 1) /\ k + 1 \in 1..m /\ (k - 1) + 1 = k /\ (k + 1) - 1 = k
        BY <1>1
    <2>2. off[k - 1] = f[k] /\ off[k] = f[k + 1] /\ ds[k] = cs[k + 1]
        BY <1>2, <1>5, <2>1
    <2>3. Counts(cs[k + 1], f[(k + 1) - 1], f[k + 1])
        BY <1>4, <2>1
    <2> QED
        BY <2>1, <2>2, <2>3
<1>7. f[1] \in Nat /\ Counts(cs[1], a, f[1])
    <2>1. 1 \in 1..m /\ 1 \in 0..m /\ 1 - 1 = 0
        BY <1>1
    <2> QED
        BY <1>4, <2>1
<1>8. Covers(ds, f[1], b)
    BY <1>2, <1>4, <1>5, <1>6 DEF Covers, Offsets
<1> QED
    BY <1>2, <1>7, <1>8 DEF ds

-----------------------------------------------------------------------------

LEMMA InitOrder == Init => OrderInvariant
<1> SUFFICES ASSUME Init PROVE OrderInvariant
    OBVIOUS
<1>1. Undisturbed
    BY DEF Init, Undisturbed
<1>2. Counts(executed, 0, 0)
    BY DEF Init, Counts
<1>3. Covers(commands, 0, 0)
    BY CoversNothing DEF Init
<1>4. StillToPost(0, numbered)
    BY DEF Init, StillToPost
<1> QED
    BY <1>1, <1>2, <1>3, <1>4, InitPipeline DEF OrderInvariant, AllInOrder

\* What the proofs for the steps start from.
InOrder == PipelineInvariant /\ Undisturbed /\ AllInOrder /\ ~detour'
StaysInOrder == Undisturbed' /\ AllInOrder'

LEMMA NothingStops == ASSUME InOrder PROVE ~stopping
BY DEF InOrder, Undisturbed, PipelineInvariant, ControlTypes, StoppingIsOfDisconnect

LEMMA ConnectInOrder == ASSUME InOrder, Connect PROVE StaysInOrder
<1>1. ~stopping /\ ~IsConnected /\ pc = "idle" /\ thread = "none"
    BY NothingStops
    DEF InOrder, Undisturbed, Connect, PipelineInvariant, IsConnected, ThreadHasTransporter
<1>2. UNCHANGED <<main, contexts, numbered, pc, chunks, chunk, list, commands, executed>>
      /\ thread' = "running" /\ transporter'
    BY <1>1 DEF Connect, StartSession, mainVars, callVars
<1>3. Undisturbed'
    BY <1>1, <1>2 DEF InOrder, Undisturbed
<1>4. AllInOrder'
    BY <1>2 DEF InOrder, AllInOrder, StillToPost
<1> QED
    BY <1>3, <1>4 DEF StaysInOrder

LEMMA PipelinedCmdInOrder ==
    ASSUME InOrder, NEW n \in 0..MaxCommands, NEW thr \in {"main", "worker"}, PipelinedCmd(n, thr)
    PROVE  StaysInOrder
<1>1. PICK e \in Nat, p \in Nat :
          Counts(executed, 0, e) /\ Covers(commands, e, p) /\ StillToPost(p, numbered)
    BY DEF InOrder, AllInOrder
<1>2. /\ pc = "idle" /\ pc' = "building" /\ list' = [k \in 1..n |-> numbered + k]
      /\ chunks' = <<>> /\ chunk' = <<>> /\ numbered' = numbered + n
      /\ IsConnected /\ UNCHANGED <<main, stopping, transporter, thread, contexts, commands, executed>>
    BY DEF PipelinedCmd, mainVars, sessionVars, InOrder
<1>3. n \in Nat /\ numbered \in Nat /\ p = numbered
    BY <1>1, <1>2, BoundsAssumption DEF Numbers, InOrder, Undisturbed, StillToPost
<1>4. Counts(list', numbered, numbered + n)
    <2>1. \A k \in 1..n : numbered + k \in Nat
        BY <1>3
    <2>2. list' \in Seq(Nat) /\ Len(list') = n /\ DOMAIN list' = 1..n
        BY <1>2, <1>3, <2>1
    <2> QED
        BY <1>2, <2>2 DEF Counts
<1>5. Counts(chunk', numbered, numbered) /\ Covers(chunks', numbered, numbered)
    BY <1>2, <1>3, CoversNothing DEF Counts
<1>6. StillToPost(p, numbered)'
    BY <1>2, <1>3, <1>4, <1>5 DEF StillToPost
<1>7. AllInOrder'
    BY <1>1, <1>2, <1>6 DEF AllInOrder
<1>8. Undisturbed'
    <2>1. numbered' \in Nat
        BY <1>2, <1>3
    <2> QED
        BY <1>2, <2>1 DEF InOrder, Undisturbed, IsConnected
<1> QED
    BY <1>7, <1>8 DEF StaysInOrder

\* A call that goes on is connected.
LEMMA PostInOrder ==
    ASSUME InOrder, pc # "idle", NEW cmds, Post(cmds)
    PROVE  commands' = commands \o cmds /\ UNCHANGED <<sessionVars, contexts>>
BY DEF InOrder, Undisturbed, Post, Enqueue

LEMMA BuildInOrder ==
    ASSUME NEW a \in Nat, NEW b \in Nat, BuildPipeline, StillToPost(a, b)
    PROVE  StillToPost(a, b)'
<1>1. pc = "building" /\ pc' = "building" /\ list # <<>> /\ list' = Tail(list)
    BY DEF BuildPipeline
<1>2. PICK c \in Nat, d \in Nat : Covers(chunks, a, c) /\ Counts(chunk, c, d) /\ Counts(list, d, b)
    BY <1>1 DEF StillToPost
<1>3. Head(list) = d + 1 /\ Counts(list', d + 1, b) /\ d + 1 \in Nat
    BY <1>1, <1>2, CountsTail
<1>4. CASE chunks' = Append(chunks, chunk) /\ chunk' = <<Head(list)>>
    <2>1. Covers(chunks', a, d)
        <3>1. chunks \in Seq(Seq(Nat)) /\ chunk \in Seq(Nat)
            BY <1>2 DEF Covers, Counts
        <3>2. Append(chunks, chunk) = chunks \o <<chunk>>
            BY <3>1, AppendIsConcat
        <3>3. Covers(<<chunk>>, c, d)
            BY <1>2, CoversOne
        <3> QED
            BY <1>2, <1>4, <3>2, <3>3, CoversConcat
    <2>2. Counts(chunk', d, d + 1)
        BY <1>3, <1>4 DEF Counts
    <2> QED
        BY <1>1, <1>3, <2>1, <2>2 DEF StillToPost
<1>5. CASE chunk' = Append(chunk, Head(list)) /\ chunks' = chunks
    <2>1. Counts(chunk', c, d + 1)
        BY <1>2, <1>3, <1>5, CountsAppend
    <2> QED
        BY <1>1, <1>2, <1>3, <1>5, <2>1 DEF StillToPost
<1> QED
    BY <1>4, <1>5 DEF BuildPipeline, BeginWith

LEMMA CallInOrder == ASSUME InOrder, CallNext PROVE StaysInOrder
<1>1. PICK e \in Nat, p \in Nat :
          Counts(executed, 0, e) /\ Covers(commands, e, p) /\ StillToPost(p, numbered)
    BY DEF InOrder, AllInOrder
<1>2. pc # "idle" /\ UNCHANGED <<main, stopping, numbered, executed>>
    BY DEF CallNext, GiveUp, BuildPipeline, Built, RunCommands, RunLastCommand, Throw, mainVars
<1>3. numbered \in Nat
    BY DEF InOrder, Undisturbed
<1>4. ~GiveUp /\ (Throw => pc = "last" /\ chunk = <<>>)
    BY <1>2, NothingStops DEF GiveUp, Throw, MustThrow, IsValid, InOrder, Undisturbed
<1>5. UNCHANGED <<transporter, thread, contexts>>
    <2>1. CASE BuildPipeline \/ Built
        BY <2>1 DEF BuildPipeline, Built, sessionVars
    <2>2. CASE RunCommands \/ RunLastCommand
        BY <1>2, <2>2, PostInOrder DEF RunCommands, RunLastCommand, sessionVars
    <2>3. CASE Throw
        BY <2>3 DEF Throw, sessionVars
    <2> QED
        BY <1>4, <2>1, <2>2, <2>3 DEF CallNext
<1>6. Undisturbed'
    BY <1>2, <1>5 DEF InOrder, Undisturbed, IsConnected
<1>7. AllInOrder'
    <2>1. CASE BuildPipeline
        <3>1. StillToPost(p, numbered)'
            BY <1>1, <1>2, <1>3, <2>1, BuildInOrder DEF StillToPost
        <3> QED
            BY <1>1, <1>2, <2>1, <3>1 DEF BuildPipeline, AllInOrder
    <2>2. CASE Built
        <3>1. /\ pc = "building" /\ pc' = "posting" /\ list = <<>>
              /\ UNCHANGED <<chunks, chunk, list, commands>>
            BY <2>2 DEF Built
        <3>2. PICK c \in Nat, d \in Nat :
                  Covers(chunks, p, c) /\ Counts(chunk, c, d) /\ Counts(list, d, numbered)
            BY <1>1, <3>1 DEF StillToPost
        <3>3. d = numbered
            BY <1>3, <3>1, <3>2 DEF Counts
        <3>4. StillToPost(p, numbered)'
            BY <1>2, <3>1, <3>2, <3>3 DEF StillToPost
        <3> QED
            BY <1>1, <1>2, <3>1, <3>4 DEF AllInOrder
    <2>3. CASE RunCommands
        <3>1. /\ pc = "posting" /\ pc' = "last" /\ UNCHANGED chunk /\ commands' = commands \o chunks
            BY <1>2, <2>3, PostInOrder DEF RunCommands
        <3>2. PICK c \in Nat : Covers(chunks, p, c) /\ Counts(chunk, c, numbered)
            BY <1>1, <3>1 DEF StillToPost
        <3>3. Covers(commands', e, c)
            BY <1>1, <3>1, <3>2, CoversConcat
        <3>4. StillToPost(c, numbered)'
            BY <1>2, <3>1, <3>2 DEF StillToPost
        <3> QED
            BY <1>1, <1>2, <3>3, <3>4 DEF AllInOrder
    <2>4. CASE RunLastCommand
        <3>1. pc = "last" /\ pc' = "idle" /\ commands' = commands \o <<chunk>>
            BY <1>2, <2>4, PostInOrder DEF RunLastCommand, EndOfCall
        <3>2. Covers(<<chunk>>, p, numbered)
            BY <1>1, <1>3, <3>1, CoversOne DEF StillToPost
        <3>3. Covers(commands', e, numbered)
            BY <1>1, <1>3, <3>1, <3>2, CoversConcat
        <3>4. StillToPost(numbered, numbered)'
            BY <1>2, <3>1 DEF StillToPost
        <3> QED
            BY <1>1, <1>2, <1>3, <3>3, <3>4 DEF AllInOrder
    <2>5. CASE Throw
        <3>1. pc = "last" /\ chunk = <<>> /\ pc' = "idle" /\ UNCHANGED commands
            BY <1>4, <2>5 DEF Throw, EndOfCall
        <3>2. p = numbered
            BY <1>1, <1>3, <3>1 DEF StillToPost, Counts
        <3>3. StillToPost(p, numbered)'
            BY <1>2, <3>1, <3>2 DEF StillToPost
        <3> QED
            BY <1>1, <1>2, <3>1, <3>3 DEF AllInOrder
    <2> QED
        BY <1>4, <2>1, <2>2, <2>3, <2>4, <2>5 DEF CallNext
<1> QED
    BY <1>6, <1>7 DEF StaysInOrder

\* No pipeline waits for authOk.
LEMMA AuthOkInOrder == ASSUME InOrder, AuthOk PROVE StaysInOrder
<1> DEFINE ofMain == Subsequence(contexts, {k \in DOMAIN contexts : contexts[k].caller = "main"})
           posts == [k \in DOMAIN ofMain |-> ofMain[k].cmds]
<1>1. /\ contexts = <<>> /\ contexts' = <<>> /\ commands' = commands \o FlattenSeq(posts)
      /\ UNCHANGED <<main, mainVars, callVars, numbered, transporter, thread, executed>>
    BY DEF InOrder, Undisturbed, AuthOk, DeleteContexts, mainVars
<1>2. ofMain = <<>>
    <2> DEFINE I == {k \in DOMAIN contexts : contexts[k].caller = "main"}
    <2>1. I = {} /\ contexts \in Seq(Nat) /\ I \in SUBSET DOMAIN contexts
        BY <1>1
    <2>2. Subsequence(contexts, I) \in Seq(Nat) /\ Len(Subsequence(contexts, I)) = Cardinality(I)
        BY <2>1, SubsequenceElements
    <2>3. Cardinality(I) = 0
        BY <2>1, FS_EmptySet
    <2> QED
        BY <2>2, <2>3, EmptySeq
<1>3. posts = <<>> /\ Len(posts) = 0
    <2> HIDE DEF ofMain
    <2>1. DOMAIN ofMain = {}
        BY <1>2
    <2> QED
        BY <2>1
<1>4. FlattenSeq(posts) = <<>>
    <2> HIDE DEF posts
    <2> QED
        BY <1>3 DEF FlattenSeq
<1>5. commands' = commands
    <2>1. commands \in Seq(Seq(Nat))
        BY DEF InOrder, AllInOrder, Covers
    <2> QED
        BY <1>1, <1>4, <2>1, ConcatEmptySeq
<1>6. Undisturbed'
    BY <1>1 DEF InOrder, Undisturbed, IsConnected, mainVars, callVars
<1>7. AllInOrder'
    BY <1>1, <1>5 DEF InOrder, AllInOrder, StillToPost, callVars
<1> QED
    BY <1>6, <1>7 DEF StaysInOrder

LEMMA ExecuteInOrder == ASSUME InOrder, Execute PROVE StaysInOrder
<1>1. PICK e \in Nat, p \in Nat :
          Counts(executed, 0, e) /\ Covers(commands, e, p) /\ StillToPost(p, numbered)
    BY DEF InOrder, AllInOrder
<1>2. /\ commands # <<>> /\ commands' = Tail(commands) /\ executed' = executed \o Head(commands)
      /\ UNCHANGED <<mainVars, callVars, sessionVars, contexts, numbered>>
    BY DEF Execute
<1>3. PICK c \in Nat : Counts(Head(commands), e, c) /\ Covers(commands', c, p)
    BY <1>1, <1>2, CoversTail
<1>4. Counts(executed', 0, c)
    BY <1>1, <1>2, <1>3, CountsConcat
<1>5. AllInOrder'
    BY <1>1, <1>2, <1>3, <1>4 DEF AllInOrder, StillToPost, callVars
<1>6. Undisturbed'
    BY <1>2 DEF InOrder, Undisturbed, IsConnected, mainVars, callVars, sessionVars
<1> QED
    BY <1>5, <1>6 DEF StaysInOrder

LEMMA OrderStep == OrderInvariant /\ [Next]_vars => OrderInvariant'
<1> SUFFICES ASSUME OrderInvariant, [Next]_vars PROVE OrderInvariant'
    OBVIOUS
<1>1. PipelineInvariant'
    BY PipelineStep DEF OrderInvariant
<1>2. ASSUME ~detour' PROVE Undisturbed' /\ AllInOrder'
    <2>1. CASE UNCHANGED vars
        <3>1. UNCHANGED <<main, stopping, contexts, numbered, thread, transporter, pc, chunks, chunk,
                          list, commands, executed, detour>>
            BY <2>1 DEF vars, mainVars, callVars, sessionVars
        <3> QED
            BY <1>2, <3>1 DEF OrderInvariant, Undisturbed, IsConnected, AllInOrder, StillToPost
    <2>2. ASSUME Next PROVE ~detour
        BY <1>2, <2>2
        DEF Next, Connect, Disconnect, MainNext, TryLock, TryLockTimesOut, Quit, Clear, PipelinedCmd,
            CallNext, GiveUp, BuildPipeline, Built, RunCommands, RunLastCommand, Post, Throw, AuthOk, Execute
    <2>3. ASSUME Next PROVE InOrder
        BY <1>2, <2>2, <2>3 DEF OrderInvariant, InOrder
    <2>4. ~Disconnect
        BY <1>2 DEF Disconnect
    <2>5. ASSUME InOrder PROVE ~MainNext
        BY <2>5 DEF InOrder, Undisturbed, MainNext, TryLock, TryLockTimesOut, Quit, Clear
    <2>6. CASE Next
        BY <2>3, <2>4, <2>5, <2>6, ConnectInOrder, PipelinedCmdInOrder, CallInOrder, AuthOkInOrder,
           ExecuteInOrder DEF Next, StaysInOrder
    <2> QED
        BY <2>1, <2>6
<1> QED
    BY <1>1, <1>2 DEF OrderInvariant

\* For all limits and lists, and whatever two threads call: pipelinedCmd cuts its list
\* and posts it, runCommand posts the last pipeline, and the server runs the commands
\* of all lists in their order and skips none, unless a call had to connect or
\* somebody disconnects.
THEOREM ListsAreInOrder == Spec => []ListsRunInOrder
<1>1. OrderInvariant => ListsRunInOrder
    BY DEF OrderInvariant, AllInOrder, Counts, ListsRunInOrder
<1>2. Spec => []OrderInvariant
    BY InitOrder, OrderStep, PTL DEF Spec
<1> QED
    BY <1>1, <1>2, PTL

-----------------------------------------------------------------------------
(* Types, and the length of the pipelines. *)

Flags ==
    /\ autoConnect \in BOOLEAN /\ transporter \in BOOLEAN /\ stopping \in BOOLEAN
    /\ impatient \in BOOLEAN /\ blockingOp \in BOOLEAN
    /\ initialized \in BOOLEAN /\ detour \in BOOLEAN
ScalarTypes ==
    /\ thread \in {"none", "running", "finished", "crashed"}
    /\ main \in {"idle", "waiting", "quitting", "clearing"}
    /\ pc \in {"idle", "building", "posting", "last"}
    /\ caller \in {"main", "worker"}
    /\ limit \in {LimitConnected, LimitOtherwise}
    /\ session \in Nat
    /\ calls \in 0..MaxCalls
    /\ numbered \in 0..MaxCommands

Pipelines == Seq(Seq(Numbers))
Contexts == [caller : {"main", "worker"}, cmds : Pipelines]
ListTypes ==
    /\ list \in Seq(Numbers) /\ chunk \in Seq(Numbers) /\ executed \in Seq(Numbers)
    /\ chunks \in Pipelines /\ commands \in Pipelines
    /\ contexts \in Seq(Contexts)

\* No pipeline of a call is longer than its limit.
ShortPipelines == Len(chunk) <= limit /\ \A k \in DOMAIN chunks : Len(chunks[k]) <= limit

PipelineTypes == Flags /\ ScalarTypes /\ ListTypes /\ ShortPipelines

\* The chunk counts as the last of the chunks.
LEMMA TypesSuffice == PipelineTypes => TypeOK
<1> SUFFICES ASSUME PipelineTypes PROVE TypeOK
    OBVIOUS
<1> USE DEF PipelineTypes
<1>1. \A c \in Range(Append(chunks, chunk)) : Len(c) <= limit
    <2>1. /\ DOMAIN Append(chunks, chunk) = 1..(Len(chunks) + 1) /\ DOMAIN chunks = 1..Len(chunks)
          /\ Len(chunks) \in Nat
          /\ \A k \in 1..Len(chunks) : Append(chunks, chunk)[k] = chunks[k]
          /\ Append(chunks, chunk)[Len(chunks) + 1] = chunk
        BY AppendProperties, LenProperties DEF ListTypes, Pipelines
    <2> DEFINE all == Append(chunks, chunk)
    <2> HIDE DEF all
    <2>2. ASSUME NEW k \in 1..(Len(chunks) + 1) PROVE Len(all[k]) <= limit
        <3>1. CASE k \in 1..Len(chunks)
            BY <2>1, <3>1 DEF ShortPipelines, all
        <3>2. CASE k = Len(chunks) + 1
            BY <2>1, <3>2 DEF ShortPipelines, all
        <3> QED
            BY <2>1, <3>1, <3>2
    <2> QED
        BY <2>1, <2>2 DEF Range, all
<1>2. Flags /\ ScalarTypes /\ ListTypes
    OBVIOUS
<1> QED
    BY <1>1, <1>2 DEF Flags, ScalarTypes, ListTypes, Pipelines, Contexts, TypeOK

LEMMA InitTypes == Init => PipelineTypes
<1> SUFFICES ASSUME Init PROVE PipelineTypes
    OBVIOUS
<1>1. ScalarTypes
    BY BoundsAssumption DEF Init, ScalarTypes
<1>0. Flags
    BY Zenon DEF Init, Flags
<1>2. ListTypes
    BY EmptySeq DEF Init, ListTypes, Pipelines
<1>3. ShortPipelines
    <2>1. Len(<<>>) = 0 /\ DOMAIN <<>> = {}
        OBVIOUS
    <2> QED
        BY <2>1, LimitsAssumption DEF Init, ShortPipelines
<1> QED
    BY <1>0, <1>1, <1>2, <1>3 DEF PipelineTypes

\* Steps that touch no sequence.
LEMMA ScalarStep ==
    ASSUME PipelineTypes, Connect \/ Disconnect \/ TryLock \/ TryLockTimesOut \/ Clear \/ GiveUp
                          \/ Built \/ Throw \/ UNCHANGED vars
    PROVE  PipelineTypes'
<1> USE DEF PipelineTypes, callVars, mainVars, sessionVars
<1>1. ScalarTypes'
    BY DEF Connect, Disconnect, TryLock, TryLockTimesOut, Clear, GiveUp, Built, Throw, StartSession,
       EndOfCall, ScalarTypes, vars
<1>0. Flags'
    BY DEF Connect, Disconnect, TryLock, TryLockTimesOut, Clear, GiveUp, Built, Throw, StartSession,
       EndOfCall, Flags, vars
<1>2. UNCHANGED <<limit, list, chunk, executed, chunks, commands, contexts>>
    BY DEF Connect, Disconnect, TryLock, TryLockTimesOut, Clear, GiveUp, Built, Throw, vars
<1> QED
    BY <1>0, <1>1, <1>2 DEF ListTypes, ShortPipelines

LEMMA CallTypes ==
    ASSUME PipelineTypes, NEW n \in 0..MaxCommands, NEW thr \in {"main", "worker"}, PipelinedCmd(n, thr)
    PROVE  PipelineTypes'
<1> USE DEF PipelineTypes, PipelinedCmd
<1>1. /\ n \in Nat /\ numbered \in Nat /\ numbered + n \in 0..MaxCommands /\ MaxCommands \in Nat
      /\ calls + 1 \in 0..MaxCalls
    BY BoundsAssumption DEF ScalarTypes
<1>2. ScalarTypes'
    BY <1>1 DEF Lock, mainVars, sessionVars, ScalarTypes
<1>0. Flags'
    BY DEF Lock, mainVars, sessionVars, Flags
<1>3. list' \in Seq(Numbers)
    <2>1. \A k \in 1..n : numbered + k \in Numbers
        BY <1>1 DEF Numbers
    <2> QED
        BY <1>1, <2>1
<1>4. ListTypes'
    BY <1>3, EmptySeq DEF ListTypes, Pipelines
<1>5. ShortPipelines'
    <2>1. Len(<<>>) = 0 /\ DOMAIN <<>> = {} /\ limit' \in Nat
        BY LimitsAssumption
    <2> QED
        BY <2>1 DEF ShortPipelines
<1> QED
    BY <1>0, <1>2, <1>4, <1>5

\* A command goes into the pipeline that has room for it, or begins the next one.
LEMMA BuildTypes == ASSUME PipelineTypes, BuildPipeline PROVE PipelineTypes'
<1> USE DEF PipelineTypes, BuildPipeline, mainVars, sessionVars
<1>1. Flags' /\ ScalarTypes'
    BY DEF Flags, ScalarTypes
<1>2. Head(list) \in Numbers /\ list' \in Seq(Numbers)
    BY HeadTailProperties DEF ListTypes
<1>3. Len(chunk) \in Nat /\ limit \in Nat \ {0} /\ limit' = limit
    BY LenProperties, LimitsAssumption DEF ListTypes, ScalarTypes
<1>4. CASE Full
    <2> DEFINE last == <<Head(list)>>
    <2>1. last \in Seq(Numbers) /\ Len(last) = 1
        BY <1>2
    <2>2. chunk' = last /\ chunks' = Append(chunks, chunk)
        BY <1>4 DEF BeginWith
    <2> HIDE DEF last
    <2>3. /\ chunks' \in Pipelines /\ Len(chunks) \in Nat
          /\ DOMAIN chunks' = 1..(Len(chunks) + 1) /\ DOMAIN chunks = 1..Len(chunks)
          /\ \A k \in 1..Len(chunks) : chunks'[k] = chunks[k]
          /\ chunks'[Len(chunks) + 1] = chunk
        BY <2>2, AppendProperties, LenProperties DEF ListTypes, Pipelines
    <2>4. ListTypes'
        BY <1>2, <2>1, <2>2, <2>3 DEF ListTypes
    <2>5. ASSUME NEW k \in 1..(Len(chunks) + 1) PROVE Len(chunks'[k]) <= limit
        <3>1. CASE k \in 1..Len(chunks)
            BY <2>3, <3>1 DEF ShortPipelines
        <3>2. CASE k = Len(chunks) + 1
            BY <2>3, <3>2 DEF ShortPipelines
        <3> QED
            BY <2>3, <3>1, <3>2
    <2>6. ShortPipelines'
        <3>1. Len(chunk') <= limit'
            <4>1. Len(chunk') = 1
                BY <2>1, <2>2
            <4> QED
                BY <1>3, <4>1
        <3>2. \A k \in DOMAIN chunks' : Len(chunks'[k]) <= limit'
            BY <1>3, <2>3, <2>5
        <3> QED
            BY <3>1, <3>2 DEF ShortPipelines
    <2> QED
        BY <1>1, <2>4, <2>6
<1>5. CASE ~Full
    <2>1. chunk' = Append(chunk, Head(list)) /\ chunks' = chunks
        BY <1>5
    <2>2. chunk' \in Seq(Numbers) /\ Len(chunk') = Len(chunk) + 1
        BY <1>2, <2>1, AppendProperties DEF ListTypes
    <2>3. ListTypes'
        BY <1>2, <2>1, <2>2 DEF ListTypes
    <2>4. Len(chunk) < limit
        BY <1>3, <1>5 DEF Full
    <2>5. ShortPipelines'
        BY <1>3, <2>1, <2>2, <2>4 DEF ShortPipelines
    <2> QED
        BY <1>1, <2>3, <2>5
<1> QED
    BY <1>4, <1>5

\* What a call posts is executed by the session or waits in a context.
LEMMA PostTypes ==
    ASSUME PipelineTypes, NEW cmds \in Pipelines, Post(cmds)
    PROVE  /\ commands' \in Pipelines /\ contexts' \in Seq(Contexts)
           /\ transporter' \in BOOLEAN /\ thread' \in {"none", "running", "finished", "crashed"}
           /\ initialized' \in BOOLEAN /\ session' \in Nat /\ detour' \in BOOLEAN
<1> USE DEF PipelineTypes
<1>0. initialized' \in BOOLEAN /\ detour' \in BOOLEAN /\ transporter' \in BOOLEAN
    BY DEF Post, StartSession, sessionVars, Flags
<1>1. CASE IsConnected /\ Enqueue(cmds) /\ UNCHANGED <<sessionVars, contexts, detour>>
    <2>1. commands \o cmds \in Pipelines
        BY ConcatProperties DEF ListTypes, Pipelines
    <2> QED
        BY <1>0, <1>1, <2>1 DEF Enqueue, sessionVars, ListTypes, ScalarTypes
<1>2. CASE /\ contexts' = Append(contexts, [caller |-> caller, cmds |-> cmds])
           /\ StartSession /\ detour' = TRUE /\ UNCHANGED commands
    <2> DEFINE context == [caller |-> caller, cmds |-> cmds]
    <2>1. context \in Contexts
        BY DEF ScalarTypes, Contexts
    <2>2. contexts' = Append(contexts, context)
        BY <1>2
    <2> HIDE DEF context
    <2>3. contexts' \in Seq(Contexts)
        BY <2>1, <2>2, AppendProperties DEF ListTypes
    <2> QED
        BY <1>0, <1>2, <2>3 DEF StartSession, ListTypes, ScalarTypes
<1> QED
    BY <1>1, <1>2 DEF Post

LEMMA RunTypes == ASSUME PipelineTypes, RunCommands \/ RunLastCommand PROVE PipelineTypes'
<1> USE DEF PipelineTypes, mainVars
<1>1. \E cmds \in Pipelines : Post(cmds)
    <2>1. chunks \in Pipelines
        BY DEF ListTypes
    <2>2. <<chunk>> \in Pipelines
        BY DEF ListTypes, Pipelines
    <2> QED
        BY <2>1, <2>2 DEF RunCommands, RunLastCommand
<1>2. /\ commands' \in Pipelines /\ contexts' \in Seq(Contexts)
      /\ transporter' \in BOOLEAN /\ thread' \in {"none", "running", "finished", "crashed"}
      /\ initialized' \in BOOLEAN /\ session' \in Nat /\ detour' \in BOOLEAN
    BY <1>1, PostTypes
<1>3. UNCHANGED <<autoConnect, main, impatient, stopping, caller, list, limit, chunks, chunk,
                  calls, numbered, executed>>
    BY DEF RunCommands, RunLastCommand
<1>4. pc' \in {"last", "idle"} /\ blockingOp' \in BOOLEAN
    BY DEF RunCommands, RunLastCommand, EndOfCall, Flags
<1>8. Flags'
    BY <1>2, <1>3, <1>4 DEF Flags
<1>5. ScalarTypes'
    BY <1>2, <1>3, <1>4 DEF ScalarTypes
<1>6. ListTypes'
    BY <1>2, <1>3 DEF ListTypes
<1>7. ShortPipelines'
    BY <1>3 DEF ShortPipelines
<1> QED
    BY <1>5, <1>6, <1>7, <1>8

LEMMA QuitTypes == ASSUME PipelineTypes, Quit PROVE PipelineTypes'
<1>1. Flags' /\ ScalarTypes'
    BY DEF PipelineTypes, Quit, mainVars, callVars, Flags, ScalarTypes
<1>2. ListTypes' /\ ShortPipelines'
    BY EmptySeq DEF PipelineTypes, Quit, callVars, ListTypes, Pipelines, ShortPipelines
<1> QED
    BY <1>1, <1>2 DEF PipelineTypes

\* authOk runs the pipelines of the contexts one after the other.
LEMMA AuthOkTypes == ASSUME PipelineTypes, AuthOk PROVE PipelineTypes'
<1> USE DEF PipelineTypes
<1> DEFINE I == {k \in DOMAIN contexts : contexts[k].caller = "main"}
           ofMain == Subsequence(contexts, I)
           posted == [k \in DOMAIN ofMain |-> ofMain[k].cmds]
<1>1. contexts \in Seq(Contexts)
    BY DEF ListTypes
<1>2. ofMain \in Seq(Contexts)
    <2>1. I \in SUBSET DOMAIN contexts
        OBVIOUS
    <2> HIDE DEF I
    <2> QED
        BY <1>1, <2>1, SubsequenceElements
<1>3. commands' = commands \o FlattenSeq(posted) /\ contexts' = <<>>
    BY DEF AuthOk, DeleteContexts
<1> HIDE DEF ofMain
<1>4. posted \in Seq(Pipelines)
    <2>1. Len(ofMain) \in Nat /\ DOMAIN ofMain = 1..Len(ofMain)
        BY <1>2, LenProperties
    <2>2. \A k \in DOMAIN ofMain : ofMain[k].cmds \in Pipelines
        <3>1. \A k \in DOMAIN ofMain : ofMain[k] \in Contexts
            BY <1>2, <2>1, ElementOfSeq
        <3> QED
            BY <3>1 DEF Contexts
    <2> QED
        BY <2>1, <2>2
<1> HIDE DEF posted
<1>5. FlattenSeq(posted) \in Pipelines
    BY <1>4, FlattenType DEF Pipelines
<1>6. commands' \in Pipelines
    BY <1>3, <1>5, ConcatProperties DEF ListTypes, Pipelines
<1>7. UNCHANGED <<list, chunk, executed, chunks, limit>>
    BY DEF AuthOk, callVars
<1>8. ListTypes' /\ ShortPipelines'
    BY <1>3, <1>6, <1>7, EmptySeq DEF ListTypes, ShortPipelines
<1>9. Flags' /\ ScalarTypes'
    BY DEF AuthOk, Flags, ScalarTypes, mainVars, callVars
<1> QED
    BY <1>8, <1>9

LEMMA ExecuteTypes == ASSUME PipelineTypes, Execute PROVE PipelineTypes'
<1> USE DEF PipelineTypes
<1>1. Flags' /\ ScalarTypes'
    BY DEF Execute, Flags, ScalarTypes, mainVars, callVars, sessionVars
<1>2. Head(commands) \in Seq(Numbers) /\ commands' \in Pipelines
    BY HeadTailProperties DEF Execute, ListTypes, Pipelines
<1>3. executed' \in Seq(Numbers)
    BY <1>2, ConcatProperties DEF Execute, ListTypes
<1>4. ListTypes' /\ ShortPipelines'
    BY <1>2, <1>3 DEF Execute, callVars, ListTypes, ShortPipelines
<1> QED
    BY <1>1, <1>4

\* Every variable stays in its type, and no pipeline is longer than the limit that
\* held when its list was cut: also when the session, and with it the limit of the
\* next call, changes in the middle of a call.
THEOREM PipelinesAreTyped == Spec => []TypeOK
<1>1. PipelineTypes /\ [Next]_vars => PipelineTypes'
    BY ScalarStep, CallTypes, BuildTypes, RunTypes, QuitTypes, AuthOkTypes, ExecuteTypes
       DEF Next, CallNext, MainNext
<1> QED
    BY <1>1, InitTypes, TypesSuffice, PTL DEF Spec

=============================================================================

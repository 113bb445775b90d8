-------------------------- MODULE LifecycleProofs --------------------------
(***************************************************************************)
(* The handshake of a session, however it connects, fails, is left and     *)
(* begins anew: a command that had to connect first is run once, unless    *)
(* its context is called again before it is deleted.  And as long as no    *)
(* two handshakes overlap, the server is asked nothing before it has       *)
(* accepted it, and connect(true) tells the truth.                         *)
(***************************************************************************)
EXTENDS Lifecycle, SubsequencesProofs

-----------------------------------------------------------------------------
(* What is in a queue, and whether only once. *)

Has(s, H) == \E k \in DOMAIN s : s[k] \in H
Once(s, H) == \A j, k \in DOMAIN s : s[j] \in H /\ s[k] \in H => j = k

LEMMA HasInFew ==
    ASSUME NEW e, NEW H
    PROVE  /\ ~Has(<<>>, H) /\ Once(<<>>, H)
           /\ Has(<<e>>, H) <=> e \in H
           /\ Once(<<e>>, H)
<1>1. DOMAIN <<>> = {} /\ DOMAIN <<e>> = {1} /\ <<e>>[1] = e
    <2>1. <<e>> \in Seq({e}) /\ Len(<<e>>) = 1
        OBVIOUS
    <2> QED
        BY <2>1, SeqFacts
<1> QED
    BY <1>1 DEF Has, Once

LEMMA HasInTail ==
    ASSUME NEW S, NEW s \in Seq(S), s # <<>>, NEW H
    PROVE  /\ Tail(s) \in Seq(S) /\ Head(s) \in S
           /\ Has(Tail(s), H) => Has(s, H)
           /\ Head(s) \in H => Has(s, H)
           /\ Has(s, H) => Head(s) \in H \/ Has(Tail(s), H)
           /\ Once(s, H) => Once(Tail(s), H)
           /\ Once(s, H) /\ Head(s) \in H => ~Has(Tail(s), H)
<1>1. /\ 1 \in DOMAIN s /\ Head(s) = s[1] /\ Tail(s) \in Seq(S) /\ s[1] \in S
      /\ Len(s) \in Nat \ {0} /\ DOMAIN Tail(s) = 1..(Len(s) - 1)
      /\ \A k \in DOMAIN Tail(s) : k + 1 \in DOMAIN s /\ Tail(s)[k] = s[k + 1]
    BY TailFacts, SeqFacts
<1>2. \A k \in DOMAIN Tail(s) : k \in Int /\ k + 1 # 1
    BY <1>1
<1>3. \A k \in DOMAIN s : k # 1 => k - 1 \in DOMAIN Tail(s) /\ Tail(s)[k - 1] = s[k]
    <2>1. DOMAIN s = 1..Len(s)
        BY SeqFacts
    <2>2. \A k \in DOMAIN s : k # 1 => k - 1 \in 1..(Len(s) - 1) /\ (k - 1) + 1 = k
        BY <1>1, <2>1
    <2> QED
        BY <1>1, <2>2
<1>4. /\ Has(Tail(s), H) => Has(s, H)
      /\ Head(s) \in H => Has(s, H)
    BY <1>1 DEF Has
<1>5. Has(s, H) => Head(s) \in H \/ Has(Tail(s), H)
    BY <1>1, <1>3 DEF Has
<1>6. ASSUME Once(s, H) PROVE Once(Tail(s), H)
    <2>1. \A j, k \in DOMAIN Tail(s) : j + 1 = k + 1 => j = k
        BY <1>2
    <2> QED
        BY <1>1, <1>6, <2>1 DEF Once
<1>7. Once(s, H) /\ Head(s) \in H => ~Has(Tail(s), H)
    BY <1>1, <1>2 DEF Has, Once
<1> QED
    BY <1>1, <1>4, <1>5, <1>6, <1>7

LEMMA HasInConcat ==
    ASSUME NEW S, NEW s \in Seq(S), NEW t \in Seq(S), NEW H
    PROVE  /\ s \o t \in Seq(S)
           /\ Has(s \o t, H) <=> Has(s, H) \/ Has(t, H)
           /\ Once(s, H) /\ Once(t, H) /\ ~(Has(s, H) /\ Has(t, H)) => Once(s \o t, H)
<1>1. /\ s \o t \in Seq(S) /\ Len(s) \in Nat
      /\ \A k \in DOMAIN s : k \in DOMAIN (s \o t) /\ (s \o t)[k] = s[k]
      /\ \A k \in DOMAIN t : Len(s) + k \in DOMAIN (s \o t) /\ (s \o t)[Len(s) + k] = t[k]
      /\ \A k \in DOMAIN (s \o t) : k \in Int /\ (k \in DOMAIN s \/ k - Len(s) \in DOMAIN t)
    BY ConcatFacts, SeqFacts
<1>2. \A k \in DOMAIN (s \o t) : \/ k \in DOMAIN s /\ (s \o t)[k] = s[k]
                                 \/ k - Len(s) \in DOMAIN t /\ (s \o t)[k] = t[k - Len(s)]
    <2>1. \A k \in DOMAIN (s \o t) : Len(s) + (k - Len(s)) = k
        BY <1>1
    <2> QED
        BY <1>1, <2>1
<1>3. Has(s \o t, H) <=> Has(s, H) \/ Has(t, H)
    BY <1>1, <1>2 DEF Has
<1>4. ASSUME Once(s, H), Once(t, H), ~(Has(s, H) /\ Has(t, H))
      PROVE  Once(s \o t, H)
    <2> SUFFICES ASSUME NEW j \in DOMAIN (s \o t), NEW k \in DOMAIN (s \o t),
                        (s \o t)[j] \in H, (s \o t)[k] \in H
                 PROVE  j = k
        BY DEF Once
    <2>1. CASE j \in DOMAIN s /\ (s \o t)[j] = s[j]
        BY <1>2, <1>4, <2>1 DEF Has, Once
    <2>2. CASE j - Len(s) \in DOMAIN t /\ (s \o t)[j] = t[j - Len(s)]
        <3>1. k - Len(s) \in DOMAIN t /\ (s \o t)[k] = t[k - Len(s)]
            BY <1>2, <1>4, <2>2 DEF Has
        <3>2. j - Len(s) = k - Len(s)
            BY <1>4, <2>2, <3>1 DEF Once
        <3> QED
            BY <1>1, <3>2
    <2> QED
        BY <1>2, <2>1, <2>2
<1> QED
    BY <1>1, <1>3, <1>4

LEMMA HasInAppend ==
    ASSUME NEW S, NEW s \in Seq(S), NEW e \in S, NEW H
    PROVE  /\ Append(s, e) \in Seq(S)
           /\ Has(Append(s, e), H) <=> Has(s, H) \/ e \in H
           /\ Once(s, H) /\ ~(Has(s, H) /\ e \in H) => Once(Append(s, e), H)
<1>1. /\ Append(s, e) \in Seq(S) /\ Len(s) \in Nat /\ DOMAIN s = 1..Len(s)
      /\ DOMAIN Append(s, e) = 1..(Len(s) + 1)
      /\ \A k \in DOMAIN s : k \in DOMAIN Append(s, e) /\ Append(s, e)[k] = s[k]
      /\ Append(s, e)[Len(s) + 1] = e
    BY AppendFacts
<1>2. /\ Len(s) + 1 \in DOMAIN Append(s, e)
      /\ \A k \in DOMAIN Append(s, e) : k \in DOMAIN s \/ k = Len(s) + 1
    BY <1>1
<1> QED
    BY <1>1, <1>2 DEF Has, Once

-----------------------------------------------------------------------------
(* The caller's thread, whatever overlaps. *)

Event == [type : {"connected", "error", "delete"}, session : Nat]
         \union [type : Handshakes, session : Nat, ok : BOOLEAN]
Context == [born : Nat, cmd : Commands \union Handshakes]

CallerTypes ==
    /\ events \in Seq(Event) /\ held \in Seq(Event) /\ contexts \in Seq(Context)
    /\ session \in Nat /\ authed \in BOOLEAN
    /\ asked \subseteq Commands /\ posted \in [Commands -> 0..2]

\* No event and no context is of a session to come; deletions are held in a nested loop.
NothingAhead ==
    /\ \A k \in DOMAIN events : events[k].session <= session
    /\ \A k \in DOMAIN held : held[k].type = "delete" /\ held[k].session <= session
    /\ \A k \in DOMAIN contexts : contexts[k].born <= session
    /\ waiter = "none" => held = <<>>

NotAsked ==
    \A c \in Commands \ asked :
        posted[c] = 0 /\ c \notin cancelled /\ \A k \in DOMAIN contexts : contexts[k].cmd # c

\* The contexts born in this session are going to be deleted.
Pending(born, evs, hld) == Has(evs, {Deletion(born)}) \/ Has(hld, {Deletion(born)})

\* A command of which no context was called again has one context at most that is not
\* going to be deleted, and as long as there is one it has neither been posted nor
\* cancelled.
LoneContexts ==
    \A c \in Commands \ recalled : \A k \in DOMAIN contexts :
        contexts[k].cmd = c /\ ~Pending(contexts[k].born, events, held) =>
            /\ posted[c] = 0 /\ c \notin cancelled
            /\ \A j \in DOMAIN contexts :
                   contexts[j].cmd = c /\ ~Pending(contexts[j].born, events, held) => j = k

CallerInvariant == CallerTypes /\ NothingAhead /\ NotAsked /\ LoneContexts

\* What RunsOnce says of a step.
PostsOnce ==
    \A c \in Commands :
        posted'[c] # posted[c] => (posted'[c] = 1 /\ c \notin cancelled) \/ c \in recalled'

LEMMA InitCaller == Init => CallerInvariant
<1> SUFFICES ASSUME Init PROVE CallerInvariant
    OBVIOUS
<1>1. DOMAIN <<>> = {} /\ \A S : <<>> \in Seq(S)
    OBVIOUS
<1>2. CallerTypes
    <2>1. posted \in [Commands -> 0..2]
        BY DEF Init
    <2> QED
        BY <1>1, <2>1 DEF Init, CallerTypes
<1>3. NothingAhead /\ NotAsked /\ LoneContexts
    BY <1>1 DEF Init, NothingAhead, NotAsked, LoneContexts
<1> QED
    BY <1>2, <1>3 DEF CallerInvariant

LEMMA Names ==
    /\ \A c \in Commands : c \notin Handshakes /\ c # "authOk" /\ c # "info"
    /\ FirstHandshake \in Handshakes \ {"info"}
    /\ {"auth", "ping", "info"} = Handshakes
BY CommandsAssumption DEF Handshakes, FirstHandshake

LEMMA CondemnedIsPending ==
    ASSUME CallerTypes, NEW k \in DOMAIN contexts
    PROVE  IsCondemned(contexts[k]) <=> Pending(contexts[k].born, events, held)
<1>1. events \in Seq(Event) /\ held \in Seq(Event)
    BY DEF CallerTypes
<1>2. events \o held \in Seq(Event) /\ DOMAIN (events \o held) = 1..Len(events \o held)
    BY <1>1, HasInConcat, SeqFacts
<1>3. Contains(events \o held, Deletion(contexts[k].born))
          <=> Has(events \o held, {Deletion(contexts[k].born)})
    BY <1>2 DEF Contains, Has
<1> QED
    BY <1>1, <1>3, HasInConcat DEF IsCondemned, Pending

\* deleteLater of every context that was called.
LEMMA DeletionsFacts ==
    ASSUME CallerTypes
    PROVE  /\ Deletions \in Seq(Event)
           /\ \A k \in DOMAIN Deletions :
                  \E c \in DOMAIN contexts : Deletions[k] = Deletion(contexts[c].born)
           /\ \A c \in DOMAIN contexts :
                  \/ Has(Deletions, {Deletion(contexts[c].born)})
                  \/ Pending(contexts[c].born, events, held)
<1> DEFINE new == {k \in DOMAIN contexts : ~IsCondemned(contexts[k])}
           called == Subsequence(contexts, new)
           del == [k \in DOMAIN called |-> Deletion(called[k].born)]
<1>1. Deletions = del
    BY DEF Deletions
<1>2. contexts \in Seq(Context)
    BY DEF CallerTypes
<1>3. /\ called \in Seq(Context) /\ Len(called) \in Nat /\ DOMAIN called = 1..Len(called)
      /\ \A k \in DOMAIN called : called[k] \in Context /\ \E i \in new : called[k] = contexts[i]
      /\ \A i \in new : \E k \in DOMAIN called : called[k] = contexts[i]
    <2>1. new \in SUBSET DOMAIN contexts
        OBVIOUS
    <2> QED
        BY <1>2, <2>1, SubsequenceElements, SeqFacts
<1>4. \A i \in DOMAIN contexts : i \notin new => Pending(contexts[i].born, events, held)
    BY CondemnedIsPending
<1>5. \A k \in DOMAIN called : Deletion(called[k].born) \in Event
    BY <1>3 DEF Deletion, Event, Context
<1>6. \A i \in new : i \in DOMAIN contexts
    OBVIOUS
<1> HIDE DEF new, called
<1>7. /\ del \in Seq(Event) /\ DOMAIN del = DOMAIN called
      /\ \A k \in DOMAIN del : del[k] = Deletion(called[k].born)
    BY <1>3, <1>5
<1> HIDE DEF del
<1>8. \A k \in DOMAIN del : \E c \in DOMAIN contexts : del[k] = Deletion(contexts[c].born)
    BY <1>3, <1>6, <1>7
<1>9. \A i \in new : Has(del, {Deletion(contexts[i].born)})
    BY <1>3, <1>7 DEF Has
<1> QED
    BY <1>1, <1>4, <1>7, <1>8, <1>9

\* An event that is no deletion leaves those that are posted.
LEMMA TailKeeps ==
    ASSUME CallerTypes, events # <<>>, Head(events).type # "delete"
    PROVE  /\ Tail(events) \in Seq(Event)
           /\ \A b : Pending(b, events, held) => Pending(b, Tail(events), held)
           /\ NothingAhead => \A k \in DOMAIN Tail(events) : Tail(events)[k].session <= session
<1>1. events \in Seq(Event)
    BY DEF CallerTypes
<1>2. \A b : Head(events) # Deletion(b)
    BY DEF Deletion
<1>3. /\ Tail(events) \in Seq(Event)
      /\ \A H : Has(events, H) => Head(events) \in H \/ Has(Tail(events), H)
    BY <1>1, HasInTail
<1>4. \A k \in DOMAIN Tail(events) : k + 1 \in DOMAIN events /\ Tail(events)[k] = events[k + 1]
    BY <1>1, TailFacts
<1> QED
    BY <1>2, <1>3, <1>4 DEF Pending, NothingAhead

LEMMA ConcatElements ==
    ASSUME NEW S, NEW s \in Seq(S), NEW t \in Seq(S)
    PROVE  \A k \in DOMAIN (s \o t) : \/ k \in DOMAIN s /\ (s \o t)[k] = s[k]
                                      \/ \E j \in DOMAIN t : (s \o t)[k] = t[j]
<1>1. /\ Len(s) \in Nat
      /\ \A k \in DOMAIN s : (s \o t)[k] = s[k]
      /\ \A k \in DOMAIN t : (s \o t)[Len(s) + k] = t[k]
      /\ \A k \in DOMAIN (s \o t) : k \in Int /\ (k \in DOMAIN s \/ k - Len(s) \in DOMAIN t)
    BY ConcatFacts, SeqFacts
<1>2. \A k \in DOMAIN (s \o t) : Len(s) + (k - Len(s)) = k
    BY <1>1
<1> QED
    BY <1>1, <1>2

\* After a signal every context that was there is going to be deleted.
LEMMA AllAreDeleted ==
    ASSUME CallerTypes, NothingAhead, events # <<>>, Head(events).type # "delete",
           events' = Tail(events) \o Deletions, held' = held
    PROVE  /\ events' \in Seq(Event)
           /\ \A k \in DOMAIN events' : events'[k].session <= session
           /\ \A k \in DOMAIN contexts : Pending(contexts[k].born, events', held')
<1> DEFINE s == Tail(events)
           t == Deletions
<1>1. /\ t \in Seq(Event)
      /\ \A k \in DOMAIN t : \E c \in DOMAIN contexts : t[k] = Deletion(contexts[c].born)
      /\ \A c \in DOMAIN contexts :
             Has(t, {Deletion(contexts[c].born)}) \/ Pending(contexts[c].born, events, held)
    BY DeletionsFacts
<1>2. /\ s \in Seq(Event)
      /\ \A b : Pending(b, events, held) => Pending(b, s, held)
      /\ \A k \in DOMAIN s : s[k].session <= session
    BY TailKeeps
<1>3. \A k \in DOMAIN t : t[k].session <= session
    BY <1>1 DEF NothingAhead, Deletion
<1>4. events' = s \o t
    OBVIOUS
<1>9. s \in Seq(Event) /\ t \in Seq(Event)
    BY <1>1, <1>2
<1> HIDE DEF s, t
<1>5. /\ events' \in Seq(Event)
      /\ \A H : Has(events', H) <=> Has(s, H) \/ Has(t, H)
    <2>1. s \o t \in Seq(Event)
        BY <1>9, HasInConcat
    <2>2. ASSUME NEW H PROVE Has(s \o t, H) <=> Has(s, H) \/ Has(t, H)
        BY <1>9, HasInConcat
    <2> QED
        BY <1>4, <2>1, <2>2
<1>6. \A k \in DOMAIN events' : \/ k \in DOMAIN s /\ events'[k] = s[k]
                                \/ \E j \in DOMAIN t : events'[k] = t[j]
    <2>1. \A k \in DOMAIN (s \o t) : \/ k \in DOMAIN s /\ (s \o t)[k] = s[k]
                                     \/ \E j \in DOMAIN t : (s \o t)[k] = t[j]
        BY <1>9, ConcatElements
    <2> QED
        BY <1>4, <2>1
<1>7. \A k \in DOMAIN contexts : Pending(contexts[k].born, events', held')
    BY <1>1, <1>2, <1>5 DEF Pending
<1>8. \A k \in DOMAIN events' : events'[k].session <= session
    BY <1>2, <1>3, <1>6
<1> QED
    BY <1>5, <1>7, <1>8

-----------------------------------------------------------------------------
(* Steps that call no context. *)

\* Contexts that stay are as lone as they were.
LEMMA ContextsStay ==
    ASSUME LoneContexts, NEW f,
           \A k \in DOMAIN contexts' : contexts'[k].cmd \in Commands =>
               /\ f[k] \in DOMAIN contexts /\ contexts'[k] = contexts[f[k]]
               /\ Pending(contexts'[k].born, events, held) => Pending(contexts'[k].born, events', held'),
           \A j, k \in DOMAIN contexts' : f[j] = f[k] => j = k,
           posted' = posted, cancelled' = cancelled, recalled' = recalled
    PROVE  LoneContexts'
<1> SUFFICES ASSUME NEW c \in Commands \ recalled', NEW k \in DOMAIN contexts',
                    contexts'[k].cmd = c, ~Pending(contexts'[k].born, events', held')
             PROVE  /\ posted'[c] = 0 /\ c \notin cancelled'
                    /\ \A j \in DOMAIN contexts' :
                           contexts'[j].cmd = c /\ ~Pending(contexts'[j].born, events', held')
                               => j = k
    BY DEF LoneContexts
<1>1. /\ f[k] \in DOMAIN contexts /\ contexts[f[k]].cmd = c
      /\ ~Pending(contexts[f[k]].born, events, held)
    OBVIOUS
<1>2. posted[c] = 0 /\ c \notin cancelled
    BY <1>1 DEF LoneContexts
<1>3. ASSUME NEW j \in DOMAIN contexts', contexts'[j].cmd = c,
             ~Pending(contexts'[j].born, events', held')
      PROVE  j = k
    <2>1. /\ f[j] \in DOMAIN contexts /\ contexts[f[j]].cmd = c
          /\ ~Pending(contexts[f[j]].born, events, held)
        BY <1>3
    <2>2. f[j] = f[k]
        BY <1>1, <2>1 DEF LoneContexts
    <2> QED
        BY <2>2
<1> QED
    BY <1>2, <1>3

\* The same contexts.
LEMMA SameContexts ==
    ASSUME LoneContexts, UNCHANGED <<contexts, posted, cancelled, recalled>>,
           \A b : Pending(b, events, held) => Pending(b, events', held')
    PROVE  LoneContexts'
<1> DEFINE f == [k \in DOMAIN contexts |-> k]
<1>1. \A k \in DOMAIN contexts : f[k] = k
    OBVIOUS
<1> HIDE DEF f
<1> QED
    BY <1>1, ContextsStay

\* What a transporter emits is of the session that is up.
EmitsOrNot ==
    events' = events \/ \E e \in Event : e.session = session /\ events' = Append(events, e)

LEMMA TransporterEmits ==
    ASSUME CallerTypes, TransporterNext
    PROVE  TransporterStep /\ authed' \in BOOLEAN /\ EmitsOrNot
<1>1. session \in Nat /\ authed \in BOOLEAN
    BY DEF CallerTypes
<1>2. /\ [type |-> "connected", session |-> session] \in Event
      /\ [type |-> "error", session |-> session] \in Event
      /\ \A h \in Handshakes, o \in BOOLEAN : [type |-> h, session |-> session, ok |-> o] \in Event
    BY <1>1 DEF Event
<1>3. \A h, o : [type |-> h, session |-> session, ok |-> o].session = session
    OBVIOUS
<1>4. CASE LinkUp
    BY <1>2, <1>4, UseAuthAssumption DEF LinkUp, Emit, EmitsOrNot
<1>5. CASE LinkFails
    BY <1>2, <1>5 DEF LinkFails, Emit, EmitsOrNot
<1>6. CASE LinkLost \/ Reconnect \/ TakeCall \/ Send \/ AnswerUser
    BY <1>1, <1>6 DEF LinkLost, Reconnect, TakeCall, Send, AnswerUser, Answered, EmitsOrNot
<1>7. CASE AnswerHandshake
    <2>1. /\ TransporterStep /\ Head(running) \in Handshakes /\ authed' \in BOOLEAN
          /\ events' = Append(events, [type |-> Head(running), session |-> session, ok |-> authed'])
        BY <1>1, <1>7 DEF AnswerHandshake, Answered, IsHandshake, ReplyTo
    <2> QED
        BY <1>2, <1>3, <2>1 DEF EmitsOrNot
<1>8. CASE RefuseHandshake
    <2>1. /\ TransporterStep /\ authed' = authed
          /\ events' = Append(events, [type |-> FirstHandshake, session |-> session, ok |-> FALSE])
        BY <1>8 DEF RefuseHandshake, Answered, ReplyTo
    <2> QED
        BY <1>1, <1>2, <1>3, <2>1, Names DEF EmitsOrNot
<1>9. CASE RefuseAuth
    <2>1. /\ TransporterStep /\ authed' \in {authed, TRUE}
          /\ events' = Append(events, [type |-> "auth", session |-> session, ok |-> TRUE])
        BY <1>9 DEF RefuseAuth, Answered, ReplyTo
    <2> QED
        BY <1>1, <1>2, <1>3, <2>1, Names DEF EmitsOrNot
<1> QED
    BY <1>4, <1>5, <1>6, <1>7, <1>8, <1>9 DEF TransporterNext

LEMMA EmitsEvent ==
    ASSUME CallerTypes, EmitsOrNot
    PROVE  /\ events' \in Seq(Event)
           /\ \A b : Pending(b, events, held) => Pending(b, events', held)
           /\ NothingAhead => \A k \in DOMAIN events' : events'[k].session <= session
<1>1. events \in Seq(Event) /\ session \in Nat
    BY DEF CallerTypes
<1>2. ASSUME NEW e \in Event, e.session = session, events' = Append(events, e)
      PROVE  /\ events' \in Seq(Event)
             /\ \A b : Pending(b, events, held) => Pending(b, events', held)
             /\ NothingAhead => \A k \in DOMAIN events' : events'[k].session <= session
    <2>1. events' \in Seq(Event) /\ \A H : Has(events', H) <=> Has(events, H) \/ e \in H
        BY <1>1, <1>2, HasInAppend
    <2>2. /\ \A k \in DOMAIN events : events'[k] = events[k]
          /\ \A k \in DOMAIN events' : k \in DOMAIN events \/ events'[k] = e
        BY <1>1, <1>2, AppendFacts
    <2>3. session <= session
        BY <1>1
    <2> QED
        BY <1>2, <2>1, <2>2, <2>3 DEF Pending, NothingAhead
<1> QED
    BY <1>1, <1>2 DEF EmitsOrNot, NothingAhead

LEMMA TransporterCaller ==
    ASSUME CallerInvariant, TransporterNext
    PROVE  CallerInvariant' /\ posted' = posted
<1>1. TransporterStep /\ authed' \in BOOLEAN /\ EmitsOrNot
    BY TransporterEmits DEF CallerInvariant
<1>2. UNCHANGED <<asked, held, waiter, session, contexts, posted, cancelled, recalled>>
    BY <1>1 DEF TransporterStep, callerVars, sessionVars, historyVars
<1>3. /\ events' \in Seq(Event)
      /\ \A b : Pending(b, events, held) => Pending(b, events', held')
      /\ \A k \in DOMAIN events' : events'[k].session <= session
    BY <1>1, <1>2, EmitsEvent DEF CallerInvariant
<1>4. LoneContexts'
    BY <1>2, <1>3, SameContexts DEF CallerInvariant
<1>5. CallerTypes' /\ NothingAhead' /\ NotAsked'
    BY <1>1, <1>2, <1>3 DEF CallerInvariant, CallerTypes, NothingAhead, NotAsked
<1> QED
    BY <1>2, <1>4, <1>5 DEF CallerInvariant

\* What is not ahead of a session is not ahead of the next one.
LEMMA NextSession ==
    ASSUME CallerTypes, NothingAhead
    PROVE  /\ session + 1 \in Nat /\ session + 1 <= session + 1
           /\ \A k \in DOMAIN events : events[k].session <= session + 1
           /\ \A k \in DOMAIN held : held[k].session <= session + 1
           /\ \A k \in DOMAIN contexts : /\ contexts[k].born <= session + 1
                                         /\ contexts[k].born # session + 1
<1>1. /\ \A e \in Event : e.session \in Nat
      /\ \A c \in Context : c.born \in Nat
    BY DEF Event, Context
<1>2. /\ \A k \in DOMAIN events : events[k] \in Event
      /\ \A k \in DOMAIN held : held[k] \in Event
      /\ \A k \in DOMAIN contexts : contexts[k] \in Context
      /\ session \in Nat
    BY SeqFacts DEF CallerTypes
<1>3. /\ \A k \in DOMAIN events : events[k].session \in Nat /\ events[k].session <= session
      /\ \A k \in DOMAIN held : held[k].session \in Nat /\ held[k].session <= session
      /\ \A k \in DOMAIN contexts : contexts[k].born \in Nat /\ contexts[k].born <= session
    BY <1>1, <1>2 DEF NothingAhead
<1> QED
    BY <1>2, <1>3

LEMMA ConnectCaller ==
    ASSUME CallerInvariant, Connect
    PROVE  CallerInvariant' /\ posted' = posted
<1>1. /\ session' = session + 1
      /\ UNCHANGED <<asked, held, waiter, events, contexts, authed, posted, cancelled, recalled>>
    BY DEF Connect, StartSession, callerVars, historyVars
<1>2. CallerTypes' /\ NothingAhead'
    BY <1>1, NextSession DEF CallerInvariant, CallerTypes, NothingAhead
<1>3. NotAsked' /\ LoneContexts'
    BY <1>1 DEF CallerInvariant, NotAsked, LoneContexts
<1> QED
    BY <1>1, <1>2, <1>3 DEF CallerInvariant

LEMMA DisconnectCaller ==
    ASSUME CallerInvariant, Disconnect
    PROVE  CallerInvariant' /\ posted' = posted
<1>1. /\ session' = session /\ authed' = FALSE /\ (waiter' = "none" => waiter = "none")
      /\ UNCHANGED <<asked, held, events, contexts, posted, cancelled, recalled>>
    BY DEF Disconnect, EndSession, AbortWaiter
<1>2. CallerTypes' /\ NothingAhead'
    BY <1>1 DEF CallerInvariant, CallerTypes, NothingAhead
<1>3. NotAsked' /\ LoneContexts'
    BY <1>1 DEF CallerInvariant, NotAsked, LoneContexts
<1> QED
    BY <1>1, <1>2, <1>3 DEF CallerInvariant

\* connect(true): the deletions that are posted wait in the outer loop.
LEMMA ConnectAndWaitCaller ==
    ASSUME CallerInvariant, ConnectAndWait
    PROVE  CallerInvariant' /\ posted' = posted
<1>1. /\ waiter = "none" /\ waiter' = "waiting" /\ session' = session + 1
      /\ held' = Subsequence(events, DeletesAt)
      /\ events' = Subsequence(events, DOMAIN events \ DeletesAt)
      /\ UNCHANGED <<asked, contexts, authed, posted, cancelled, recalled>>
    BY DEF ConnectAndWait, StartSession, historyVars
<1>2. events \in Seq(Event) /\ held = <<>>
    BY <1>1 DEF CallerInvariant, CallerTypes, NothingAhead
<1>3. /\ held' \in Seq(Event) /\ events' \in Seq(Event)
      /\ \A k \in DOMAIN held' : \E i \in DeletesAt : held'[k] = events[i]
      /\ \A i \in DeletesAt : \E k \in DOMAIN held' : held'[k] = events[i]
      /\ \A k \in DOMAIN events' : \E i \in DOMAIN events : events'[k] = events[i]
    <2>1. DeletesAt \in SUBSET DOMAIN events /\ (DOMAIN events \ DeletesAt) \in SUBSET DOMAIN events
        BY DEF DeletesAt
    <2>2. /\ held' \in Seq(Event)
          /\ \A k \in DOMAIN held' : \E i \in DeletesAt : held'[k] = events[i]
          /\ \A i \in DeletesAt : \E k \in DOMAIN held' : held'[k] = events[i]
        BY <1>1, <1>2, <2>1, SubsequenceElements, SeqFacts
    <2>3. /\ events' \in Seq(Event)
          /\ \A k \in DOMAIN events' : \E i \in DOMAIN events \ DeletesAt : events'[k] = events[i]
        BY <1>1, <1>2, <2>1, SubsequenceElements, SeqFacts
    <2> QED
        BY <2>2, <2>3
<1>4. \A b : Pending(b, events, held) => Pending(b, events', held')
    <2> SUFFICES ASSUME NEW b, Pending(b, events, held) PROVE Has(held', {Deletion(b)})
        BY DEF Pending
    <2>1. PICK i \in DOMAIN events : events[i] = Deletion(b)
        BY <1>2, HasInFew DEF Pending, Has
    <2>2. i \in DeletesAt
        BY <2>1 DEF DeletesAt, Deletion
    <2> QED
        BY <1>3, <2>1, <2>2 DEF Has
<1>5. LoneContexts'
    BY <1>1, <1>4, SameContexts DEF CallerInvariant
<1>6. NothingAhead'
    <2>1. \A k \in DOMAIN events : events[k].session <= session + 1
        BY NextSession DEF CallerInvariant
    <2>2. \A k \in DOMAIN held' : held'[k].type = "delete" /\ held'[k].session <= session + 1
        BY <1>3, <2>1 DEF DeletesAt
    <2>3. \A k \in DOMAIN events' : events'[k].session <= session + 1
        BY <1>3, <2>1
    <2>4. \A k \in DOMAIN contexts : contexts[k].born <= session + 1
        BY NextSession DEF CallerInvariant
    <2> QED
        BY <1>1, <2>2, <2>3, <2>4 DEF NothingAhead
<1>7. CallerTypes' /\ NotAsked'
    <2>1. session' \in Nat
        BY <1>1, NextSession DEF CallerInvariant
    <2> QED
        BY <1>1, <1>3, <2>1 DEF CallerInvariant, CallerTypes, NotAsked
<1> QED
    BY <1>1, <1>5, <1>6, <1>7 DEF CallerInvariant

\* Back in the outer loop: what it still has to delete comes first.
LEMMA LeaveLoopCaller ==
    ASSUME CallerInvariant, LeaveLoop
    PROVE  CallerInvariant' /\ posted' = posted
<1>1. /\ events' = held \o events /\ held' = <<>>
      /\ UNCHANGED <<asked, session, contexts, authed, posted, cancelled, recalled>>
    BY DEF LeaveLoop, sessionVars, historyVars
<1>2. events \in Seq(Event) /\ held \in Seq(Event)
    BY DEF CallerInvariant, CallerTypes
<1>3. /\ events' \in Seq(Event)
      /\ \A H : Has(events', H) <=> Has(held, H) \/ Has(events, H)
      /\ \A k \in DOMAIN events' : \/ k \in DOMAIN held /\ events'[k] = held[k]
                                   \/ \E j \in DOMAIN events : events'[k] = events[j]
    BY <1>1, <1>2, HasInConcat, ConcatElements
<1>4. LoneContexts'
    <2>1. \A b : Pending(b, events, held) => Pending(b, events', held')
        BY <1>3 DEF Pending
    <2> QED
        BY <1>1, <2>1, SameContexts DEF CallerInvariant
<1>5. held' \in Seq(Event) /\ DOMAIN held' = {}
    BY <1>1
<1>6. CallerTypes' /\ NothingAhead' /\ NotAsked'
    BY <1>1, <1>3, <1>5 DEF CallerInvariant, CallerTypes, NothingAhead, NotAsked
<1> QED
    BY <1>1, <1>4, <1>6 DEF CallerInvariant

\* A context is deleted, and so is every context of its session.
LEMMA DeleteCaller ==
    ASSUME CallerInvariant, HandleDelete
    PROVE  CallerInvariant' /\ posted' = posted
<1> DEFINE n == Head(events).session
           keeps == {k \in DOMAIN contexts : contexts[k].born # n}
<1>1. /\ events # <<>> /\ Head(events).type = "delete" /\ events' = Tail(events)
      /\ contexts' = Subsequence(contexts, keeps)
      /\ UNCHANGED <<asked, held, waiter, session, authed, posted, cancelled, recalled>>
    BY DEF HandleDelete, Handle, sessionVars
<1>2. events \in Seq(Event) /\ contexts \in Seq(Context)
    BY DEF CallerInvariant, CallerTypes
<1>3. keeps \in SUBSET DOMAIN contexts /\ \A k \in keeps : contexts[k].born # n
    OBVIOUS
<1> HIDE DEF keeps
<1>4. contexts' \in Seq(Context) /\ DOMAIN contexts' = 1..Cardinality(keeps)
    BY <1>1, <1>2, <1>3, SubsequenceElements, SeqFacts
<1>5. PICK f \in [1..Cardinality(keeps) -> keeps] :
          /\ \A k \in 1..Cardinality(keeps) : contexts'[k] = contexts[f[k]]
          /\ \A j, k \in 1..Cardinality(keeps) : j < k => f[j] < f[k]
    BY <1>1, <1>2, <1>3, SubsequenceOrder
<1>6. \A k \in DOMAIN contexts' : /\ f[k] \in DOMAIN contexts /\ contexts'[k] = contexts[f[k]]
                                  /\ contexts'[k].born # n /\ k \in Int /\ f[k] \in Int
    <2>1. \A k \in DOMAIN contexts : k \in Int
        BY <1>2, SeqFacts
    <2>2. \A k \in 1..Cardinality(keeps) : f[k] \in keeps /\ k \in Int
        BY <1>5
    <2> QED
        BY <1>3, <1>4, <1>5, <2>1, <2>2
<1>7. \A j, k \in DOMAIN contexts' : f[j] = f[k] => j = k
    <2> SUFFICES ASSUME NEW j \in DOMAIN contexts', NEW k \in DOMAIN contexts', j # k
                 PROVE  f[j] # f[k]
        OBVIOUS
    <2>1. j < k \/ k < j
        BY <1>6
    <2>2. f[j] < f[k] \/ f[k] < f[j]
        BY <1>4, <1>5, <2>1
    <2> QED
        BY <1>6, <2>2
<1>8. \A b : b # n /\ Pending(b, events, held) => Pending(b, events', held')
    <2>1. \A b : b # n => Head(events) # Deletion(b)
        BY DEF Deletion
    <2>2. \A H : Has(events, H) => Head(events) \in H \/ Has(Tail(events), H)
        BY <1>1, <1>2, HasInTail
    <2> QED
        BY <1>1, <2>1, <2>2 DEF Pending
<1>9. LoneContexts'
    <2>1. \A k \in DOMAIN contexts' : contexts'[k].cmd \in Commands =>
              /\ f[k] \in DOMAIN contexts /\ contexts'[k] = contexts[f[k]]
              /\ Pending(contexts'[k].born, events, held) => Pending(contexts'[k].born, events', held')
        BY <1>6, <1>8
    <2>2. LoneContexts /\ posted' = posted /\ cancelled' = cancelled /\ recalled' = recalled
        BY <1>1 DEF CallerInvariant
    <2> QED
        BY <1>7, <2>1, <2>2, ContextsStay
<1>10. /\ events' \in Seq(Event)
       /\ \A k \in DOMAIN events' : k + 1 \in DOMAIN events /\ events'[k] = events[k + 1]
    BY <1>1, <1>2, TailFacts
<1>11. CallerTypes' /\ NothingAhead' /\ NotAsked'
    BY <1>1, <1>4, <1>6, <1>10 DEF CallerInvariant, CallerTypes, NothingAhead, NotAsked
<1> QED
    BY <1>1, <1>9, <1>11 DEF CallerInvariant

-----------------------------------------------------------------------------
(* Steps that run commands or call contexts. *)

\* Each command is counted as often as it is in cmds.
LEMMA CountEach ==
    ASSUME posted \in [Commands -> 0..2], NEW S, NEW cmds \in Seq(S), CountPosts(cmds)
    PROVE  /\ posted' \in [Commands -> 0..2]
           /\ \A c \in Commands :
                  /\ ~Has(cmds, {c}) => posted'[c] = posted[c]
                  /\ Has(cmds, {c}) /\ Once(cmds, {c}) /\ posted[c] = 0 => posted'[c] = 1
<1> DEFINE At(c) == {k \in DOMAIN cmds : cmds[k] = c}
           count(c) == LET n == posted[c] + Cardinality(At(c)) IN IF n > 2 THEN 2 ELSE n
<1>1. posted' = [c \in Commands |-> count(c)]
    BY DEF CountPosts
<1>2. \A c : Cardinality(At(c)) \in Nat
    <2>1. IsFiniteSet(DOMAIN cmds)
        BY SeqFacts, FS_Interval
    <2>2. \A c : At(c) \subseteq DOMAIN cmds
        OBVIOUS
    <2> HIDE DEF At
    <2> QED
        BY <2>1, <2>2, FS_Subset, FS_CardinalityType
<1>3. ASSUME NEW c, ~Has(cmds, {c}) PROVE Cardinality(At(c)) = 0
    <2>1. At(c) = {}
        BY <1>3 DEF Has
    <2> QED
        BY <2>1, FS_EmptySet
<1>4. ASSUME NEW c, Has(cmds, {c}), Once(cmds, {c}) PROVE Cardinality(At(c)) = 1
    <2>1. PICK k \in DOMAIN cmds : cmds[k] = c
        BY <1>4 DEF Has
    <2>2. At(c) = {k}
        BY <1>4, <2>1 DEF Once
    <2> QED
        BY <2>2, FS_Singleton
<1>5. \A c \in Commands : posted[c] \in 0..2
    OBVIOUS
<1> HIDE DEF At
<1>6. ASSUME NEW c \in Commands
      PROVE  /\ count(c) \in 0..2
             /\ ~Has(cmds, {c}) => count(c) = posted[c]
             /\ Has(cmds, {c}) /\ Once(cmds, {c}) /\ posted[c] = 0 => count(c) = 1
    <2>1. count(c) \in 0..2
        BY <1>2, <1>5
    <2>2. ~Has(cmds, {c}) => count(c) = posted[c]
        BY <1>3, <1>5
    <2>3. Has(cmds, {c}) /\ Once(cmds, {c}) /\ posted[c] = 0 => count(c) = 1
        BY <1>4
    <2> QED
        BY <2>1, <2>2, <2>3
<1> HIDE DEF count
<1> QED
    BY <1>1, <1>6

\* One command, or none.
LEMMA CountOne ==
    ASSUME posted \in [Commands -> 0..2], NEW c
    PROVE  /\ CountPosts(<<>>) => posted' = posted
           /\ CountPosts(<<c>>) =>
                  /\ posted' \in [Commands -> 0..2]
                  /\ \A d \in Commands : d # c => posted'[d] = posted[d]
                  /\ c \in Commands /\ posted[c] = 0 => posted'[c] = 1
<1>1. <<>> \in Seq({c}) /\ <<c>> \in Seq({c})
    OBVIOUS
<1>2. /\ \A d : ~Has(<<>>, {d}) /\ (Has(<<c>>, {d}) <=> c \in {d})
      /\ Once(<<c>>, {c})
    BY HasInFew
<1>3. ASSUME CountPosts(<<>>) PROVE posted' = posted
    <2>1. posted' \in [Commands -> 0..2] /\ \A d \in Commands : posted'[d] = posted[d]
        BY <1>1, <1>2, <1>3, CountEach
    <2> QED
        BY <2>1
<1>4. ASSUME CountPosts(<<c>>)
      PROVE  /\ posted' \in [Commands -> 0..2]
             /\ \A d \in Commands : d # c => posted'[d] = posted[d]
             /\ c \in Commands /\ posted[c] = 0 => posted'[c] = 1
    BY <1>1, <1>2, <1>4, CountEach
<1> QED
    BY <1>3, <1>4

\* runCommand on one command, which is not yet known here when it is a user's: a
\* session that is up takes it, another one begins with its context.
LEMMA RunOneCaller ==
    ASSUME CallerInvariant, NEW c \in Commands \union Handshakes, RunCommands(<<c>>, <<>>),
           c \in Commands => c \notin asked /\ c \in asked',
           asked \subseteq asked', asked' \subseteq Commands, \A d \in asked' : d = c \/ d \in asked,
           events' \in Seq(Event), \A k \in DOMAIN events' : events'[k].session <= session,
           \A b : Pending(b, events, held) => Pending(b, events', held),
           UNCHANGED <<held, waiter, cancelled, recalled>>
    PROVE  CallerInvariant' /\ PostsOnce
<1>1. /\ events \in Seq(Event) /\ held \in Seq(Event) /\ contexts \in Seq(Context)
      /\ session \in Nat /\ authed \in BOOLEAN /\ posted \in [Commands -> 0..2]
    BY DEF CallerInvariant, CallerTypes
<1>2. authed' = authed
    BY DEF RunCommands, StartSession
<1>3. c \in Commands => /\ posted[c] = 0 /\ c \notin cancelled
                        /\ \A k \in DOMAIN contexts : contexts[k].cmd # c
    BY DEF CallerInvariant, NotAsked
<1>4. CASE up
    <2>1. CountPosts(<<c>>) /\ UNCHANGED <<session, contexts>>
        BY <1>4 DEF RunCommands, sessionVars
    <2>2. /\ posted' \in [Commands -> 0..2]
          /\ \A d \in Commands : d # c => posted'[d] = posted[d]
          /\ c \in Commands => posted'[c] = 1
        BY <1>1, <1>3, <2>1, CountOne
    <2>3. CallerTypes' /\ NothingAhead'
        BY <1>1, <1>2, <2>1, <2>2 DEF CallerInvariant, CallerTypes, NothingAhead
    <2>4. NotAsked'
        BY <2>1, <2>2 DEF CallerInvariant, NotAsked
    <2>5. LoneContexts'
        BY <1>3, <2>1, <2>2 DEF CallerInvariant, LoneContexts
    <2>6. PostsOnce
        BY <1>3, <2>2 DEF PostsOnce
    <2> QED
        BY <2>3, <2>4, <2>5, <2>6 DEF CallerInvariant
<1>5. CASE ~up
    <2> DEFINE context == [born |-> session + 1, cmd |-> c]
    <2>1. contexts' = Append(contexts, context) /\ session' = session + 1 /\ CountPosts(<<>>)
        <3>1. <<c>> # <<>> /\ Head(<<c>>) = c /\ Tail(<<c>>) = <<>>
            OBVIOUS
        <3> QED
            BY <1>5, <3>1 DEF RunCommands, StartSession
    <2>2. posted' = posted
        BY <1>1, <2>1, CountOne
    <2>3. context \in Context /\ context.born = session + 1 /\ context.cmd = c
        BY <1>1 DEF Context
    <2> HIDE DEF context
    <2>4. /\ contexts' \in Seq(Context)
          /\ DOMAIN contexts = 1..Len(contexts) /\ DOMAIN contexts' = 1..(Len(contexts) + 1)
          /\ Len(contexts) \in Nat
          /\ \A k \in DOMAIN contexts : contexts'[k] = contexts[k]
          /\ contexts'[Len(contexts) + 1] = context
        BY <1>1, <2>1, <2>3, AppendFacts
    <2>5. \A k \in DOMAIN contexts' : k \in DOMAIN contexts \/ k = Len(contexts) + 1
        BY <2>4
    <2>6. CallerTypes'
        BY <1>1, <1>2, <2>1, <2>2, <2>4 DEF CallerTypes
    <2>7. NothingAhead'
        <3>1. session <= session + 1 /\ \A e \in Event : e.session <= session => e.session <= session + 1
            BY <1>1 DEF Event
        <3>2. \A k \in DOMAIN events' : events'[k].session <= session + 1
            BY <3>1, SeqFacts
        <3>3. /\ \A k \in DOMAIN held : held[k].session <= session + 1
              /\ \A k \in DOMAIN contexts : contexts[k].born <= session + 1
              /\ context.born <= session + 1
            BY <2>3, NextSession DEF CallerInvariant
        <3>4. \A k \in DOMAIN contexts' : contexts'[k].born <= session + 1
            BY <2>4, <2>5, <3>3
        <3> QED
            BY <2>1, <3>2, <3>3, <3>4 DEF CallerInvariant, NothingAhead
    <2>8. NotAsked'
        BY <2>2, <2>3, <2>4, <2>5 DEF CallerInvariant, NotAsked
    <2>9. LoneContexts'
        <3> SUFFICES ASSUME NEW d \in Commands \ recalled', NEW k \in DOMAIN contexts',
                            contexts'[k].cmd = d, ~Pending(contexts'[k].born, events', held')
                     PROVE  /\ posted'[d] = 0 /\ d \notin cancelled'
                            /\ \A j \in DOMAIN contexts' :
                                   contexts'[j].cmd = d /\ ~Pending(contexts'[j].born, events', held')
                                       => j = k
            BY DEF LoneContexts
        <3>1. CASE d = c
            <4>1. \A j \in DOMAIN contexts' : contexts'[j].cmd = c => j = Len(contexts) + 1
                BY <1>3, <2>4, <2>5, <3>1
            <4> QED
                BY <1>3, <2>2, <3>1, <4>1
        <3>2. CASE d # c
            <4>1. \A j \in DOMAIN contexts' : contexts'[j].cmd = d =>
                      j \in DOMAIN contexts /\ contexts'[j] = contexts[j]
                BY <2>3, <2>4, <2>5, <3>2
            <4>2. \A j \in DOMAIN contexts' :
                      contexts'[j].cmd = d /\ ~Pending(contexts'[j].born, events', held') =>
                          /\ j \in DOMAIN contexts /\ contexts[j].cmd = d
                          /\ ~Pending(contexts[j].born, events, held)
                BY <4>1
            <4>3. posted[d] = 0 /\ d \notin cancelled
                BY <4>2 DEF CallerInvariant, LoneContexts
            <4>4. \A j \in DOMAIN contexts' :
                      contexts'[j].cmd = d /\ ~Pending(contexts'[j].born, events', held') => j = k
                BY <4>2 DEF CallerInvariant, LoneContexts
            <4> QED
                BY <2>2, <4>3, <4>4
        <3> QED
            BY <3>1, <3>2
    <2>10. PostsOnce
        BY <2>2 DEF PostsOnce
    <2> QED
        BY <2>6, <2>7, <2>8, <2>9, <2>10 DEF CallerInvariant
<1> QED
    BY <1>4, <1>5

LEMMA RunCaller ==
    ASSUME CallerInvariant, NEW c \in Commands, Run(c)
    PROVE  CallerInvariant' /\ PostsOnce
<1>1. /\ c \notin asked /\ asked' = asked \union {c} /\ RunCommands(<<c>>, <<>>)
      /\ UNCHANGED <<events, held, waiter, cancelled, recalled>>
    BY DEF Run
<1>2. /\ asked \subseteq Commands /\ events' \in Seq(Event)
      /\ \A k \in DOMAIN events' : events'[k].session <= session
    BY <1>1 DEF CallerInvariant, CallerTypes, NothingAhead
<1> QED
    BY <1>1, <1>2, RunOneCaller

\* The next step of a handshake may have to connect first, and get a context.
LEMMA ContinueCaller ==
    ASSUME CallerInvariant, NEW h \in Handshakes, Continue(h), UNCHANGED <<asked, held>>,
           events # <<>>, Head(events).type # "delete"
    PROVE  CallerInvariant' /\ PostsOnce
<1>1. /\ RunCommands(<<h>>, <<>>) /\ events' = Tail(events)
      /\ UNCHANGED <<asked, held, waiter, cancelled, recalled>>
    BY DEF Continue
<1>2. /\ events' \in Seq(Event) /\ asked \subseteq Commands
      /\ \A b : Pending(b, events, held) => Pending(b, events', held)
      /\ \A k \in DOMAIN events' : events'[k].session <= session
    BY <1>1, TailKeeps DEF CallerInvariant, CallerTypes
<1>3. h \notin Commands
    BY Names
<1> QED
    BY <1>1, <1>2, <1>3, RunOneCaller

\* emit error(): every context cancels its future.
LEMMA ErrorCaller ==
    ASSUME CallerInvariant, DisconnectOnError, UNCHANGED <<asked, held>>,
           events # <<>>, Head(events).type # "delete"
    PROVE  CallerInvariant' /\ posted' = posted
<1>1. /\ CancelContexts /\ events' = Tail(events) \o Deletions /\ recalled' = recalled \union CalledAgain
      /\ session' = session /\ authed' = FALSE /\ (waiter' = "none" => waiter = "none")
      /\ UNCHANGED <<asked, held, contexts, posted>>
    BY DEF DisconnectOnError, EndSession, AbortWaiter
<1>2. /\ events' \in Seq(Event)
      /\ \A k \in DOMAIN events' : events'[k].session <= session
      /\ \A k \in DOMAIN contexts : Pending(contexts[k].born, events', held')
    BY <1>1, AllAreDeleted DEF CallerInvariant
<1>3. CallerTypes' /\ NothingAhead'
    BY <1>1, <1>2 DEF CallerInvariant, CallerTypes, NothingAhead
<1>4. NotAsked'
    <2>1. \A c \in cancelled' : c \in cancelled \/ \E k \in DOMAIN contexts : contexts[k].cmd = c
        BY <1>1 DEF CancelContexts
    <2> QED
        BY <1>1, <2>1 DEF CallerInvariant, NotAsked
<1>5. LoneContexts'
    BY <1>1, <1>2 DEF LoneContexts
<1> QED
    BY <1>1, <1>3, <1>4, <1>5 DEF CallerInvariant

\* emit authOk(): every context runs its command; the first of them may have to
\* connect, and gets another one.
LEMMA AuthOkCaller ==
    ASSUME CallerInvariant, EmitAuthOk, UNCHANGED <<asked, held>>,
           events # <<>>, Head(events).type # "delete"
    PROVE  CallerInvariant' /\ PostsOnce
<1> DEFINE cmds == [k \in DOMAIN contexts |-> contexts[k].cmd]
<1>1. /\ RunCommands(cmds, <<"authOk">>) /\ events' = Tail(events) \o Deletions
      /\ recalled' = recalled \union CalledAgain /\ (waiter' = "none" => waiter = "none")
      /\ UNCHANGED <<asked, held, cancelled>>
    BY DEF EmitAuthOk, WaiterSucceeds
<1>2. /\ contexts \in Seq(Context) /\ held \in Seq(Event) /\ session \in Nat /\ authed \in BOOLEAN
      /\ posted \in [Commands -> 0..2] /\ asked \subseteq Commands
    BY DEF CallerInvariant, CallerTypes
<1>3. /\ events' \in Seq(Event)
      /\ \A k \in DOMAIN events' : events'[k].session <= session
      /\ \A k \in DOMAIN contexts : Pending(contexts[k].born, events', held')
    BY <1>1, AllAreDeleted DEF CallerInvariant
<1>4. authed' = authed
    BY <1>1 DEF RunCommands, StartSession
<1>5. /\ cmds \in Seq(Commands \union Handshakes) /\ DOMAIN cmds = DOMAIN contexts
      /\ \A k \in DOMAIN contexts : cmds[k] = contexts[k].cmd
    <2>1. Len(contexts) \in Nat /\ DOMAIN contexts = 1..Len(contexts)
          /\ \A k \in DOMAIN contexts : contexts[k] \in Context
        BY <1>2, SeqFacts
    <2>2. \A k \in DOMAIN contexts : contexts[k].cmd \in Commands \union Handshakes
        BY <2>1 DEF Context
    <2> QED
        BY <2>1, <2>2
<1> HIDE DEF cmds
<1>6. ASSUME NEW c \in Commands \ recalled'
      PROVE  Once(cmds, {c}) /\ (Has(cmds, {c}) => posted[c] = 0 /\ c \notin cancelled)
    <2>1. \A k \in DOMAIN contexts : contexts[k].cmd = c => ~Pending(contexts[k].born, events, held)
        BY <1>1, <1>6, CondemnedIsPending DEF CalledAgain, CallerInvariant
    <2>2. c \in Commands \ recalled
        BY <1>1
    <2> QED
        BY <1>5, <2>1, <2>2 DEF CallerInvariant, LoneContexts, Once, Has
<1>7. \A c \in Commands : Has(cmds, {c}) => c \in asked
    BY <1>5 DEF Has, CallerInvariant, NotAsked
<1>8. CASE UNCHANGED <<session, contexts>> /\ (CountPosts(cmds) \/ posted' = posted)
    <2>1. /\ posted' \in [Commands -> 0..2]
          /\ \A c \in Commands :
                 /\ ~Has(cmds, {c}) => posted'[c] = posted[c]
                 /\ c \notin recalled' /\ posted'[c] # posted[c] => posted'[c] = 1 /\ c \notin cancelled
        BY <1>2, <1>5, <1>6, <1>8, CountEach
    <2>2. CallerTypes' /\ NothingAhead'
        BY <1>1, <1>2, <1>3, <1>4, <1>8, <2>1 DEF CallerInvariant, CallerTypes, NothingAhead
    <2>3. NotAsked'
        BY <1>1, <1>7, <1>8, <2>1 DEF CallerInvariant, NotAsked
    <2>4. LoneContexts'
        BY <1>3, <1>8 DEF LoneContexts
    <2>5. PostsOnce
        BY <2>1 DEF PostsOnce
    <2> QED
        BY <2>2, <2>3, <2>4, <2>5 DEF CallerInvariant
<1>9. CASE /\ cmds # <<>> /\ CountPosts(Tail(cmds)) /\ session' = session + 1
           /\ contexts' = Append(contexts, [born |-> session + 1, cmd |-> Head(cmds)])
    <2> DEFINE context == [born |-> session + 1, cmd |-> Head(cmds)]
    <2>1. /\ Tail(cmds) \in Seq(Commands \union Handshakes) /\ Head(cmds) \in Commands \union Handshakes
          /\ \A H : /\ Has(Tail(cmds), H) => Has(cmds, H)
                    /\ Head(cmds) \in H => Has(cmds, H)
                    /\ Once(cmds, H) => Once(Tail(cmds), H)
                    /\ Once(cmds, H) /\ Head(cmds) \in H => ~Has(Tail(cmds), H)
        BY <1>5, <1>9, HasInTail
    <2>2. /\ posted' \in [Commands -> 0..2]
          /\ \A c \in Commands :
                 /\ ~Has(Tail(cmds), {c}) => posted'[c] = posted[c]
                 /\ Has(Tail(cmds), {c}) /\ Once(Tail(cmds), {c}) /\ posted[c] = 0 => posted'[c] = 1
        BY <1>2, <1>9, <2>1, CountEach
    <2>3. context \in Context /\ context.born = session + 1 /\ context.cmd = Head(cmds)
        BY <1>2, <2>1 DEF Context
    <2>4. contexts' = Append(contexts, context)
        BY <1>9
    <2> HIDE DEF context
    <2>5. /\ contexts' \in Seq(Context)
          /\ DOMAIN contexts = 1..Len(contexts) /\ DOMAIN contexts' = 1..(Len(contexts) + 1)
          /\ Len(contexts) \in Nat
          /\ \A k \in DOMAIN contexts : contexts'[k] = contexts[k]
          /\ contexts'[Len(contexts) + 1] = context
        BY <1>2, <2>3, <2>4, AppendFacts
    <2>6. \A k \in DOMAIN contexts' : k \in DOMAIN contexts \/ k = Len(contexts) + 1
        BY <2>5
    <2>7. CallerTypes'
        <3>1. session' \in Nat
            BY <1>2, <1>9
        <3> QED
            BY <1>1, <1>2, <1>3, <1>4, <2>2, <2>5, <3>1 DEF CallerTypes
    <2>8. NothingAhead'
        <3>1. \A e \in Event : e.session <= session => e.session <= session + 1
            BY <1>2 DEF Event
        <3>2. \A k \in DOMAIN events' : events'[k].session <= session + 1
            BY <1>3, <3>1, SeqFacts
        <3>3. /\ \A k \in DOMAIN held : held[k].session <= session + 1
              /\ \A k \in DOMAIN contexts : contexts[k].born <= session + 1
              /\ context.born <= session + 1
            BY <2>3, NextSession DEF CallerInvariant
        <3>4. \A k \in DOMAIN contexts' : contexts'[k].born <= session + 1
            BY <2>5, <2>6, <3>3
        <3> QED
            BY <1>1, <1>9, <3>2, <3>3, <3>4 DEF CallerInvariant, NothingAhead
    <2>9. NotAsked'
        <3>1. \A c \in Commands \ asked' :
                  /\ ~Has(Tail(cmds), {c}) /\ c # Head(cmds) /\ posted[c] = 0 /\ c \notin cancelled
                  /\ \A k \in DOMAIN contexts : contexts[k].cmd # c
            BY <1>1, <1>7, <2>1 DEF CallerInvariant, NotAsked
        <3> QED
            BY <1>1, <2>2, <2>3, <2>5, <2>6, <3>1 DEF NotAsked
    <2>10. LoneContexts'
        <3> SUFFICES ASSUME NEW c \in Commands \ recalled', NEW k \in DOMAIN contexts',
                            contexts'[k].cmd = c, ~Pending(contexts'[k].born, events', held')
                     PROVE  /\ posted'[c] = 0 /\ c \notin cancelled'
                            /\ \A j \in DOMAIN contexts' :
                                   contexts'[j].cmd = c /\ ~Pending(contexts'[j].born, events', held')
                                       => j = k
            BY DEF LoneContexts
        <3>1. \A j \in DOMAIN contexts' :
                  ~Pending(contexts'[j].born, events', held') => j = Len(contexts) + 1
            BY <1>3, <2>5, <2>6
        <3>2. c = Head(cmds)
            BY <2>3, <2>5, <3>1
        <3>3. posted'[c] = 0 /\ c \notin cancelled
            BY <1>6, <2>1, <2>2, <3>2
        <3> QED
            BY <1>1, <3>1, <3>3
    <2>11. PostsOnce
        <3> SUFFICES ASSUME NEW c \in Commands \ recalled', posted'[c] # posted[c]
                     PROVE  posted'[c] = 1 /\ c \notin cancelled
            BY DEF PostsOnce
        <3>1. Has(Tail(cmds), {c}) /\ Has(cmds, {c})
            BY <2>1, <2>2
        <3>2. posted[c] = 0 /\ c \notin cancelled /\ Once(Tail(cmds), {c})
            BY <1>6, <2>1, <3>1
        <3> QED
            BY <2>2, <3>1, <3>2
    <2> QED
        BY <2>7, <2>8, <2>9, <2>10, <2>11 DEF CallerInvariant
<1> QED
    BY <1>1, <1>8, <1>9 DEF RunCommands, StartSession, sessionVars

LEMMA HandlersCaller ==
    ASSUME CallerInvariant,
           HandleConnected \/ HandleError \/ HandleAuth \/ HandlePong \/ HandleInfo
    PROVE  CallerInvariant' /\ PostsOnce
<1>1. \E type : type # "delete" /\ Handle(type)
    BY DEF HandleConnected, HandleError, HandleAuth, HandlePong, HandleInfo
<1>2. events # <<>> /\ Head(events).type # "delete" /\ UNCHANGED <<asked, held>>
    BY <1>1 DEF Handle
<1>3. (\E h \in Handshakes : Continue(h)) \/ DisconnectOnError \/ EmitAuthOk
    BY Names DEF HandleConnected, HandleError, HandleAuth, HandlePong, HandleInfo
<1>4. posted' = posted => PostsOnce
    BY DEF PostsOnce
<1> QED
    BY <1>2, <1>3, <1>4, ContinueCaller, ErrorCaller, AuthOkCaller

LEMMA CallerStep == CallerInvariant /\ [Next]_vars => CallerInvariant' /\ [PostsOnce]_vars
<1> SUFFICES ASSUME CallerInvariant, [Next]_vars PROVE CallerInvariant' /\ [PostsOnce]_vars
    OBVIOUS
<1>1. posted' = posted => PostsOnce
    BY DEF PostsOnce
<1>2. CASE UserNext
    BY <1>1, <1>2, RunCaller, ConnectCaller, ConnectAndWaitCaller, DisconnectCaller DEF UserNext
<1>3. CASE ConnectReturns \/ ConnectTimesOut
    BY <1>1, <1>3, LeaveLoopCaller DEF ConnectReturns, ConnectTimesOut
<1>4. CASE HandlerNext
    BY <1>1, <1>4, HandlersCaller, DeleteCaller DEF HandlerNext
<1>5. CASE TransporterNext
    BY <1>1, <1>5, TransporterCaller
<1>6. CASE UNCHANGED vars
    <2>1. /\ UNCHANGED <<asked, held, waiter, session, events, contexts, authed>>
          /\ UNCHANGED <<posted, cancelled, recalled>>
        BY <1>6 DEF vars, callerVars, sessionVars, historyVars
    <2>2. CallerTypes' /\ NothingAhead' /\ NotAsked' /\ LoneContexts'
        BY <2>1 DEF CallerInvariant, CallerTypes, NothingAhead, NotAsked, LoneContexts
    <2> QED
        BY <1>6, <2>2 DEF CallerInvariant
<1> QED
    BY <1>2, <1>3, <1>4, <1>5, <1>6 DEF Next

\* In every interleaving of sessions, overlapping ones included: of a command of which
\* no context was called again, at most one context has not had its deletion posted,
\* and as long as there is one the command is neither posted nor cancelled.
THEOREM CallerIsInvariant == Spec => []CallerInvariant
<1> QED
    BY InitCaller, CallerStep, PTL DEF Spec

\* A command that had to connect first is run once, and not at all when its future
\* was cancelled, unless a context of it was called a second time while its posted
\* deletion waited to be delivered.
THEOREM CommandsRunOnce == Spec => RunsOnce
<1>1. Spec => [][PostsOnce]_vars
    BY CallerIsInvariant, CallerStep, PTL DEF Spec
<1>2. RunsOnce <=> [][PostsOnce]_vars
    BY PTL DEF RunsOnce, PostsOnce
<1> QED
    BY <1>1, <1>2

-----------------------------------------------------------------------------
(* As long as no two handshakes overlap. *)

Call == Handshakes \union Commands \union {"authOk"}

TransporterTypes ==
    /\ calls \in Seq(Call) /\ internal \in Seq(Handshakes) /\ waiting \in Seq(Commands)
    /\ running \in Seq(Handshakes \union Commands)
    /\ up \in BOOLEAN /\ initialized \in BOOLEAN

\* A handshake that goes on finds its session, so that it needs no context.
UserContexts == \A k \in DOMAIN contexts : contexts[k].cmd \in Commands

\* Without a session there is no transporter.
SessionIsUp ==
    /\ up <=> link # "none"
    /\ ~up => calls = <<>> /\ internal = <<>> /\ waiting = <<>> /\ running = <<>> /\ ~initialized

WaiterTells == waiter = "true" => ready

RunsInitialized == Has(running, Commands) => initialized

\* The events in which a handshake of session n goes on, and those that say that
\* the server has accepted it.
Steps(n) == {e \in Event : e.session = n /\ e.type \in Handshakes \union {"connected"}}
Accepting(n) == {e \in Event : e.session = n /\ (e.type = "info" \/ (e.type = "ping" /\ e.ok))}

\* A transporter that connects does so for the first time, and nothing was asked,
\* or a second handshake will overlap with what is there of the first one.
Unasked == ~Has(events, Steps(session)) /\ ~Has(calls, Handshakes \union {"authOk"})
FirstConnect ==
    link = "connecting" => initialized \/ running # <<>> \/ internal # <<>> \/ Unasked

\* Whatever follows from the acceptance of the server is a sign of it.
Accepted ==
    \/ initialized \/ Has(calls, {"info", "authOk"})
    \/ Has(internal, {"info"}) \/ Has(running, {"info"}) \/ Has(events, Accepting(session))
AcceptedIsAuthed == link = "connected" /\ Accepted => authed

\* A handshake is one thing at a time: an event, a call, a command that waits or runs.
OneOf(evs, n, cls, int, run) ==
    /\ Once(evs, Steps(n)) /\ Once(cls, Handshakes) /\ Once(int, Handshakes) /\ Once(run, Handshakes)
    /\ Has(evs, Steps(n)) => ~Has(cls, Handshakes) /\ ~Has(int, Handshakes) /\ ~Has(run, Handshakes)
    /\ Has(cls, Handshakes) => ~Has(int, Handshakes) /\ ~Has(run, Handshakes)
    /\ Has(int, Handshakes) => ~Has(run, Handshakes)
OneHandshake == OneOf(events, session, calls, internal, running)

Alone ==
    /\ TransporterTypes /\ UserContexts /\ SessionIsUp /\ WaiterTells /\ RunsInitialized
    /\ FirstConnect /\ AcceptedIsAuthed /\ OneHandshake

LifecycleInvariant == CallerInvariant /\ overlap \in BOOLEAN /\ (~overlap => Alone)

LEMMA InitLifecycle == Init => LifecycleInvariant
<1> SUFFICES ASSUME Init PROVE LifecycleInvariant
    OBVIOUS
<1>1. \A H : ~Has(<<>>, H) /\ Once(<<>>, H)
    BY HasInFew
<1>2. TransporterTypes
    <2>1. \A S : <<>> \in Seq(S)
        OBVIOUS
    <2> QED
        BY <2>1 DEF Init, TransporterTypes
<1>3. UserContexts
    <2>1. DOMAIN <<>> = {}
        OBVIOUS
    <2> QED
        BY <2>1 DEF Init, UserContexts
<1>4. SessionIsUp /\ WaiterTells /\ FirstConnect /\ AcceptedIsAuthed
    BY DEF Init, SessionIsUp, WaiterTells, FirstConnect, AcceptedIsAuthed
<1>5. RunsInitialized /\ OneHandshake
    BY <1>1 DEF Init, RunsInitialized, OneHandshake, OneOf
<1> QED
    BY <1>2, <1>3, <1>4, <1>5, InitCaller DEF Init, LifecycleInvariant, Alone

LEMMA EventTypes ==
    /\ \A n \in Nat : /\ [type |-> "connected", session |-> n] \in Steps(n)
                      /\ [type |-> "connected", session |-> n] \notin Accepting(n)
                      /\ [type |-> "error", session |-> n] \in Event
                      /\ [type |-> "error", session |-> n] \notin Steps(n)
                      /\ [type |-> "error", session |-> n] \notin Accepting(n)
                      /\ [type |-> "connected", session |-> n] \in Event
    /\ \A e, n : e.type = "delete" => e \notin Steps(n) /\ e \notin Accepting(n)
    /\ \A n : Accepting(n) \subseteq Steps(n)
    /\ \A n \in Nat, h \in Handshakes, o \in BOOLEAN :
           LET e == [type |-> h, session |-> n, ok |-> o]
           IN  /\ e \in Event /\ e \in Steps(n) /\ e.session = n
               /\ e \in Accepting(n) <=> h = "info" \/ (h = "ping" /\ o)
<1>1. \A n \in Nat : /\ [type |-> "connected", session |-> n] \in Event
                     /\ [type |-> "error", session |-> n] \in Event
    BY DEF Event
<1>2. \A n \in Nat : /\ [type |-> "connected", session |-> n] \in Steps(n)
                     /\ [type |-> "connected", session |-> n] \notin Accepting(n)
                     /\ [type |-> "error", session |-> n] \notin Steps(n)
                     /\ [type |-> "error", session |-> n] \notin Accepting(n)
    BY <1>1 DEF Steps, Accepting, Handshakes
<1>3. \A e, n : e.type = "delete" => e \notin Steps(n) /\ e \notin Accepting(n)
    BY DEF Steps, Accepting, Handshakes
<1>4. \A n : Accepting(n) \subseteq Steps(n)
    BY DEF Steps, Accepting, Handshakes
<1>5. ASSUME NEW n \in Nat, NEW h \in Handshakes, NEW o \in BOOLEAN
      PROVE  LET e == [type |-> h, session |-> n, ok |-> o]
             IN  /\ e \in Event /\ e \in Steps(n) /\ e.session = n
                 /\ e \in Accepting(n) <=> h = "info" \/ (h = "ping" /\ o)
    <2> DEFINE e == [type |-> h, session |-> n, ok |-> o]
    <2>1. e \in Event /\ e.type = h /\ e.session = n /\ e.ok = o
        BY DEF Event
    <2> HIDE DEF e
    <2>2. /\ e \in Event /\ e \in Steps(n) /\ e.session = n
          /\ e \in Accepting(n) <=> h = "info" \/ (h = "ping" /\ o)
        BY <2>1 DEF Steps, Accepting
    <2> QED
        BY <2>2 DEF e
<1> QED
    BY <1>1, <1>2, <1>3, <1>4, <1>5

LEMMA HasMore == ASSUME NEW s, NEW H, NEW G, H \subseteq G, Has(s, H) PROVE Has(s, G)
BY DEF Has

-----------------------------------------------------------------------------
(* The transporter and the server, as long as no handshakes overlap. *)

LEMMA StepKeeps ==
    ASSUME Alone, TransporterStep
    PROVE  /\ UNCHANGED <<up, session>>
           /\ UserContexts' /\ WaiterTells'
BY DEF TransporterStep, callerVars, sessionVars, Alone, UserContexts, WaiterTells

LEMMA LinkUpAlone ==
    ASSUME CallerTypes, Alone, LinkUp, ~overlap'
    PROVE  Alone'
<1> DEFINE e == [type |-> "connected", session |-> session]
<1>1. /\ TransporterStep /\ link = "connecting" /\ link' = "connected" /\ authed' = ~UseAuth
      /\ ~initialized /\ running \o internal = <<>> /\ events' = Append(events, e)
      /\ UNCHANGED <<calls, initialized, internal, waiting, running>>
    BY DEF LinkUp, Emit, queueVars
<1>2. /\ events \in Seq(Event) /\ session \in Nat /\ internal \in Seq(Handshakes)
      /\ running \in Seq(Handshakes \union Commands)
    BY DEF CallerTypes, Alone, TransporterTypes
<1>3. e \in Event /\ e \in Steps(session) /\ e \notin Accepting(session)
    BY <1>2, EventTypes
<1> HIDE DEF e
<1>4. UNCHANGED <<up, session>> /\ UserContexts' /\ WaiterTells'
    BY <1>1, StepKeeps
<1>5. running = <<>> /\ internal = <<>>
    <2>1. internal \in Seq(Handshakes \union Commands)
        <3>1. Handshakes \subseteq Handshakes \union Commands
            OBVIOUS
        <3> QED
            BY <1>2, <3>1, SeqGrows
    <2>2. Len(running) + Len(internal) = 0 /\ Len(running) \in Nat /\ Len(internal) \in Nat
        BY <1>1, <1>2, <2>1, ConcatFacts, SeqFacts, EmptySeq
    <2>3. Len(running) = 0 /\ Len(internal) = 0
        BY <2>2
    <2> QED
        BY <1>2, <2>3, EmptySeq
<1>6. Unasked
    BY <1>1, <1>5 DEF Alone, FirstConnect
<1>7. /\ ~Has(events, Steps(session)) /\ ~Has(events, Accepting(session))
      /\ ~Has(calls, Handshakes) /\ ~Has(calls, {"info", "authOk"})
    <2>1. Accepting(session) \subseteq Steps(session) /\ Handshakes \subseteq Handshakes \union {"authOk"}
        BY EventTypes
    <2>2. {"info", "authOk"} \subseteq Handshakes \union {"authOk"}
        BY DEF Handshakes
    <2> QED
        BY <1>6, <2>1, <2>2, HasMore DEF Unasked
<1>8. Once(events', Steps(session)) /\ ~Has(events', Accepting(session))
    <2>1. Once(events, Steps(session))
        BY DEF Alone, OneHandshake, OneOf
    <2> QED
        BY <1>1, <1>2, <1>3, <1>7, <2>1, HasInAppend
<1>9. \A H : ~Has(<<>>, H) /\ Once(<<>>, H)
    BY HasInFew
<1>10. Once(calls, Handshakes)
    BY DEF Alone, OneHandshake, OneOf
<1>11. OneHandshake'
    BY <1>1, <1>4, <1>5, <1>7, <1>8, <1>9, <1>10 DEF OneHandshake, OneOf
<1>12. AcceptedIsAuthed' /\ FirstConnect' /\ RunsInitialized'
    BY <1>1, <1>4, <1>5, <1>7, <1>8, <1>9 DEF AcceptedIsAuthed, Accepted, FirstConnect, RunsInitialized
<1>13. SessionIsUp' /\ TransporterTypes'
    BY <1>1, <1>4 DEF Alone, SessionIsUp, TransporterTypes
<1> QED
    BY <1>4, <1>11, <1>12, <1>13 DEF Alone

LEMMA LinkFailsAlone ==
    ASSUME CallerTypes, Alone, LinkFails
    PROVE  Alone'
<1> DEFINE e == [type |-> "error", session |-> session]
<1>1. /\ TransporterStep /\ link # "none" /\ link' = "lost" /\ authed' = FALSE /\ running' = <<>>
      /\ events' = Append(events, e)
      /\ UNCHANGED <<calls, initialized, internal, waiting>>
    BY DEF LinkFails, Emit
<1>2. events \in Seq(Event) /\ session \in Nat
    BY DEF CallerTypes
<1>3. e \in Event /\ e \notin Steps(session)
    BY <1>2, EventTypes
<1> HIDE DEF e
<1>4. UNCHANGED <<up, session>> /\ UserContexts' /\ WaiterTells'
    BY <1>1, StepKeeps
<1>5. \A H : ~Has(<<>>, H) /\ Once(<<>>, H)
    BY HasInFew
<1>6. OneHandshake'
    <2>1. /\ Has(events', Steps(session)) => Has(events, Steps(session))
          /\ Once(events, Steps(session)) => Once(events', Steps(session))
        BY <1>1, <1>2, <1>3, HasInAppend
    <2> QED
        BY <1>1, <1>4, <1>5, <2>1 DEF Alone, OneHandshake, OneOf
<1>7. AcceptedIsAuthed' /\ FirstConnect' /\ RunsInitialized'
    BY <1>1, <1>5 DEF AcceptedIsAuthed, FirstConnect, RunsInitialized
<1>8. SessionIsUp'
    BY <1>1, <1>4 DEF Alone, SessionIsUp
<1>9. TransporterTypes'
    <2>1. running' \in Seq(Handshakes \union Commands)
        BY <1>1
    <2> QED
        BY <1>1, <1>4, <2>1 DEF Alone, TransporterTypes
<1> QED
    BY <1>4, <1>6, <1>7, <1>8, <1>9 DEF Alone

LEMMA ReconnectAlone ==
    ASSUME Alone, Reconnect
    PROVE  Alone'
<1>1. /\ TransporterStep /\ link = "lost" /\ link' = "connecting" /\ NextToRun # <<>>
      /\ UNCHANGED <<events, calls, initialized, internal, waiting, running, authed>>
    BY DEF Reconnect, queueVars
<1>2. UNCHANGED <<up, session>> /\ UserContexts' /\ WaiterTells'
    BY <1>1, StepKeeps
<1>3. internal # <<>> \/ initialized
    BY <1>1 DEF NextToRun, MayRunUser
<1>4. FirstConnect' /\ AcceptedIsAuthed' /\ RunsInitialized' /\ SessionIsUp'
    BY <1>1, <1>2, <1>3 DEF Alone, FirstConnect, AcceptedIsAuthed, RunsInitialized, SessionIsUp
<1>5. OneHandshake' /\ TransporterTypes'
    BY <1>1, <1>2 DEF Alone, OneHandshake, TransporterTypes
<1> QED
    BY <1>2, <1>4, <1>5 DEF Alone

LEMMA TakeCallAlone ==
    ASSUME Alone, TakeCall
    PROVE  Alone'
<1> DEFINE call == Head(calls)
<1>1. /\ TransporterStep /\ up /\ calls # <<>> /\ calls' = Tail(calls)
      /\ initialized' = (initialized \/ call = "authOk")
      /\ internal' = IF IsHandshake(call) THEN Append(internal, call) ELSE internal
      /\ waiting' = IF IsUser(call) THEN Append(waiting, call) ELSE waiting
      /\ UNCHANGED <<events, link, running, authed>>
    BY DEF TakeCall
<1>2. /\ calls \in Seq(Call) /\ internal \in Seq(Handshakes) /\ waiting \in Seq(Commands)
      /\ initialized \in BOOLEAN
    BY DEF Alone, TransporterTypes
<1>3. /\ calls' \in Seq(Call) /\ call \in Call
      /\ \A H : /\ Has(calls', H) => Has(calls, H)
                /\ call \in H => Has(calls, H)
                /\ Once(calls, H) => Once(calls', H)
                /\ Once(calls, H) /\ call \in H => ~Has(calls', H)
    BY <1>1, <1>2, HasInTail
<1> HIDE DEF call
<1>4. UNCHANGED <<up, session>> /\ UserContexts' /\ WaiterTells'
    BY <1>1, StepKeeps
<1>5. /\ internal' \in Seq(Handshakes)
      /\ \A H : Has(internal', H) => Has(internal, H) \/ (call \in Handshakes /\ call \in H)
      /\ Once(internal, Handshakes) /\ ~(Has(internal, Handshakes) /\ call \in Handshakes)
             => Once(internal', Handshakes)
      /\ internal # <<>> => internal' # <<>>
    <2>1. CASE call \in Handshakes
        <3>1. /\ Append(internal, call) \in Seq(Handshakes)
              /\ \A H : Has(Append(internal, call), H) <=> Has(internal, H) \/ call \in H
              /\ Once(internal, Handshakes) /\ ~(Has(internal, Handshakes) /\ call \in Handshakes)
                     => Once(Append(internal, call), Handshakes)
            BY <1>2, <2>1, HasInAppend
        <3>2. Append(internal, call) # <<>>
            BY <1>2, <2>1
        <3>3. internal' = Append(internal, call)
            BY <1>1, <2>1 DEF IsHandshake
        <3> QED
            BY <2>1, <3>1, <3>2, <3>3
    <2>2. CASE call \notin Handshakes
        BY <1>1, <1>2, <2>2 DEF IsHandshake
    <2> QED
        BY <2>1, <2>2
<1>6. waiting' \in Seq(Commands)
    BY <1>1, <1>2 DEF IsUser
<1>7. OneHandshake'
    BY <1>1, <1>3, <1>4, <1>5 DEF Alone, OneHandshake, OneOf
<1>8. Accepted' => Accepted
    <2>1. ASSUME Has(internal', {"info"}) PROVE Has(internal, {"info"}) \/ Has(calls, {"info", "authOk"})
        BY <1>3, <1>5, <2>1
    <2>2. ASSUME initialized' PROVE initialized \/ Has(calls, {"info", "authOk"})
        BY <1>1, <1>3, <2>2
    <2> QED
        BY <1>1, <1>3, <1>4, <2>1, <2>2 DEF Accepted
<1>9. AcceptedIsAuthed'
    BY <1>1, <1>8 DEF Alone, AcceptedIsAuthed
<1>10. FirstConnect'
    <2>1. Unasked => Unasked'
        BY <1>1, <1>3, <1>4 DEF Unasked
    <2>2. initialized => initialized'
        BY <1>1
    <2> QED
        BY <1>1, <1>5, <2>1, <2>2 DEF Alone, FirstConnect
<1>11. RunsInitialized' /\ SessionIsUp'
    BY <1>1, <1>4 DEF Alone, RunsInitialized, SessionIsUp
<1>12. TransporterTypes'
    BY <1>1, <1>2, <1>3, <1>4, <1>5, <1>6 DEF Alone, TransporterTypes
<1> QED
    BY <1>4, <1>7, <1>9, <1>10, <1>11, <1>12 DEF Alone

LEMMA SendAlone ==
    ASSUME Alone, Send
    PROVE  Alone'
<1>1. /\ TransporterStep /\ link = "connected" /\ NextToRun # <<>> /\ running' = running \o NextToRun
      /\ IF internal # <<>> THEN internal' = Tail(internal) /\ waiting' = waiting
         ELSE waiting' = Tail(waiting) /\ internal' = internal
      /\ UNCHANGED <<events, link, calls, initialized, authed>>
    BY DEF Send
<1>2. /\ internal \in Seq(Handshakes) /\ waiting \in Seq(Commands)
      /\ running \in Seq(Handshakes \union Commands)
    BY DEF Alone, TransporterTypes
<1>3. UNCHANGED <<up, session>> /\ UserContexts' /\ WaiterTells'
    BY <1>1, StepKeeps
<1>4. ASSUME NEW c \in Handshakes \union Commands
      PROVE  /\ running \o <<c>> \in Seq(Handshakes \union Commands)
             /\ \A H : Has(running \o <<c>>, H) <=> Has(running, H) \/ c \in H
             /\ \A H : Once(running, H) /\ ~(Has(running, H) /\ c \in H) => Once(running \o <<c>>, H)
    <2>1. <<c>> \in Seq(Handshakes \union Commands)
        OBVIOUS
    <2>2. \A H : (Has(<<c>>, H) <=> c \in H) /\ Once(<<c>>, H)
        BY HasInFew
    <2> QED
        BY <1>2, <2>1, <2>2, HasInConcat
<1>5. SessionIsUp' /\ FirstConnect'
    BY <1>1, <1>3 DEF Alone, SessionIsUp, FirstConnect
<1>6. CASE internal # <<>>
    <2> DEFINE c == Head(internal)
    <2>1. running' = running \o <<c>> /\ internal' = Tail(internal) /\ waiting' = waiting
        BY <1>1, <1>6 DEF NextToRun
    <2>2. /\ internal' \in Seq(Handshakes) /\ c \in Handshakes
          /\ \A H : /\ Has(internal', H) => Has(internal, H)
                    /\ c \in H => Has(internal, H)
                    /\ Once(internal, H) => Once(internal', H)
                    /\ Once(internal, H) /\ c \in H => ~Has(internal', H)
        BY <1>2, <1>6, <2>1, HasInTail
    <2>3. c \notin Commands
        BY <2>2, Names
    <2> HIDE DEF c
    <2>4. /\ running' \in Seq(Handshakes \union Commands)
          /\ \A H : Has(running', H) <=> Has(running, H) \/ c \in H
          /\ \A H : Once(running, H) /\ ~(Has(running, H) /\ c \in H) => Once(running', H)
        BY <1>4, <2>1, <2>2
    <2>5. OneHandshake'
        BY <1>1, <1>3, <2>2, <2>4 DEF Alone, OneHandshake, OneOf
    <2>6. Accepted' => Accepted
        BY <1>1, <1>3, <2>2, <2>4 DEF Accepted
    <2>7. AcceptedIsAuthed' /\ RunsInitialized'
        BY <1>1, <2>3, <2>4, <2>6 DEF Alone, AcceptedIsAuthed, RunsInitialized
    <2>8. TransporterTypes'
        BY <1>1, <1>3, <2>1, <2>2, <2>4 DEF Alone, TransporterTypes
    <2> QED
        BY <1>3, <1>5, <2>5, <2>7, <2>8 DEF Alone
<1>7. CASE internal = <<>>
    <2> DEFINE c == Head(waiting)
    <2>1. /\ running' = running \o <<c>> /\ waiting # <<>> /\ waiting' = Tail(waiting)
          /\ internal' = internal /\ initialized
        BY <1>1, <1>7 DEF NextToRun, MayRunUser
    <2>2. waiting' \in Seq(Commands) /\ c \in Commands
        BY <1>2, <2>1, HasInTail
    <2>3. c \notin Handshakes /\ c # "info"
        BY <2>2, Names
    <2> HIDE DEF c
    <2>4. /\ running' \in Seq(Handshakes \union Commands)
          /\ \A H : Has(running', H) <=> Has(running, H) \/ c \in H
          /\ \A H : Once(running, H) /\ ~(Has(running, H) /\ c \in H) => Once(running', H)
        BY <1>4, <2>1, <2>2
    <2>5. OneHandshake'
        BY <1>1, <1>3, <2>1, <2>3, <2>4 DEF Alone, OneHandshake, OneOf
    <2>6. AcceptedIsAuthed' /\ RunsInitialized'
        BY <1>1, <2>1 DEF Alone, AcceptedIsAuthed, Accepted, RunsInitialized
    <2>7. TransporterTypes'
        BY <1>1, <1>3, <2>1, <2>2, <2>4 DEF Alone, TransporterTypes
    <2> QED
        BY <1>3, <1>5, <2>5, <2>6, <2>7 DEF Alone
<1> QED
    BY <1>6, <1>7

\* The reply to a command of the handshake says whether the server has accepted it,
\* an unknown reply to AUTH nothing.
LEMMA AnswersAlone ==
    ASSUME CallerTypes, Alone, AnswerUser \/ AnswerHandshake \/ RefuseHandshake \/ RefuseAuth
    PROVE  Alone'
<1> DEFINE c == Head(running)
           e(ok) == [type |-> c, session |-> session, ok |-> ok]
<1>1. /\ TransporterStep /\ link = "connected" /\ running # <<>> /\ running' = Tail(running)
      /\ UNCHANGED <<link, calls, initialized, internal, waiting>>
    BY DEF AnswerUser, AnswerHandshake, RefuseHandshake, RefuseAuth, Answered
<1>2. \/ events' = events /\ authed' = authed
      \/ /\ c \in Handshakes /\ authed' = (authed \/ c = "auth") /\ events' = Append(events, e(authed'))
      \/ /\ c = FirstHandshake /\ authed' = authed /\ events' = Append(events, e(FALSE))
      \/ /\ c = "auth" /\ authed' \in {authed, TRUE} /\ events' = Append(events, e(TRUE))
    BY DEF AnswerUser, AnswerHandshake, RefuseHandshake, RefuseAuth, ReplyTo, IsHandshake
<1>3. /\ running \in Seq(Handshakes \union Commands) /\ session \in Nat /\ authed \in BOOLEAN
      /\ events \in Seq(Event)
    BY DEF CallerTypes, Alone, TransporterTypes
<1>4. /\ running' \in Seq(Handshakes \union Commands)
      /\ \A H : /\ Has(running', H) => Has(running, H)
                /\ c \in H => Has(running, H)
                /\ Once(running, H) => Once(running', H)
                /\ Once(running, H) /\ c \in H => ~Has(running', H)
    BY <1>1, <1>3, HasInTail
<1>5. authed' \in BOOLEAN /\ (authed => authed')
    BY <1>2, <1>3
<1>6. \/ events' = events
      \/ /\ c \in Handshakes
         /\ \E o \in BOOLEAN :
                /\ events' = Append(events, e(o))
                /\ c = "info" \/ (c = "ping" /\ o) => c = "info" \/ authed'
    BY <1>2, <1>5, Names DEF Handshakes
<1>7. \/ events' = events
      \/ c \in Handshakes /\ \E f \in Event : /\ events' = Append(events, f)
                                              /\ f \in Steps(session)
                                              /\ (f \in Accepting(session) => c = "info" \/ authed')
    <2>1. ASSUME NEW o \in BOOLEAN, c \in Handshakes, events' = Append(events, e(o)),
                 c = "info" \/ (c = "ping" /\ o) => c = "info" \/ authed'
          PROVE  \E f \in Event : /\ events' = Append(events, f)
                                  /\ f \in Steps(session)
                                  /\ (f \in Accepting(session) => c = "info" \/ authed')
        <3>1. /\ e(o) \in Event /\ e(o) \in Steps(session)
              /\ e(o) \in Accepting(session) <=> c = "info" \/ (c = "ping" /\ o)
            BY <1>3, <2>1, EventTypes
        <3> HIDE DEF e
        <3> QED
            BY <2>1, <3>1
    <2> QED
        BY <1>6, <2>1
<1> HIDE DEF c, e
<1>8. UNCHANGED <<up, session>> /\ UserContexts' /\ WaiterTells'
    BY <1>1, StepKeeps
<1>9. SessionIsUp' /\ FirstConnect' /\ RunsInitialized'
    BY <1>1, <1>4, <1>8 DEF Alone, SessionIsUp, FirstConnect, RunsInitialized
<1>10. TransporterTypes'
    BY <1>1, <1>4, <1>8 DEF Alone, TransporterTypes
<1>11. CASE events' = events
    <2>1. OneHandshake'
        BY <1>1, <1>4, <1>8, <1>11 DEF Alone, OneHandshake, OneOf
    <2>2. AcceptedIsAuthed'
        BY <1>1, <1>4, <1>5, <1>8, <1>11 DEF Alone, AcceptedIsAuthed, Accepted
    <2> QED
        BY <1>8, <1>9, <1>10, <2>1, <2>2 DEF Alone
<1>12. ASSUME c \in Handshakes,
              NEW f \in Event, events' = Append(events, f), f \in Steps(session),
              f \in Accepting(session) => c = "info" \/ authed'
       PROVE  Alone'
    <2>1. /\ \A H : Has(events', H) <=> Has(events, H) \/ f \in H
          /\ \A H : Once(events, H) /\ ~(Has(events, H) /\ f \in H) => Once(events', H)
        BY <1>3, <1>12, HasInAppend
    <2>2. Has(running, Handshakes) /\ ~Has(running', Handshakes) /\ ~Has(events, Steps(session))
        BY <1>4, <1>12 DEF Alone, OneHandshake, OneOf
    <2>3. OneHandshake'
        BY <1>1, <1>4, <1>8, <1>12, <2>1, <2>2 DEF Alone, OneHandshake, OneOf
    <2>4. Accepted' => Accepted \/ authed'
        <3>1. c = "info" => Has(running, {"info"})
            BY <1>4
        <3> QED
            BY <1>1, <1>4, <1>8, <1>12, <2>1, <3>1 DEF Accepted
    <2>5. AcceptedIsAuthed'
        BY <1>1, <1>5, <2>4 DEF Alone, AcceptedIsAuthed
    <2> QED
        BY <1>8, <1>9, <1>10, <2>3, <2>5 DEF Alone
<1> QED
    BY <1>7, <1>11, <1>12

-----------------------------------------------------------------------------
(* A session begins or ends, as long as no handshakes overlap. *)

\* A new session finds nothing of a handshake of its own, anywhere.
LEMMA StartAlone ==
    ASSUME CallerTypes, CallerTypes', Alone, StartSession(<<>>),
           \A k \in DOMAIN events' : events'[k].session <= session,
           WaiterTells', UserContexts'
    PROVE  Alone'
<1>1. /\ ~up /\ up' = TRUE /\ session' = session + 1 /\ link' = "connecting" /\ calls' = <<>>
      /\ UNCHANGED <<initialized, internal, waiting, running, authed>>
    BY DEF StartSession, queueVars
<1>2. /\ session \in Nat /\ events' \in Seq(Event)
      /\ internal = <<>> /\ waiting = <<>> /\ running = <<>> /\ ~initialized
    BY <1>1 DEF CallerTypes, Alone, SessionIsUp
<1>3. ~Has(events', Steps(session'))
    <2>1. \A f \in Event : f.session \in Nat
        BY DEF Event
    <2>2. \A k \in DOMAIN events' : events'[k].session \in Nat
        BY <1>2, <2>1, SeqFacts
    <2>3. \A k \in DOMAIN events' : events'[k].session # session'
        BY <1>1, <1>2, <2>2
    <2> QED
        BY <2>3 DEF Has, Steps
<1>4. \A H : ~Has(<<>>, H) /\ Once(<<>>, H)
    BY HasInFew
<1>5. Once(events', Steps(session'))
    BY <1>3 DEF Once, Has
<1>6. OneHandshake'
    BY <1>1, <1>2, <1>4, <1>5 DEF OneHandshake, OneOf
<1>7. SessionIsUp' /\ AcceptedIsAuthed'
    BY <1>1 DEF SessionIsUp, AcceptedIsAuthed
<1>8. RunsInitialized' /\ FirstConnect'
    BY <1>1, <1>2, <1>3, <1>4 DEF RunsInitialized, FirstConnect, Unasked
<1>9. TransporterTypes'
    BY <1>1, <1>2 DEF Alone, TransporterTypes
<1> QED
    BY <1>6, <1>7, <1>8, <1>9 DEF Alone

LEMMA ConnectAlone ==
    ASSUME CallerInvariant, CallerInvariant', Alone, Connect \/ ConnectAndWait
    PROVE  Alone'
<1>1. /\ StartSession(<<>>) /\ UNCHANGED <<contexts, ready>>
      /\ \/ UNCHANGED <<waiter, events>>
         \/ waiter' = "waiting" /\ events' = Subsequence(events, DOMAIN events \ DeletesAt)
    BY DEF Connect, ConnectAndWait, callerVars, historyVars
<1>2. \A k \in DOMAIN events' : events'[k].session <= session
    <2>1. events \in Seq(Event) /\ (DOMAIN events \ DeletesAt) \in SUBSET DOMAIN events
        BY DEF CallerInvariant, CallerTypes
    <2>2. \A k \in DOMAIN events : events[k].session <= session
        BY DEF CallerInvariant, NothingAhead
    <2>3. CASE events' = Subsequence(events, DOMAIN events \ DeletesAt)
        <3>1. \A k \in DOMAIN events' :
                  \E i \in DOMAIN events \ DeletesAt : events'[k] = events[i]
            BY <2>1, <2>3, SubsequenceElements, SeqFacts
        <3> QED
            BY <2>2, <3>1
    <2> QED
        BY <1>1, <2>2, <2>3
<1>3. WaiterTells' /\ UserContexts'
    BY <1>1 DEF Alone, WaiterTells, UserContexts
<1> QED
    BY <1>1, <1>2, <1>3, StartAlone DEF CallerInvariant

\* What one command adds to the calls.
LEMMA PostsFacts ==
    ASSUME NEW S, NEW s \in Seq(S), NEW c \in S
    PROVE  /\ s \o <<c>> \o <<>> \in Seq(S)
           /\ \A H : /\ Has(s \o <<c>> \o <<>>, H) <=> Has(s, H) \/ c \in H
                     /\ Once(s, H) /\ ~(Has(s, H) /\ c \in H) => Once(s \o <<c>> \o <<>>, H)
<1>1. <<c>> \in Seq(S) /\ <<>> \in Seq(S)
    OBVIOUS
<1>2. \A H : /\ ~Has(<<>>, H) /\ Once(<<>>, H)
             /\ Has(<<c>>, H) <=> c \in H
             /\ Once(<<c>>, H)
    BY HasInFew
<1>3. /\ s \o <<c>> \in Seq(S)
      /\ \A H : /\ Has(s \o <<c>>, H) <=> Has(s, H) \/ c \in H
                /\ Once(s, H) /\ ~(Has(s, H) /\ c \in H) => Once(s \o <<c>>, H)
    BY <1>1, <1>2, HasInConcat
<1>4. /\ s \o <<c>> \o <<>> \in Seq(S)
      /\ \A H : /\ Has(s \o <<c>> \o <<>>, H) <=> Has(s \o <<c>>, H)
                /\ Once(s \o <<c>>, H) => Once(s \o <<c>> \o <<>>, H)
    BY <1>1, <1>2, <1>3, HasInConcat
<1> QED
    BY <1>3, <1>4

\* runCommand: a session that is up takes it, another one begins with its context.
LEMMA RunAlone ==
    ASSUME CallerInvariant, CallerInvariant', Alone, NEW c \in Commands, Run(c)
    PROVE  Alone'
<1>1. RunCommands(<<c>>, <<>>) /\ UNCHANGED <<events, waiter, ready>>
    BY DEF Run
<1>2. /\ calls \in Seq(Call) /\ contexts \in Seq(Context) /\ session \in Nat
      /\ c \notin Handshakes /\ c # "authOk" /\ c # "info" /\ c \in Call
    BY Names DEF CallerInvariant, CallerTypes, Alone, TransporterTypes, Call
<1>3. WaiterTells'
    BY <1>1 DEF Alone, WaiterTells
<1>4. CASE up
    <2>1. /\ calls' = calls \o <<c>> \o <<>>
          /\ UNCHANGED <<up, session, contexts, link, initialized, internal, waiting, running, authed>>
        BY <1>1, <1>4 DEF RunCommands, sessionVars, queueVars
    <2>2. /\ calls' \in Seq(Call)
          /\ \A H : /\ Has(calls', H) <=> Has(calls, H) \/ c \in H
                    /\ Once(calls, H) /\ ~(Has(calls, H) /\ c \in H) => Once(calls', H)
        BY <1>2, <2>1, PostsFacts
    <2>3. OneHandshake'
        BY <1>1, <1>2, <2>1, <2>2 DEF Alone, OneHandshake, OneOf
    <2>4. FirstConnect' /\ AcceptedIsAuthed'
        <3>1. Unasked => Unasked'
            BY <1>1, <1>2, <2>1, <2>2 DEF Unasked
        <3>2. Accepted' => Accepted
            BY <1>1, <1>2, <2>1, <2>2 DEF Accepted
        <3> QED
            BY <2>1, <3>1, <3>2 DEF Alone, FirstConnect, AcceptedIsAuthed
    <2>5. TransporterTypes' /\ UserContexts' /\ RunsInitialized' /\ SessionIsUp'
        BY <1>4, <2>1, <2>2 DEF Alone, TransporterTypes, UserContexts, RunsInitialized, SessionIsUp
    <2> QED
        BY <1>3, <2>3, <2>4, <2>5 DEF Alone
<1>5. CASE ~up
    <2> DEFINE context == [born |-> session + 1, cmd |-> c]
    <2>1. contexts' = Append(contexts, context) /\ StartSession(<<>>)
        <3>1. <<c>> # <<>> /\ Head(<<c>>) = c /\ Tail(<<c>>) = <<>>
            OBVIOUS
        <3> QED
            BY <1>1, <1>5, <3>1 DEF RunCommands
    <2>2. context \in Context /\ context.cmd = c
        BY <1>2 DEF Context
    <2> HIDE DEF context
    <2>3. UserContexts'
        <3>1. /\ \A k \in DOMAIN contexts : contexts'[k] = contexts[k]
              /\ \A k \in DOMAIN contexts' : k \in DOMAIN contexts \/ contexts'[k] = context
            BY <1>2, <2>1, <2>2, AppendFacts
        <3> QED
            BY <2>2, <3>1 DEF Alone, UserContexts
    <2>4. \A k \in DOMAIN events' : events'[k].session <= session
        BY <1>1 DEF CallerInvariant, NothingAhead
    <2> QED
        BY <1>3, <2>1, <2>3, <2>4, StartAlone DEF CallerInvariant
<1> QED
    BY <1>4, <1>5

\* disconnect()
LEMMA EndAlone ==
    ASSUME Alone, EndSession, Once(events', Steps(session)), WaiterTells', UserContexts'
    PROVE  Alone'
<1>1. /\ up' = FALSE /\ link' = "none" /\ initialized' = FALSE /\ calls' = <<>> /\ internal' = <<>>
      /\ waiting' = <<>> /\ running' = <<>> /\ session' = session
    BY DEF EndSession
<1>2. \A H : ~Has(<<>>, H) /\ Once(<<>>, H)
    BY HasInFew
<1>3. SessionIsUp' /\ RunsInitialized' /\ FirstConnect' /\ AcceptedIsAuthed'
    BY <1>1, <1>2 DEF SessionIsUp, RunsInitialized, FirstConnect, AcceptedIsAuthed
<1>4. OneHandshake'
    BY <1>1, <1>2 DEF OneHandshake, OneOf
<1>5. TransporterTypes'
    <2>1. \A S : <<>> \in Seq(S)
        OBVIOUS
    <2> QED
        BY <1>1, <2>1 DEF TransporterTypes
<1> QED
    BY <1>3, <1>4, <1>5 DEF Alone

LEMMA DisconnectAlone ==
    ASSUME Alone, Disconnect
    PROVE  Alone'
<1>1. EndSession /\ AbortWaiter /\ UNCHANGED <<events, contexts>>
    BY DEF Disconnect
<1>2. Once(events', Steps(session))
    BY <1>1 DEF Alone, OneHandshake, OneOf
<1>3. WaiterTells' /\ UserContexts'
    BY <1>1 DEF Alone, WaiterTells, AbortWaiter, UserContexts
<1> QED
    BY <1>1, <1>2, <1>3, EndAlone

\* Back in the outer loop: what it still has to delete comes first.
LEMMA LeaveLoopAlone ==
    ASSUME CallerInvariant, Alone, LeaveLoop
    PROVE  Alone'
<1>1. /\ waiter' = "none" /\ events' = held \o events
      /\ UNCHANGED <<up, session, contexts, link, calls, initialized, internal, waiting,
                     running, authed, ready>>
    BY DEF LeaveLoop, sessionVars, queueVars
<1>2. events \in Seq(Event) /\ held \in Seq(Event)
    BY DEF CallerInvariant, CallerTypes
<1>3. /\ ~Has(held, Steps(session)) /\ ~Has(held, Accepting(session))
      /\ Once(held, Steps(session))
    <2>1. \A k \in DOMAIN held : held[k].type = "delete"
        BY DEF CallerInvariant, NothingAhead
    <2> QED
        BY <2>1, EventTypes DEF Has, Once
<1>4. /\ Has(events', Steps(session)) => Has(events, Steps(session))
      /\ Has(events', Accepting(session)) => Has(events, Accepting(session))
      /\ Once(events', Steps(session))
    <2>1. Once(events, Steps(session))
        BY DEF Alone, OneHandshake, OneOf
    <2> QED
        BY <1>1, <1>2, <1>3, <2>1, HasInConcat
<1>5. OneHandshake'
    BY <1>1, <1>4 DEF Alone, OneHandshake, OneOf
<1>6. FirstConnect' /\ AcceptedIsAuthed'
    BY <1>1, <1>4 DEF Alone, FirstConnect, Unasked, AcceptedIsAuthed, Accepted
<1>7. TransporterTypes' /\ UserContexts' /\ RunsInitialized' /\ SessionIsUp' /\ WaiterTells'
    BY <1>1 DEF Alone, TransporterTypes, UserContexts, RunsInitialized, SessionIsUp, WaiterTells
<1> QED
    BY <1>5, <1>6, <1>7 DEF Alone

-----------------------------------------------------------------------------
(* Events of the session that is up. *)

\* A step of the handshake is an event, and the next one is a call.
LEMMA ContinueAlone ==
    ASSUME CallerTypes, Alone, up, events # <<>>, Head(events) \in Steps(session),
           NEW h \in Handshakes, Continue(h), h = "info" => Head(events) \in Accepting(session)
    PROVE  Alone'
<1>1. /\ calls' = calls \o <<h>> \o <<>> /\ events' = Tail(events)
      /\ UNCHANGED <<up, session, contexts, link, initialized, internal, waiting, running, authed>>
      /\ UNCHANGED <<waiter, ready>>
    BY DEF Continue, RunCommands, sessionVars, queueVars
<1>2. events \in Seq(Event) /\ calls \in Seq(Call) /\ h \in Call
    BY DEF CallerTypes, Alone, TransporterTypes, Call
<1>3. /\ calls' \in Seq(Call)
      /\ \A H : /\ Has(calls', H) <=> Has(calls, H) \/ h \in H
                /\ Once(calls, H) /\ ~(Has(calls, H) /\ h \in H) => Once(calls', H)
    BY <1>1, <1>2, PostsFacts
<1>4. \A H : /\ Has(events', H) => Has(events, H)
             /\ Head(events) \in H => Has(events, H)
             /\ Once(events, H) => Once(events', H)
             /\ Once(events, H) /\ Head(events) \in H => ~Has(events', H)
    BY <1>1, <1>2, HasInTail
<1>5. TransporterTypes' /\ UserContexts' /\ SessionIsUp' /\ WaiterTells' /\ RunsInitialized'
    BY <1>1, <1>3
        DEF Alone, TransporterTypes, UserContexts, SessionIsUp, WaiterTells, RunsInitialized
<1>6. /\ ~Has(events', Steps(session)) /\ ~Has(calls, Handshakes) /\ ~Has(internal, Handshakes)
      /\ ~Has(running, Handshakes) /\ Once(calls, Handshakes)
    BY <1>4 DEF Alone, OneHandshake, OneOf
<1>7. OneHandshake'
    BY <1>1, <1>3, <1>4, <1>6 DEF Alone, OneHandshake, OneOf
<1>8. FirstConnect'
    BY <1>1, <1>4 DEF Alone, FirstConnect, Unasked
<1>9. AcceptedIsAuthed'
    <2>1. h # "authOk"
        BY DEF Handshakes
    <2>2. Accepted' => Accepted
        BY <1>1, <1>3, <1>4, <2>1 DEF Accepted
    <2> QED
        BY <1>1, <2>2 DEF Alone, AcceptedIsAuthed
<1> QED
    BY <1>5, <1>7, <1>8, <1>9 DEF Alone

\* A signal of the handshake is handled, and the deletions of contexts are posted.
LEMMA DeletionsAlone ==
    ASSUME CallerTypes, Alone, events # <<>>, events' = Tail(events) \o Deletions
    PROVE  /\ \A H \in {Steps(session), Accepting(session)} :
                  Has(events', H) => Has(Tail(events), H)
           /\ Once(events', Steps(session))
<1> DEFINE s == Tail(events)
           t == Deletions
<1>1. /\ s \in Seq(Event) /\ t \in Seq(Event) /\ events' = s \o t
      /\ \A k \in DOMAIN t : t[k].type = "delete"
    BY DeletionsFacts, TailFacts DEF CallerTypes, Deletion
<1>2. Once(s, Steps(session))
    BY HasInTail DEF CallerTypes, Alone, OneHandshake, OneOf
<1> HIDE DEF s, t
<1>3. /\ \A H \in {Steps(session), Accepting(session)} : ~Has(t, H)
      /\ Once(t, Steps(session))
    BY <1>1, EventTypes DEF Has, Once
<1>4. /\ \A H : Has(s \o t, H) <=> Has(s, H) \/ Has(t, H)
      /\ Once(s \o t, Steps(session))
    BY <1>1, <1>2, <1>3, HasInConcat
<1>5. \A H \in {Steps(session), Accepting(session)} : Has(events', H) => Has(s, H)
    BY <1>1, <1>3, <1>4
<1> QED
    BY <1>1, <1>4, <1>5 DEF s

\* emit error(): the session ends, and every context cancels its future.
LEMMA ErrorAlone ==
    ASSUME CallerTypes, Alone, events # <<>>, DisconnectOnError
    PROVE  Alone'
<1>1. EndSession /\ AbortWaiter /\ events' = Tail(events) \o Deletions /\ contexts' = contexts
    BY DEF DisconnectOnError
<1>2. Once(events', Steps(session))
    BY <1>1, DeletionsAlone
<1>3. WaiterTells' /\ UserContexts'
    BY <1>1 DEF Alone, WaiterTells, AbortWaiter, UserContexts
<1> QED
    BY <1>1, <1>2, <1>3, EndAlone

\* emit authOk(): every context runs its command, whoever waits is told, and from now
\* on the transporter runs what the user asks.
LEMMA AuthOkAlone ==
    ASSUME CallerTypes, Alone, up, events # <<>>, Head(events) \in Accepting(session), EmitAuthOk
    PROVE  Alone'
<1> DEFINE cmds == [k \in DOMAIN contexts |-> contexts[k].cmd]
<1>1. /\ calls' = calls \o cmds \o <<"authOk">>
      /\ events' = Tail(events) \o Deletions /\ WaiterSucceeds
      /\ ready' = (ready \/ (up /\ Head(events).session = session))
      /\ UNCHANGED <<up, session, contexts, link, initialized, internal, waiting, running, authed>>
    BY DEF EmitAuthOk, RunCommands, sessionVars, queueVars
<1>2. events \in Seq(Event) /\ contexts \in Seq(Context) /\ calls \in Seq(Call)
    BY DEF CallerTypes, Alone, TransporterTypes
<1>3. Head(events).session = session /\ Head(events) \in Steps(session)
    BY EventTypes DEF Accepting
<1>4. /\ Has(events', Steps(session)) => Has(Tail(events), Steps(session))
      /\ Once(events', Steps(session))
    BY <1>1, DeletionsAlone
<1>5. /\ Has(events, Steps(session)) /\ Has(events, Accepting(session))
      /\ ~Has(Tail(events), Steps(session))
    BY <1>2, <1>3, HasInTail DEF Alone, OneHandshake, OneOf
<1>6. /\ ~Has(events', Steps(session)) /\ ~Has(calls, Handshakes) /\ ~Has(internal, Handshakes)
      /\ ~Has(running, Handshakes)
    BY <1>4, <1>5 DEF Alone, OneHandshake, OneOf
<1>7. /\ cmds \in Seq(Call) /\ DOMAIN cmds = DOMAIN contexts
      /\ \A k \in DOMAIN cmds : cmds[k] \in Commands
    <2>1. Len(contexts) \in Nat /\ DOMAIN contexts = 1..Len(contexts)
        BY <1>2, SeqFacts
    <2>2. \A k \in DOMAIN contexts : contexts[k].cmd \in Commands /\ contexts[k].cmd \in Call
        BY DEF Alone, UserContexts, Call
    <2> QED
        BY <2>1, <2>2
<1> HIDE DEF cmds
<1>8. ~Has(cmds, Handshakes)
    BY <1>7, Names DEF Has
<1>9. calls' \in Seq(Call) /\ ~Has(calls', Handshakes) /\ Once(calls', Handshakes)
    <2>1. <<"authOk">> \in Seq(Call)
        BY DEF Call
    <2>2. calls \o cmds \in Seq(Call) /\ \A H : Has(calls \o cmds, H) <=> Has(calls, H) \/ Has(cmds, H)
        BY <1>2, <1>7, HasInConcat
    <2>3. /\ calls' \in Seq(Call)
          /\ \A H : Has(calls', H) <=> Has(calls \o cmds, H) \/ Has(<<"authOk">>, H)
        BY <1>1, <2>1, <2>2, HasInConcat
    <2>4. \A H : Has(<<"authOk">>, H) <=> "authOk" \in H
        BY HasInFew
    <2>5. ~Has(calls', Handshakes)
        BY <1>6, <1>8, <2>2, <2>3, <2>4 DEF Handshakes
    <2> QED
        BY <2>3, <2>5 DEF Has, Once
<1>10. OneHandshake'
    BY <1>1, <1>4, <1>6, <1>9 DEF Alone, OneHandshake, OneOf
<1>11. FirstConnect' /\ AcceptedIsAuthed'
    <2>1. Accepted /\ ~Unasked
        BY <1>5 DEF Accepted, Unasked
    <2> QED
        BY <1>1, <2>1 DEF Alone, FirstConnect, AcceptedIsAuthed
<1>12. TransporterTypes' /\ UserContexts' /\ SessionIsUp' /\ RunsInitialized'
    BY <1>1, <1>9 DEF Alone, TransporterTypes, UserContexts, SessionIsUp, RunsInitialized
<1>13. WaiterTells'
    BY <1>1, <1>3 DEF Alone, WaiterTells, WaiterSucceeds
<1> QED
    BY <1>10, <1>11, <1>12, <1>13 DEF Alone

\* A context is deleted.
LEMMA DeleteAlone ==
    ASSUME CallerTypes, Alone, HandleDelete
    PROVE  Alone'
<1> DEFINE keeps == {k \in DOMAIN contexts : contexts[k].born # Head(events).session}
<1>1. /\ events # <<>> /\ events' = Tail(events)
      /\ contexts' = Subsequence(contexts, keeps)
      /\ UNCHANGED <<waiter, up, session, link, calls, initialized, internal, waiting,
                     running, authed, ready>>
    BY DEF HandleDelete, Handle, sessionVars, queueVars
<1>2. events \in Seq(Event) /\ contexts \in Seq(Context) /\ keeps \in SUBSET DOMAIN contexts
    BY DEF CallerTypes
<1> HIDE DEF keeps
<1>3. UserContexts'
    <2>1. \A k \in DOMAIN contexts' : \E i \in keeps : contexts'[k] = contexts[i]
        BY <1>1, <1>2, SubsequenceElements, SeqFacts
    <2> QED
        BY <1>2, <2>1 DEF Alone, UserContexts
<1>4. \A H : /\ Has(events', H) => Has(events, H)
             /\ Once(events, H) => Once(events', H)
    BY <1>1, <1>2, HasInTail
<1>5. FirstConnect' /\ AcceptedIsAuthed'
    <2>1. /\ Unasked => Unasked'
          /\ Accepted' => Accepted
        BY <1>1, <1>4 DEF Unasked, Accepted
    <2> QED
        BY <1>1, <2>1 DEF Alone, FirstConnect, AcceptedIsAuthed
<1>6. OneHandshake'
    BY <1>1, <1>4 DEF Alone, OneHandshake, OneOf
<1>7. TransporterTypes' /\ SessionIsUp' /\ WaiterTells' /\ RunsInitialized'
    BY <1>1 DEF Alone, TransporterTypes, SessionIsUp, WaiterTells, RunsInitialized
<1> QED
    BY <1>3, <1>5, <1>6, <1>7 DEF Alone

-----------------------------------------------------------------------------
(* Every step. *)

\* As long as no handshakes overlap, an event other than a deletion is one of the
\* session that is up.
LEMMA CurrentEvent ==
    ASSUME CallerTypes, ~overlap', NEW type, type # "delete", Handle(type)
    PROVE  /\ up /\ events # <<>> /\ Head(events) \in Event /\ Head(events).type = type
           /\ Head(events).session = session
<1>1. /\ events # <<>> /\ Head(events).type = type
      /\ up /\ Head(events).session = session
    BY DEF Handle
<1>2. events \in Seq(Event)
    BY DEF CallerTypes
<1> QED
    BY <1>1, <1>2, HasInTail

LEMMA HandlersAlone ==
    ASSUME CallerTypes, Alone, ~overlap',
           HandleConnected \/ HandleError \/ HandleAuth \/ HandlePong \/ HandleInfo
    PROVE  Alone'
<1>1. CASE HandleConnected
    <2>1. Handle("connected") /\ Continue(FirstHandshake)
        BY <1>1 DEF HandleConnected
    <2>2. up /\ events # <<>> /\ Head(events) \in Steps(session)
        BY <2>1, CurrentEvent DEF Steps
    <2> QED
        BY <2>1, <2>2, Names, ContinueAlone
<1>2. CASE HandleError
    <2>1. Handle("error") /\ DisconnectOnError
        BY <1>2 DEF HandleError
    <2> QED
        BY <2>1, CurrentEvent, ErrorAlone
<1>3. CASE HandleAuth
    <2>1. Handle("auth") /\ (Continue("ping") \/ DisconnectOnError)
        BY <1>3 DEF HandleAuth
    <2>2. up /\ events # <<>> /\ Head(events) \in Steps(session) /\ "ping" \in Handshakes
        BY <2>1, CurrentEvent DEF Steps, Handshakes
    <2>3. CASE Continue("ping")
        BY <2>2, <2>3, ContinueAlone
    <2>4. CASE DisconnectOnError
        BY <2>2, <2>4, ErrorAlone
    <2> QED
        BY <2>1, <2>3, <2>4
<1>4. CASE HandlePong
    <2>1. /\ Handle("ping")
          /\ \/ DisconnectOnError
             \/ Head(events).ok /\ Continue("info")
             \/ Head(events).ok /\ EmitAuthOk
        BY <1>4 DEF HandlePong
    <2>2. /\ up /\ events # <<>> /\ Head(events) \in Event /\ Head(events).type = "ping"
          /\ Head(events).session = session
        BY <2>1, CurrentEvent
    <2>3. /\ Head(events) \in Steps(session) /\ "info" \in Handshakes
          /\ Head(events).ok => Head(events) \in Accepting(session)
        BY <2>2 DEF Steps, Accepting, Handshakes
    <2>4. CASE DisconnectOnError
        BY <2>2, <2>4, ErrorAlone
    <2>5. CASE Head(events).ok /\ Continue("info")
        BY <2>2, <2>3, <2>5, ContinueAlone
    <2>6. CASE Head(events).ok /\ EmitAuthOk
        BY <2>2, <2>3, <2>6, AuthOkAlone
    <2> QED
        BY <2>1, <2>4, <2>5, <2>6
<1>5. CASE HandleInfo
    <2>1. Handle("info") /\ EmitAuthOk
        BY <1>5 DEF HandleInfo
    <2>2. up /\ events # <<>> /\ Head(events) \in Accepting(session)
        BY <2>1, CurrentEvent DEF Accepting
    <2> QED
        BY <2>1, <2>2, AuthOkAlone
<1> QED
    BY <1>1, <1>2, <1>3, <1>4, <1>5

\* Once handshakes have overlapped, it is said so for ever.
LEMMA OverlapStays ==
    ASSUME overlap \in BOOLEAN, [Next]_vars
    PROVE  overlap' \in BOOLEAN /\ (~overlap' => ~overlap)
<1>1. CASE HandlerNext
    <2>1. \E type : Handle(type)
        BY <1>1 DEF HandlerNext, HandleConnected, HandleError, HandleAuth, HandlePong,
                    HandleInfo, HandleDelete
    <2>2. PICK type : overlap' = (overlap \/ (type # "delete"
                                                 /\ ~(up /\ Head(events).session = session)))
        BY <2>1 DEF Handle
    <2> QED
        BY <2>2
<1>2. CASE TransporterNext
    <2>1. CASE LinkUp
        BY <2>1 DEF LinkUp
    <2>2. CASE LinkLost
        BY <2>2 DEF LinkLost
    <2>3. CASE LinkFails \/ Reconnect \/ TakeCall \/ Send \/ AnswerUser \/ AnswerHandshake
               \/ RefuseHandshake \/ RefuseAuth
        BY <2>3 DEF LinkFails, Reconnect, TakeCall, Send, AnswerUser, AnswerHandshake,
                          RefuseHandshake, RefuseAuth, Answered
    <2> QED
        BY <1>2, <2>1, <2>2, <2>3 DEF TransporterNext
<1>3. CASE UserNext
    BY <1>3 DEF UserNext, Run, Connect, ConnectAndWait, Disconnect
<1>4. CASE ConnectReturns \/ ConnectTimesOut
    BY <1>4 DEF ConnectReturns, ConnectTimesOut, LeaveLoop
<1>5. CASE UNCHANGED vars
    BY <1>5 DEF vars
<1> QED
    BY <1>1, <1>2, <1>3, <1>4, <1>5 DEF Next

LEMMA LifecycleStep == LifecycleInvariant /\ [Next]_vars => LifecycleInvariant'
<1> SUFFICES ASSUME LifecycleInvariant, [Next]_vars PROVE LifecycleInvariant'
    OBVIOUS
<1>1. overlap' \in BOOLEAN /\ (~overlap' => ~overlap)
    BY OverlapStays DEF LifecycleInvariant
<1>2. CallerInvariant /\ CallerTypes /\ CallerInvariant'
    BY CallerStep DEF LifecycleInvariant, CallerInvariant
<1>3. ASSUME ~overlap' PROVE Alone'
    <2>1. Alone
        BY <1>1, <1>3 DEF LifecycleInvariant
    <2>2. CASE UserNext
        BY <1>2, <2>1, <2>2, RunAlone, ConnectAlone, DisconnectAlone DEF UserNext
    <2>3. CASE ConnectReturns \/ ConnectTimesOut
        BY <1>2, <2>1, <2>3, LeaveLoopAlone DEF ConnectReturns, ConnectTimesOut
    <2>4. CASE HandlerNext
        BY <1>2, <1>3, <2>1, <2>4, HandlersAlone, DeleteAlone DEF HandlerNext
    <2>5. CASE TransporterNext
        <3>1. ~LinkLost
            BY <1>3 DEF LinkLost
        <3> QED
            BY <1>2, <1>3, <2>1, <2>5, <3>1, LinkUpAlone, LinkFailsAlone, ReconnectAlone,
               TakeCallAlone, SendAlone, AnswersAlone DEF TransporterNext
    <2>6. CASE UNCHANGED vars
        <3>1. /\ UNCHANGED <<waiter, up, session, events, contexts, ready>>
              /\ UNCHANGED <<link, calls, initialized, internal, waiting, running, authed>>
            BY <2>6 DEF vars, callerVars, sessionVars, queueVars
        <3>2. TransporterTypes' /\ UserContexts' /\ SessionIsUp' /\ WaiterTells' /\ RunsInitialized'
            BY <2>1, <3>1
                DEF Alone, TransporterTypes, UserContexts, SessionIsUp, WaiterTells, RunsInitialized
        <3>3. FirstConnect' /\ AcceptedIsAuthed' /\ OneHandshake'
            BY <2>1, <3>1 DEF Alone, FirstConnect, Unasked, AcceptedIsAuthed, Accepted, OneHandshake
        <3> QED
            BY <3>2, <3>3 DEF Alone
    <2> QED
        BY <2>2, <2>3, <2>4, <2>5, <2>6 DEF Next
<1> QED
    BY <1>1, <1>2, <1>3 DEF LifecycleInvariant

\* What CallerIsInvariant says, and, as long as no two handshakes overlap, that there
\* is one handshake, of this session, and that what follows from the acceptance of the
\* server is there only after it.
THEOREM LifecycleIsInvariant == Spec => []LifecycleInvariant
<1> QED
    BY InitLifecycle, LifecycleStep, PTL DEF Spec

\* As long as no two handshakes overlap, the transporter sends nothing that the user
\* has run to a server that has not accepted the handshake of this very connection.
THEOREM ServerHasAccepted == Spec => []AuthorisedFirst
<1>1. LifecycleInvariant => AuthorisedFirst
    <2> SUFFICES ASSUME LifecycleInvariant, ~overlap, link = "connected",
                        NEW k \in DOMAIN running, IsUser(running[k])
                 PROVE  authed
        BY DEF AuthorisedFirst
    <2>1. Has(running, Commands)
        BY DEF Has, IsUser
    <2> QED
        BY <2>1 DEF LifecycleInvariant, Alone, RunsInitialized, AcceptedIsAuthed, Accepted
<1> QED
    BY <1>1, LifecycleIsInvariant, PTL

\* As long as no two handshakes overlap, connect(true) returns true only for a session
\* whose handshake has ended well.
THEOREM ConnectTellsTheTruth == Spec => ConnectTellsAlone
<1>1. LifecycleInvariant => (waiter = "true" /\ ~overlap => ready)
    BY DEF LifecycleInvariant, Alone, WaiterTells
<1>2. LifecycleInvariant => [waiter = "true" /\ waiter' = "none" /\ ~overlap => ready]_vars
    BY <1>1
<1> QED
    BY <1>2, LifecycleIsInvariant, PTL DEF ConnectTellsAlone

=============================================================================

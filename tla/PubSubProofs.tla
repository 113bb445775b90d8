---------------------------- MODULE PubSubProofs ----------------------------
(***************************************************************************)
(* Subscriptions and replies on one connection.  Nothing is sent to an     *)
(* owner that is gone: when cancelCommands has run for it, its             *)
(* subscriptions, its waiting and its running commands have left the       *)
(* transporter.  What was posted is in one place.  As long as nothing      *)
(* disturbs the connection each reply completes its own command,           *)
(* m_subscriptions follows what the server has in force, and each message  *)
(* reaches its subscriber.                                                 *)
(***************************************************************************)
EXTENDS PubSub, SubsequencesProofs

Posted == 1..Len(posted)

QueueTypes ==
    /\ posted \in Seq(Command)
    /\ destroyed \subseteq Owners
    /\ inbox \in Seq(Call)
    /\ \A k \in DOMAIN inbox : inbox[k].type = "add" => inbox[k].id \in Posted
    /\ commands \in Seq(Posted)
    /\ running \in Seq(Posted \union {0})

\* cancelCommands is still to run for this owner, behind the k-th call.
CancelBehind(k, owner) ==
    \E j \in DOMAIN inbox : j > k /\ inbox[j] = [type |-> "cancel", owner |-> owner]

\* A command of an owner that is gone was posted before the owner was destroyed.
AddsBeforeCancel ==
    \A k \in DOMAIN inbox :
        LET owner == Cmd(inbox[k].id).owner
        IN  inbox[k].type = "add" /\ owner \in destroyed => CancelBehind(k, owner)

NothingOf(owner) ==
    /\ \A k \in Keys : subscriptions[k] # owner
    /\ \A k \in DOMAIN running : Cmd(running[k]).owner # owner
    /\ \A k \in DOMAIN commands : Cmd(commands[k]).owner # owner

GoneOrPending == \A owner \in destroyed : CancelBehind(0, owner) \/ NothingOf(owner)

CancelInvariant == QueueTypes /\ AddsBeforeCancel /\ GoneOrPending

LEMMA CancelMeans == ASSUME CancelInvariant PROVE CancelledSubscribersLeave
<1>1. \A k \in DOMAIN inbox : k > 0
    BY LenProperties DEF CancelInvariant, QueueTypes
<1> QED
    BY <1>1 DEF CancelInvariant, GoneOrPending, CancelBehind, NothingOf, CancelledSubscribersLeave,
       OwnedBy

LEMMA InitCancel == Init => CancelInvariant
<1> SUFFICES ASSUME Init PROVE CancelInvariant
    OBVIOUS
<1>1. posted = <<>> /\ destroyed = {} /\ inbox = <<>> /\ commands = <<>> /\ running = <<0>>
    BY DEF Init
<1>2. QueueTypes
    BY <1>1 DEF QueueTypes, Posted
<1> QED
    BY <1>1, <1>2 DEF CancelInvariant, AddsBeforeCancel, GoneOrPending

-----------------------------------------------------------------------------
(* The caller's thread. *)

\* A call is posted behind those that are there.
LEMMA Post ==
    ASSUME QueueTypes, NEW call \in Call, inbox' = Append(inbox, call)
    PROVE  /\ inbox' \in Seq(Call)
           /\ DOMAIN inbox = 1..Len(inbox) /\ Len(inbox) \in Nat
           /\ DOMAIN inbox' = 1..(Len(inbox) + 1)
           /\ \A k \in DOMAIN inbox : inbox'[k] = inbox[k]
           /\ inbox'[Len(inbox) + 1] = call
           /\ \A k, owner : CancelBehind(k, owner) => CancelBehind(k, owner)'
<1>1. inbox \in Seq(Call)
    BY DEF QueueTypes
<1>2. /\ inbox' \in Seq(Call) /\ DOMAIN inbox = 1..Len(inbox) /\ Len(inbox) \in Nat
      /\ DOMAIN inbox' = 1..(Len(inbox) + 1)
      /\ \A k \in DOMAIN inbox : inbox'[k] = inbox[k]
      /\ inbox'[Len(inbox) + 1] = call
    BY <1>1, AppendProperties, LenProperties
<1> QED
    BY <1>2 DEF CancelBehind

LEMMA SubmitCancel ==
    ASSUME CancelInvariant, NEW shape \in Shapes, Submit(shape)
    PROVE  CancelInvariant'
<1> DEFINE n == Len(posted)
           call == [type |-> "add", id |-> n + 1]
<1>1. posted \in Seq(Command) /\ n \in Nat /\ shape \in Command
    BY ShapesAssumption, LenProperties DEF CancelInvariant, QueueTypes
<1>2. /\ posted' \in Seq(Command) /\ Len(posted') = n + 1
      /\ \A k \in 1..n : posted'[k] = posted[k]
      /\ posted'[n + 1] = shape
    BY <1>1, AppendProperties DEF Submit
<1>3. call \in Call /\ inbox' = Append(inbox, call) /\ QueueTypes
    BY <1>1 DEF Call, Submit, CancelInvariant
<1>4. /\ inbox' \in Seq(Call) /\ DOMAIN inbox' = 1..(Len(inbox) + 1) /\ Len(inbox) \in Nat
      /\ DOMAIN inbox = 1..Len(inbox)
      /\ \A k \in DOMAIN inbox : inbox'[k] = inbox[k]
      /\ inbox'[Len(inbox) + 1] = call
      /\ \A k, owner : CancelBehind(k, owner) => CancelBehind(k, owner)'
    BY <1>3, Post
<1>5. \A id \in Posted \union {0} : id \in Posted' \union {0} /\ Cmd(id)' = Cmd(id)
    BY <1>1, <1>2 DEF Posted, Cmd
<1>6. Posted \subseteq Posted' /\ n + 1 \in Posted' /\ \A id \in {n + 1} : Cmd(id)' = shape
    BY <1>1, <1>2 DEF Posted, Cmd
<1>7. /\ commands \in Seq(Posted) /\ running \in Seq(Posted \union {0})
      /\ commands' = commands /\ running' = running /\ subscriptions' = subscriptions
      /\ destroyed' = destroyed /\ destroyed \subseteq Owners
      /\ \A k \in DOMAIN inbox : inbox[k].type = "add" => inbox[k].id \in Posted
    BY DEF Submit, threadVars, CancelInvariant, QueueTypes
<1>8. commands' \in Seq(Posted') /\ running' \in Seq(Posted' \union {0})
    BY <1>6, <1>7, SeqMonotonic
<1>9. QueueTypes'
    BY <1>2, <1>3, <1>4, <1>6, <1>7, <1>8 DEF QueueTypes
<1>10. AddsBeforeCancel'
    <2> SUFFICES ASSUME NEW k \in DOMAIN inbox', inbox'[k].type = "add",
                        NEW id, id = inbox'[k].id, Cmd(id)'.owner \in destroyed',
                        NEW owner, owner = Cmd(id)'.owner
                 PROVE  CancelBehind(k, owner)'
        BY DEF AddsBeforeCancel
    <2>1. k # Len(inbox) + 1
        BY <1>4, <1>6, <1>7 DEF Submit
    <2>2. k \in DOMAIN inbox /\ id = inbox[k].id /\ inbox[k].type = "add" /\ id \in Posted
        BY <1>4, <1>7, <2>1
    <2>3. Cmd(id)' = Cmd(id)
        BY <1>5, <2>2
    <2> QED
        BY <1>4, <1>7, <2>2, <2>3 DEF CancelInvariant, AddsBeforeCancel
<1>11. GoneOrPending'
    <2>1. \A k \in DOMAIN running : running[k] \in Posted \union {0}
        BY <1>7, ElementOfSeq, LenProperties
    <2>2. \A k \in DOMAIN commands : commands[k] \in Posted
        BY <1>7, ElementOfSeq, LenProperties
    <2>3. \A owner : NothingOf(owner) => NothingOf(owner)'
        BY <1>5, <1>7, <2>1, <2>2 DEF NothingOf
    <2> QED
        BY <1>4, <1>7, <2>3 DEF CancelInvariant, GoneOrPending
<1> QED
    BY <1>9, <1>10, <1>11 DEF CancelInvariant

LEMMA DestroyCancel ==
    ASSUME CancelInvariant, NEW o \in Owners, DestroyOwner(o)
    PROVE  CancelInvariant'
<1> DEFINE call == [type |-> "cancel", owner |-> o]
<1>1. call \in Call /\ call.type # "add" /\ inbox' = Append(inbox, call) /\ QueueTypes
    BY DEF Call, DestroyOwner, CancelInvariant
<1>2. /\ inbox' \in Seq(Call) /\ DOMAIN inbox' = 1..(Len(inbox) + 1) /\ Len(inbox) \in Nat
      /\ DOMAIN inbox = 1..Len(inbox)
      /\ \A k \in DOMAIN inbox : inbox'[k] = inbox[k]
      /\ inbox'[Len(inbox) + 1] = call
      /\ \A k, owner : CancelBehind(k, owner) => CancelBehind(k, owner)'
    BY <1>1, Post
<1>3. /\ posted' = posted /\ commands' = commands /\ running' = running
      /\ subscriptions' = subscriptions /\ destroyed' = destroyed \union {o}
    BY DEF DestroyOwner, threadVars
<1>4. \A k \in DOMAIN inbox \union {0} : CancelBehind(k, o)'
    BY <1>2 DEF CancelBehind
<1>5. QueueTypes'
    BY <1>1, <1>2, <1>3 DEF QueueTypes, Posted
<1>6. \A id : Cmd(id)' = Cmd(id)
    BY <1>3 DEF Cmd
<1>7. AddsBeforeCancel'
    BY <1>1, <1>2, <1>3, <1>4, <1>6 DEF CancelInvariant, AddsBeforeCancel
<1>8. \A owner : NothingOf(owner) => NothingOf(owner)'
    BY <1>3, <1>6 DEF NothingOf
<1>9. GoneOrPending'
    BY <1>2, <1>3, <1>4, <1>8 DEF CancelInvariant, GoneOrPending
<1> QED
    BY <1>5, <1>7, <1>9 DEF CancelInvariant

LEMMA RestartCancel == ASSUME CancelInvariant, Restart PROVE CancelInvariant'
<1>1. /\ inbox' = <<>> /\ commands' = <<>> /\ running' = <<0>> /\ posted' = posted
      /\ destroyed' = destroyed /\ subscriptions' = Nobody(Keys)
    BY DEF Restart, NewRunning
<1>2. QueueTypes'
    BY <1>1 DEF CancelInvariant, QueueTypes, Posted
<1>3. \A owner \in destroyed : owner # NoOwner
    BY NamesAssumption DEF CancelInvariant, QueueTypes
<1>4. \A owner \in destroyed : NothingOf(owner)'
    BY <1>1, <1>3 DEF NothingOf, Nobody, Cmd, Command0
<1> QED
    BY <1>1, <1>2, <1>4 DEF CancelInvariant, AddsBeforeCancel, GoneOrPending

-----------------------------------------------------------------------------
(* The transporter thread. *)

\* What a call that was taken leaves behind: every other cancel is still there.
LEMMA Take ==
    ASSUME CancelInvariant, inbox # <<>>, inbox' = Tail(inbox), posted' = posted,
           destroyed' = destroyed
    PROVE  /\ inbox' \in Seq(Call)
           /\ \A k \in DOMAIN inbox' : inbox'[k].type = "add" => inbox'[k].id \in Posted
           /\ AddsBeforeCancel'
           /\ \A owner : CancelBehind(1, owner) => CancelBehind(0, owner)'
           /\ 1 \in DOMAIN inbox /\ Head(inbox) = inbox[1]
<1>1. inbox \in Seq(Call) /\ Len(inbox) \in Nat \ {0} /\ DOMAIN inbox = 1..Len(inbox)
    BY EmptySeq, LenProperties DEF CancelInvariant, QueueTypes
<1>2. /\ inbox' \in Seq(Call) /\ DOMAIN inbox' = 1..(Len(inbox) - 1)
      /\ \A k \in DOMAIN inbox' : k + 1 \in DOMAIN inbox /\ inbox'[k] = inbox[k + 1]
    BY <1>1, HeadTailProperties, LenProperties
<1>3. Head(inbox) = inbox[1]
    BY <1>1
<1>4. \A owner : \A k \in Nat : CancelBehind(k + 1, owner) => CancelBehind(k, owner)'
    <2> SUFFICES ASSUME NEW k \in Nat, NEW owner, CancelBehind(k + 1, owner)
                 PROVE  CancelBehind(k, owner)'
        OBVIOUS
    <2>1. PICK j \in DOMAIN inbox : j > k + 1 /\ inbox[j] = [type |-> "cancel", owner |-> owner]
        BY DEF CancelBehind
    <2>2. j - 1 \in DOMAIN inbox' /\ j - 1 > k /\ inbox'[j - 1] = inbox[j]
        BY <1>1, <1>2, <2>1
    <2> QED
        BY <2>1, <2>2 DEF CancelBehind
<1>5. \A id : Cmd(id)' = Cmd(id)
    BY DEF Cmd
<1>6. AddsBeforeCancel'
    <2> SUFFICES ASSUME NEW k \in DOMAIN inbox', inbox'[k].type = "add",
                        NEW owner \in destroyed, owner = Cmd(inbox'[k].id).owner
                 PROVE  CancelBehind(k, owner)'
        BY <1>5 DEF AddsBeforeCancel
    <2>1. k + 1 \in DOMAIN inbox /\ inbox'[k] = inbox[k + 1] /\ k \in Nat
        BY <1>1, <1>2
    <2>2. CancelBehind(k + 1, owner)
        BY <2>1 DEF CancelInvariant, AddsBeforeCancel
    <2> QED
        BY <1>4, <2>1, <2>2
<1>7. \A k \in DOMAIN inbox' : inbox'[k].type = "add" => inbox'[k].id \in Posted
    BY <1>2 DEF CancelInvariant, QueueTypes
<1>8. \A owner : CancelBehind(1, owner) => CancelBehind(0, owner)'
    BY <1>4
<1> QED
    BY <1>1, <1>2, <1>3, <1>6, <1>7, <1>8

LEMMA AddCancel == ASSUME CancelInvariant, AddCommand PROVE CancelInvariant'
<1> DEFINE id == inbox[1].id
<1>1. /\ inbox # <<>> /\ inbox' = Tail(inbox) /\ Head(inbox).type = "add"
      /\ posted' = posted /\ destroyed' = destroyed /\ running' = running
      /\ subscriptions' = subscriptions /\ commands' = Append(commands, Head(inbox).id)
    BY DEF AddCommand, callerVars
<1>2. /\ inbox' \in Seq(Call)
      /\ \A k \in DOMAIN inbox' : inbox'[k].type = "add" => inbox'[k].id \in Posted
      /\ AddsBeforeCancel'
      /\ \A owner : CancelBehind(1, owner) => CancelBehind(0, owner)'
      /\ 1 \in DOMAIN inbox /\ Head(inbox) = inbox[1]
    BY <1>1, Take
<1>3. id \in Posted /\ commands \in Seq(Posted) /\ running \in Seq(Posted \union {0})
    BY <1>1, <1>2 DEF CancelInvariant, QueueTypes
<1>4. /\ commands' \in Seq(Posted) /\ Len(commands) \in Nat /\ DOMAIN commands = 1..Len(commands)
      /\ DOMAIN commands' = 1..(Len(commands) + 1)
      /\ \A k \in DOMAIN commands : commands'[k] = commands[k]
      /\ commands'[Len(commands) + 1] = id
    BY <1>1, <1>2, <1>3, AppendProperties, LenProperties
<1>5. QueueTypes'
    BY <1>1, <1>2, <1>3, <1>4 DEF CancelInvariant, QueueTypes, Posted
<1>6. GoneOrPending'
    <2> SUFFICES ASSUME NEW owner \in destroyed, ~CancelBehind(0, owner)' PROVE NothingOf(owner)'
        BY <1>1 DEF GoneOrPending
    <2>1. ~CancelBehind(1, owner)
        BY <1>2
    <2>2. ~CancelBehind(0, owner)
        BY <1>1, <1>2, <2>1 DEF CancelBehind, CancelInvariant, QueueTypes
    <2>3. Cmd(id).owner # owner
        BY <1>1, <1>2, <2>1 DEF CancelInvariant, AddsBeforeCancel
    <2> QED
        BY <1>1, <1>4, <2>2, <2>3 DEF CancelInvariant, GoneOrPending, NothingOf, Cmd
<1> QED
    BY <1>2, <1>5, <1>6 DEF CancelInvariant

\* What cancelCommands leaves of a queue.
LEMMA WithoutOwnerElements ==
    ASSUME NEW S, NEW ids \in Seq(S), NEW owner
    PROVE  /\ WithoutOwner(owner, ids) \in Seq(S)
           /\ \A k \in DOMAIN WithoutOwner(owner, ids) :
                  /\ Cmd(WithoutOwner(owner, ids)[k]).owner # owner
                  /\ \E j \in DOMAIN ids : WithoutOwner(owner, ids)[k] = ids[j]
<1> DEFINE kept == DOMAIN ids \ OwnedBy(owner, ids)
<1>1. kept \in SUBSET DOMAIN ids
    OBVIOUS
<1>2. /\ Subsequence(ids, kept) \in Seq(S)
      /\ \A k \in DOMAIN Subsequence(ids, kept) : \E i \in kept : Subsequence(ids, kept)[k] = ids[i]
    BY <1>1, SubsequenceElements
<1>3. \A i \in kept : i \in DOMAIN ids /\ Cmd(ids[i]).owner # owner
    BY DEF OwnedBy
<1> QED
    BY <1>2, <1>3 DEF WithoutOwner

LEMMA CancelCancel == ASSUME CancelInvariant, CancelCommands PROVE CancelInvariant'
<1> DEFINE o == Head(inbox).owner
<1>1. /\ inbox # <<>> /\ inbox' = Tail(inbox) /\ Head(inbox).type = "cancel"
      /\ posted' = posted /\ destroyed' = destroyed
      /\ running' = WithoutOwner(o, running) /\ commands' = WithoutOwner(o, commands)
      /\ subscriptions' = Unsubscribed(o)
    BY DEF CancelCommands, callerVars
<1>2. /\ inbox' \in Seq(Call)
      /\ \A k \in DOMAIN inbox' : inbox'[k].type = "add" => inbox'[k].id \in Posted
      /\ AddsBeforeCancel'
      /\ \A owner : CancelBehind(1, owner) => CancelBehind(0, owner)'
      /\ 1 \in DOMAIN inbox /\ Head(inbox) = inbox[1]
    BY <1>1, Take
<1>3. commands \in Seq(Posted) /\ running \in Seq(Posted \union {0}) /\ inbox \in Seq(Call)
    BY DEF CancelInvariant, QueueTypes
<1>4. /\ running' \in Seq(Posted \union {0}) /\ commands' \in Seq(Posted)
      /\ \A k \in DOMAIN running' :
             Cmd(running'[k]).owner # o /\ \E j \in DOMAIN running : running'[k] = running[j]
      /\ \A k \in DOMAIN commands' :
             Cmd(commands'[k]).owner # o /\ \E j \in DOMAIN commands : commands'[k] = commands[j]
    BY <1>1, <1>3, WithoutOwnerElements
<1>5. QueueTypes'
    BY <1>1, <1>2, <1>4 DEF CancelInvariant, QueueTypes, Posted
<1>6. GoneOrPending'
    <2> SUFFICES ASSUME NEW owner \in destroyed, ~CancelBehind(0, owner)' PROVE NothingOf(owner)'
        BY <1>1 DEF GoneOrPending
    <2>1. owner # NoOwner
        BY NamesAssumption DEF CancelInvariant, QueueTypes
    <2>2. \A id : Cmd(id)' = Cmd(id)
        BY <1>1 DEF Cmd
    <2>3. ~CancelBehind(1, owner)
        BY <1>2
    <2>4. CASE owner = o
        <3>1. \A k \in Keys : subscriptions'[k] # owner
            BY <1>1, <2>1, <2>4 DEF Unsubscribed
        <3> QED
            BY <1>4, <2>2, <2>4, <3>1 DEF NothingOf
    <2>5. CASE owner # o
        <3>1. inbox[1] # [type |-> "cancel", owner |-> owner]
            BY <1>2, <2>5
        <3>2. ~CancelBehind(0, owner)
            BY <1>3, <2>3, <3>1, LenProperties DEF CancelBehind
        <3>3. NothingOf(owner)
            BY <3>2 DEF CancelInvariant, GoneOrPending
        <3>4. \A k \in Keys : subscriptions'[k] # owner
            BY <1>1, <2>1, <3>3 DEF Unsubscribed, NothingOf
        <3> QED
            BY <1>4, <2>2, <3>3, <3>4 DEF NothingOf
    <2> QED
        BY <2>4, <2>5
<1> QED
    BY <1>2, <1>5, <1>6 DEF CancelInvariant

\* A command goes from one queue to the other.
LEMMA RunCancel == ASSUME CancelInvariant, RunCommand PROVE CancelInvariant'
<1>1. /\ commands # <<>> /\ commands' = Tail(commands)
      /\ running' = Append(running, Head(commands))
      /\ UNCHANGED <<posted, destroyed, inbox, subscriptions>>
    BY DEF RunCommand, callerVars
<1>2. commands \in Seq(Posted) /\ running \in Seq(Posted \union {0})
    BY DEF CancelInvariant, QueueTypes
<1>3. /\ commands' \in Seq(Posted) /\ Head(commands) \in Posted /\ 1 \in DOMAIN commands
      /\ Head(commands) = commands[1]
      /\ \A k \in DOMAIN commands' : k + 1 \in DOMAIN commands /\ commands'[k] = commands[k + 1]
    BY <1>1, <1>2, HeadTailProperties, LenProperties, EmptySeq
<1>4. /\ running' \in Seq(Posted \union {0}) /\ DOMAIN running = 1..Len(running)
      /\ DOMAIN running' = 1..(Len(running) + 1) /\ Len(running) \in Nat
      /\ \A k \in DOMAIN running : running'[k] = running[k]
      /\ running'[Len(running) + 1] = commands[1]
    BY <1>1, <1>2, <1>3, AppendProperties, LenProperties
<1>5. \A owner : NothingOf(owner) => NothingOf(owner)'
    BY <1>1, <1>3, <1>4 DEF NothingOf, Cmd
<1>6. QueueTypes' /\ AddsBeforeCancel'
    BY <1>1, <1>3, <1>4 DEF CancelInvariant, QueueTypes, Posted, AddsBeforeCancel, CancelBehind, Cmd
<1> QED
    BY <1>1, <1>5, <1>6 DEF CancelInvariant, GoneOrPending, CancelBehind

\* Only the owner of the first running command can come into the table.
LEMMA ReadCancel == ASSUME CancelInvariant, ReadNext PROVE CancelInvariant'
<1>1. UNCHANGED <<posted, destroyed, inbox, commands>>
    BY DEF ReadNext, Emit, UnexpectedReply, CompleteCommand, Read, callerVars
<1>2. running \in Seq(Posted \union {0})
    BY DEF CancelInvariant, QueueTypes
<1>3. CASE Emit \/ UnexpectedReply
    <2>1. UNCHANGED <<running, subscriptions>>
        BY <1>3 DEF Emit, UnexpectedReply
    <2> QED
        BY <1>1, <2>1 DEF CancelInvariant, QueueTypes, Posted, AddsBeforeCancel, GoneOrPending,
           CancelBehind, NothingOf, Cmd
<1>4. CASE CompleteCommand
    <2> DEFINE o == Cmd(running[1]).owner
    <2>1. running # <<>> /\ running' = Tail(running)
        BY <1>4 DEF CompleteCommand, Dequeue
    <2>2. /\ running' \in Seq(Posted \union {0}) /\ 1 \in DOMAIN running
          /\ Head(running) = running[1]
          /\ \A k \in DOMAIN running' : k + 1 \in DOMAIN running /\ running'[k] = running[k + 1]
        BY <1>2, <2>1, HeadTailProperties, LenProperties, EmptySeq
    <2>3. \A k \in Keys : subscriptions'[k] \in {o, NoOwner, subscriptions[k]}
        BY <1>4, <2>2 DEF CompleteCommand
    <2>4. \A owner \in destroyed : owner # NoOwner
        BY NamesAssumption DEF CancelInvariant, QueueTypes
    <2>5. \A owner \in destroyed : NothingOf(owner) => NothingOf(owner)'
        BY <1>1, <2>2, <2>3, <2>4 DEF NothingOf, Cmd
    <2>6. QueueTypes' /\ AddsBeforeCancel'
        BY <1>1, <2>2 DEF CancelInvariant, QueueTypes, Posted, AddsBeforeCancel, CancelBehind, Cmd
    <2> QED
        BY <1>1, <2>5, <2>6 DEF CancelInvariant, GoneOrPending, CancelBehind
<1> QED
    BY <1>3, <1>4 DEF ReadNext

-----------------------------------------------------------------------------

LEMMA StepCancel == CancelInvariant /\ [Next]_vars => CancelInvariant'
<1> SUFFICES ASSUME CancelInvariant, [Next]_vars PROVE CancelInvariant'
    OBVIOUS
<1>1. ASSUME NEW shape \in Shapes, Submit(shape) PROVE CancelInvariant'
    BY <1>1, SubmitCancel
<1>2. ASSUME NEW owner \in Owners, DestroyOwner(owner) PROVE CancelInvariant'
    BY <1>2, DestroyCancel
<1>3. CASE Restart
    BY <1>3, RestartCancel
<1>4. CASE AddCommand
    BY <1>4, AddCancel
<1>5. CASE CancelCommands
    BY <1>5, CancelCancel
<1>6. CASE RunCommand
    BY <1>6, RunCancel
<1>7. CASE ReadNext
    BY <1>7, ReadCancel
<1>8. ASSUME UNCHANGED <<callerVars, inbox, threadVars>> PROVE CancelInvariant'
    BY <1>8 DEF callerVars, threadVars, CancelInvariant, QueueTypes, Posted, AddsBeforeCancel,
       GoneOrPending, CancelBehind, NothingOf, Cmd
<1>9. CASE ServerExecutes \/ Publish
    BY <1>8, <1>9 DEF ServerExecutes, Publish, ServerStep
<1>10. CASE UNCHANGED vars
    BY <1>8, <1>10 DEF vars
<1> QED
    BY <1>1, <1>2, <1>3, <1>4, <1>5, <1>6, <1>7, <1>9, <1>10 DEF Next

\* For all owners, channels, commands and sessions: once cancelCommands has run
\* for an owner, sendResponse and cancelCommands leave nothing of it in the
\* queues or in m_subscriptions, and no confirmation brings it back.
THEOREM GoneSubscribersLeave == Spec => []CancelledSubscribersLeave
<1>1. Spec => []CancelInvariant
    BY InitCancel, StepCancel, PTL DEF Spec
<1>2. CancelInvariant => CancelledSubscribersLeave
    BY CancelMeans
<1> QED
    BY <1>1, <1>2, PTL


-----------------------------------------------------------------------------
(* What was posted is in one place. *)

Ids == Posted \union {0}

\* Posted in a call that the transporter has not come to.
Added == {k \in DOMAIN inbox : inbox[k].type = "add"}

\* Written: running, on the way to the server, or answered on the way back.
ReplyAt(k) == k \in DOMAIN stream /\ stream[k].type = "reply"
Written(id) ==
    \/ \E k \in DOMAIN running : running[k] = id
    \/ \E k \in DOMAIN requests : requests[k] = id
    \/ \E k \in DOMAIN stream : ReplyAt(k) /\ stream[k].id = id

\* A command is posted once, queued once and written once.
InOnePlace ==
    /\ IsInjective(running) /\ IsInjective(commands)
    /\ \A j, k \in Added : inbox[j].id = inbox[k].id => j = k
    /\ \A j \in Added, k \in DOMAIN commands : inbox[j].id # commands[k]
    /\ \A k \in Added : ~Written(inbox[k].id)
    /\ \A k \in DOMAIN commands : ~Written(commands[k])

StreamTypes ==
    /\ requests \in Seq(Ids)
    /\ stream \in Seq(Item)
    /\ \A k \in DOMAIN stream : ReplyAt(k) => stream[k].id \in Ids

OtherTypes ==
    /\ session \in 1..MaxSessions
    /\ subscriptions \in [Keys -> Owners \union {NoOwner}]
    /\ monitorMode \in BOOLEAN
    /\ initialized \in BOOLEAN
    /\ subscriber \in [Channels -> Owners \union {NoOwner}]
    /\ monitoring \in BOOLEAN
    /\ sent \in 0..MaxMessages
    /\ disturbed \in BOOLEAN

\* Only owners that are gone are cancelled.
CancelsGone == \A k \in DOMAIN inbox : inbox[k].type = "cancel" => inbox[k].owner \in destroyed

PlaceInvariant ==
    /\ CancelInvariant
    /\ posted \in Seq(Shapes) /\ StreamTypes /\ OtherTypes
    /\ InOnePlace /\ CancelsGone

LEMMA PlaceTypes ==
    ASSUME PlaceInvariant
    PROVE  /\ posted \in Seq(Shapes) /\ posted \in Seq(Command) /\ inbox \in Seq(Call)
           /\ commands \in Seq(Ids) /\ running \in Seq(Ids) /\ requests \in Seq(Ids)
           /\ stream \in Seq(Item) /\ \A k \in Added : inbox[k].id \in Ids
<1>1. commands \in Seq(Posted) /\ Posted \subseteq Ids
    BY DEF PlaceInvariant, CancelInvariant, QueueTypes, Ids
<1>2. commands \in Seq(Ids)
    BY <1>1, SeqMonotonic
<1> QED
    BY <1>2 DEF PlaceInvariant, CancelInvariant, QueueTypes, StreamTypes, Ids, Added

LEMMA CmdType == ASSUME PlaceInvariant, NEW id \in Ids PROVE Cmd(id) \in Command
<1>1. posted \in Seq(Command) /\ DOMAIN posted = 1..Len(posted)
    BY PlaceTypes, LenProperties
<1>2. Command0 \in Command
    BY DEF Command0, Command
<1> QED
    BY <1>1, <1>2 DEF Ids, Posted, Cmd

LEMMA TypesMean == PlaceInvariant => TypeOK
<1> SUFFICES ASSUME PlaceInvariant PROVE TypeOK
    OBVIOUS
<1>1. DOMAIN posted = Posted
    BY PlaceTypes, LenProperties DEF Posted
<1>2. Range(commands) \subseteq DOMAIN posted
    <2>1. commands \in Seq(Posted)
        BY DEF PlaceInvariant, CancelInvariant, QueueTypes
    <2> QED
        BY <1>1, <2>1, SeqFacts DEF Range
<1>3. Range(running) \subseteq DOMAIN posted \union {0} /\ Range(requests) \subseteq DOMAIN posted \union {0}
    BY <1>1, PlaceTypes, SeqFacts DEF Range, Ids
<1> QED
    BY <1>2, <1>3, PlaceTypes
    DEF TypeOK, PlaceInvariant, CancelInvariant, QueueTypes, OtherTypes, InOnePlace

LEMMA InitPlace == Init => PlaceInvariant
<1> SUFFICES ASSUME Init PROVE PlaceInvariant
    OBVIOUS
<1>1. CancelInvariant
    BY InitCancel
<1>2. posted \in Seq(Shapes) /\ StreamTypes /\ CancelsGone
    BY DEF Init, StreamTypes, Ids, CancelsGone, ReplyAt
<1>3. OtherTypes
    <2>1. session \in 1..MaxSessions /\ sent \in 0..MaxMessages
        BY BoundsAssumption DEF Init
    <2>2. /\ subscriptions \in [Keys -> Owners \union {NoOwner}]
          /\ subscriber \in [Channels -> Owners \union {NoOwner}]
        BY DEF Init, Nobody
    <2> QED
        BY <2>1, <2>2 DEF Init, OtherTypes
<1>4. InOnePlace
    BY DEF Init, InOnePlace, Added, IsInjective
<1> QED
    BY <1>1, <1>2, <1>3, <1>4 DEF PlaceInvariant

LEMMA OtherStep == PlaceInvariant /\ [Next]_vars => OtherTypes'
<1> SUFFICES ASSUME PlaceInvariant, [Next]_vars PROVE OtherTypes'
    OBVIOUS
<1>1. OtherTypes
    BY DEF PlaceInvariant
<1>2. subscriptions' \in [Keys -> Owners \union {NoOwner}]
    <2>1. CASE CancelCommands
        BY <1>1, <2>1 DEF CancelCommands, Unsubscribed, OtherTypes
    <2>2. CASE Restart
        BY <2>2 DEF Restart, Nobody
    <2>3. CASE CompleteCommand
        <3>1. Head(running) \in Ids
            BY <2>3, PlaceTypes, TailFacts, SeqFacts DEF CompleteCommand
        <3>2. Cmd(Head(running)).owner \in Owners \union {NoOwner}
            BY <3>1, CmdType DEF Command
        <3> QED
            BY <1>1, <2>3, <3>2 DEF CompleteCommand, OtherTypes
    <2>4. CASE UNCHANGED subscriptions
        BY <1>1, <2>4 DEF OtherTypes
    <2> QED
        BY <2>1, <2>2, <2>3, <2>4
        DEF Next, Submit, DestroyOwner, AddCommand, RunCommand, ReadNext, Emit, UnexpectedReply,
            ServerExecutes, Publish, ServerStep, vars, threadVars
<1>3. subscriber' \in [Channels -> Owners \union {NoOwner}]
    <2>1. CASE Restart
        BY <2>1 DEF Restart, Nobody
    <2>2. CASE ServerExecutes
        <3>1. Head(requests) \in Ids
            BY <2>2, PlaceTypes, TailFacts, SeqFacts DEF ServerExecutes
        <3>2. Cmd(Head(requests)).owner \in Owners \union {NoOwner}
            BY <3>1, CmdType DEF Command
        <3> QED
            BY <1>1, <2>2, <3>2 DEF ServerExecutes, OtherTypes
    <2>3. CASE UNCHANGED subscriber
        BY <1>1, <2>3 DEF OtherTypes
    <2> QED
        BY <2>1, <2>2, <2>3
        DEF Next, Submit, DestroyOwner, AddCommand, CancelCommands, RunCommand, ReadNext, Emit,
            UnexpectedReply, CompleteCommand, Read, Publish, vars, serverVars
<1>4. session' \in 1..MaxSessions /\ sent' \in 0..MaxMessages
    <2>1. session' = session \/ (session < MaxSessions /\ session' = session + 1)
        BY DEF Next, Submit, DestroyOwner, Restart, AddCommand, CancelCommands, RunCommand, ReadNext, Emit,
            UnexpectedReply, CompleteCommand, Read, ServerExecutes, Publish, ServerStep, vars, callerVars
    <2>2. sent' = sent \/ (sent < MaxMessages /\ sent' = sent + 1)
        BY DEF Next, Submit, DestroyOwner, Restart, AddCommand, CancelCommands, RunCommand, ReadNext, Emit,
            UnexpectedReply, CompleteCommand, Read, ServerExecutes, Publish, vars, serverVars
    <2> QED
        BY <1>1, <2>1, <2>2, BoundsAssumption DEF OtherTypes
<1>5. monitorMode' \in BOOLEAN /\ initialized' \in BOOLEAN
    BY <1>1
    DEF OtherTypes, Next, Submit, DestroyOwner, Restart, AddCommand, CancelCommands, RunCommand, ReadNext,
        Emit, UnexpectedReply, CompleteCommand, ServerExecutes, Publish, ServerStep, vars, threadVars
<1>6. monitoring' \in BOOLEAN
    BY <1>1
    DEF OtherTypes, Next, Submit, DestroyOwner, Restart, AddCommand, CancelCommands, RunCommand, ReadNext,
        Emit, UnexpectedReply, CompleteCommand, Read, ServerExecutes, Publish, vars, serverVars
<1>7. disturbed' \in BOOLEAN
    BY <1>1
    DEF OtherTypes, Next, Submit, DestroyOwner, Restart, AddCommand, CancelCommands, RunCommand, ReadNext,
        Emit, UnexpectedReply, CompleteCommand, Read, ServerExecutes, Publish, ServerStep, vars
<1> QED
    BY <1>2, <1>3, <1>4, <1>5, <1>6, <1>7 DEF OtherTypes

\* A step that writes nothing new, and leaves the inbox and the queue.
LEMMA PlaceKept ==
    ASSUME PlaceInvariant, UNCHANGED <<inbox, commands>>, IsInjective(running'),
           \A id : Written(id)' => Written(id)
    PROVE  InOnePlace'
BY DEF PlaceInvariant, InOnePlace, Added

LEMMA SubmitPlace ==
    ASSUME PlaceInvariant, NEW shape \in Shapes, Submit(shape)
    PROVE  posted' \in Seq(Shapes) /\ StreamTypes' /\ InOnePlace' /\ CancelsGone'
<1> DEFINE n == Len(posted)
           call == [type |-> "add", id |-> n + 1]
<1>1. posted \in Seq(Shapes) /\ n \in Nat /\ call \in Call /\ inbox' = Append(inbox, call)
    BY PlaceTypes, SeqFacts DEF Submit, Call
<1>2. posted' = Append(posted, shape) /\ UNCHANGED <<commands, running, requests, stream, destroyed>>
    BY DEF Submit, threadVars, serverVars
<1>3. posted' \in Seq(Shapes) /\ Len(posted') = n + 1
    BY <1>1, <1>2, AppendFacts
<1>4. Ids \subseteq Ids' /\ n + 1 \notin Ids /\ n + 1 # 0
    BY <1>1, <1>3 DEF Ids, Posted
<1>5. StreamTypes'
    <2>1. requests' \in Seq(Ids')
        BY <1>2, <1>4, PlaceTypes, SeqMonotonic
    <2> QED
        BY <1>2, <1>4, <2>1 DEF PlaceInvariant, StreamTypes, ReplyAt
<1>6. /\ DOMAIN inbox = 1..Len(inbox) /\ DOMAIN inbox' = 1..(Len(inbox) + 1) /\ Len(inbox) \in Nat
      /\ \A k \in DOMAIN inbox : inbox'[k] = inbox[k]
      /\ inbox'[Len(inbox) + 1] = call
    BY <1>1, PlaceTypes, AppendFacts
<1>7. Added' = Added \union {Len(inbox) + 1} /\ \A k \in Added : inbox'[k] = inbox[k]
    BY <1>6 DEF Added
<1>8. CancelsGone'
    BY <1>2, <1>6 DEF PlaceInvariant, CancelsGone
<1>9. InOnePlace'
    <2>1. \A k \in DOMAIN commands : commands[k] \in Ids
        BY PlaceTypes, SeqFacts
    <2>2. ~Written(n + 1)
        <3>1. /\ \A k \in DOMAIN running : running[k] \in Ids
              /\ \A k \in DOMAIN requests : requests[k] \in Ids
            BY PlaceTypes, SeqFacts
        <3> QED
            BY <1>4, <3>1 DEF Written, PlaceInvariant, StreamTypes
    <2>3. \A id : Written(id)' <=> Written(id)
        BY <1>2 DEF Written, ReplyAt
    <2>4. \A k \in Added : inbox[k].id # n + 1
        BY <1>4, PlaceTypes
    <2>5. inbox'[Len(inbox) + 1].id = n + 1
        BY <1>6
    <2> HIDE DEF n, call
    <2>6. InOnePlace
        BY DEF PlaceInvariant
    <2>7. IsInjective(running') /\ IsInjective(commands')
        BY <1>2, <2>6 DEF InOnePlace
    <2>8. \A k \in Added' : k \in Added \/ (inbox'[k].id = n + 1 /\ k = Len(inbox) + 1)
        BY <1>7, <2>5
    <2>9. ASSUME NEW j \in Added', NEW k \in Added', inbox'[j].id = inbox'[k].id
          PROVE  j = k
        <3>1. CASE j \in Added /\ k \in Added
            BY <1>7, <2>6, <2>9, <3>1 DEF InOnePlace
        <3> QED
            BY <1>7, <2>4, <2>8, <2>9, <3>1
    <2>10. ASSUME NEW j \in Added', NEW k \in DOMAIN commands' PROVE inbox'[j].id # commands'[k]
        <3>1. k \in DOMAIN commands /\ commands'[k] = commands[k] /\ commands[k] # n + 1
            BY <1>2, <1>4, <2>1
        <3>2. CASE j \in Added
            BY <1>7, <2>6, <3>1, <3>2 DEF InOnePlace
        <3> QED
            BY <2>8, <3>1, <3>2
    <2>11. ASSUME NEW k \in Added' PROVE (~Written(inbox[k].id))'
        <3>1. ~Written(inbox'[k].id)
            BY <1>7, <2>2, <2>6, <2>8 DEF InOnePlace
        <3> QED
            BY <1>2, <3>1 DEF Written, ReplyAt
    <2>12. \A k \in DOMAIN commands' : (~Written(commands[k]))'
        BY <1>2, <2>3, <2>6 DEF InOnePlace
    <2> QED
        BY <2>7, <2>9, <2>10, <2>11, <2>12 DEF InOnePlace
<1> QED
    BY <1>3, <1>5, <1>8, <1>9

LEMMA DestroyPlace ==
    ASSUME PlaceInvariant, NEW owner \in Owners, DestroyOwner(owner)
    PROVE  posted' \in Seq(Shapes) /\ StreamTypes' /\ InOnePlace' /\ CancelsGone'
<1> DEFINE call == [type |-> "cancel", owner |-> owner]
<1>1. /\ call \in Call /\ call.type # "add" /\ inbox' = Append(inbox, call)
      /\ destroyed' = destroyed \union {owner}
      /\ UNCHANGED <<posted, commands, running, requests, stream>>
    BY DEF DestroyOwner, threadVars, serverVars, Call
<1>2. /\ DOMAIN inbox = 1..Len(inbox) /\ DOMAIN inbox' = 1..(Len(inbox) + 1) /\ Len(inbox) \in Nat
      /\ \A k \in DOMAIN inbox : inbox'[k] = inbox[k]
      /\ inbox'[Len(inbox) + 1] = call
    BY <1>1, PlaceTypes, AppendFacts
<1>3. Added' = Added /\ \A k \in Added : inbox'[k] = inbox[k]
    BY <1>1, <1>2 DEF Added
<1>4. CancelsGone'
    BY <1>1, <1>2 DEF PlaceInvariant, CancelsGone
<1>5. \A id : Written(id)' <=> Written(id)
    BY <1>1 DEF Written, ReplyAt
<1>6. InOnePlace'
    <2>1. InOnePlace
        BY DEF PlaceInvariant
    <2>2. /\ \A j, k \in Added' : inbox'[j].id = inbox'[k].id => j = k
          /\ \A j \in Added', k \in DOMAIN commands : inbox'[j].id # commands[k]
          /\ \A k \in Added' : ~Written(inbox'[k].id)
        BY <1>3, <2>1 DEF InOnePlace
    <2>3. \A k \in DOMAIN commands : ~Written(commands[k])
        BY <2>1 DEF InOnePlace
    <2> QED
        BY <1>1, <1>5, <2>1, <2>2, <2>3 DEF InOnePlace
<1>7. StreamTypes'
    BY <1>1 DEF PlaceInvariant, StreamTypes, Ids, Posted, ReplyAt
<1> QED
    BY <1>1, <1>4, <1>6, <1>7 DEF PlaceInvariant

LEMMA RestartPlace ==
    ASSUME PlaceInvariant, Restart
    PROVE  posted' \in Seq(Shapes) /\ StreamTypes' /\ InOnePlace' /\ CancelsGone'
<1>1. /\ inbox' = <<>> /\ commands' = <<>> /\ running' = <<0>> /\ requests' = <<0>>
      /\ stream' = <<>> /\ posted' = posted
    BY DEF Restart, NewRunning
<1>2. StreamTypes'
    BY <1>1 DEF StreamTypes, Ids, ReplyAt
<1>3. InOnePlace'
    BY <1>1 DEF InOnePlace, Added, IsInjective
<1> QED
    BY <1>1, <1>2, <1>3 DEF PlaceInvariant, CancelsGone

\* The call that was taken is gone, and the others move up.
LEMMA TakeCall ==
    ASSUME PlaceInvariant, inbox # <<>>, inbox' = Tail(inbox), destroyed' = destroyed
    PROVE  /\ 1 \in DOMAIN inbox /\ Head(inbox) = inbox[1] /\ CancelsGone'
           /\ \A k \in Added' : k + 1 \in Added /\ k + 1 # 1 /\ inbox'[k] = inbox[k + 1]
<1>1. /\ 1 \in DOMAIN inbox /\ Head(inbox) = inbox[1] /\ DOMAIN inbox' = 1..(Len(inbox) - 1)
      /\ Len(inbox) \in Nat
      /\ \A k \in DOMAIN inbox' : k + 1 \in DOMAIN inbox /\ inbox'[k] = inbox[k + 1]
    BY PlaceTypes, TailFacts
<1> QED
    BY <1>1 DEF PlaceInvariant, CancelsGone, Added

LEMMA AddPlace ==
    ASSUME PlaceInvariant, AddCommand
    PROVE  posted' \in Seq(Shapes) /\ StreamTypes' /\ InOnePlace' /\ CancelsGone'
<1> DEFINE id == inbox[1].id
<1>1. /\ inbox # <<>> /\ inbox' = Tail(inbox) /\ Head(inbox).type = "add"
      /\ UNCHANGED <<posted, destroyed, running, requests, stream>>
      /\ commands' = Append(commands, Head(inbox).id)
    BY DEF AddCommand, callerVars, serverVars
<1>2. /\ 1 \in DOMAIN inbox /\ Head(inbox) = inbox[1] /\ CancelsGone'
      /\ \A k \in Added' : k + 1 \in Added /\ k + 1 # 1 /\ inbox'[k] = inbox[k + 1]
    BY <1>1, TakeCall
<1>3. 1 \in Added /\ id \in Ids /\ commands \in Seq(Ids)
    BY <1>1, <1>2, PlaceTypes DEF Added
<1>4. /\ Len(commands) \in Nat /\ DOMAIN commands = 1..Len(commands)
      /\ DOMAIN commands' = 1..(Len(commands) + 1)
      /\ \A k \in DOMAIN commands : commands'[k] = commands[k]
      /\ commands'[Len(commands) + 1] = id
    BY <1>1, <1>2, <1>3, AppendFacts
<1>5. \A w : Written(w)' <=> Written(w)
    BY <1>1 DEF Written, ReplyAt
<1>6. InOnePlace
    BY DEF PlaceInvariant
<1> HIDE DEF id
<1>7. \A k \in DOMAIN commands' : k \in DOMAIN commands \/ k = Len(commands) + 1
    BY <1>4
<1>8. IsInjective(commands')
    <2>1. \A k \in DOMAIN commands : commands[k] # id
        BY <1>3, <1>6 DEF InOnePlace, id
    <2> QED
        BY <1>4, <1>6, <1>7, <2>1 DEF InOnePlace, IsInjective
<1>9. /\ \A j, k \in Added' : inbox'[j].id = inbox'[k].id => j = k
      /\ \A k \in Added' : inbox'[k].id # id /\ ~Written(inbox'[k].id)
    <2>1. \A k \in Added' : k \in Int
        BY <1>1, PlaceTypes, TailFacts DEF Added
    <2>2. \A j, k \in Int : j + 1 = k + 1 => j = k
        OBVIOUS
    <2> QED
        BY <1>2, <1>3, <1>6, <2>1, <2>2 DEF InOnePlace, id
<1>10. \A k \in DOMAIN commands' : ~Written(commands'[k])
    BY <1>3, <1>4, <1>6, <1>7 DEF InOnePlace, id
<1>11. \A j \in Added', k \in DOMAIN commands' : inbox'[j].id # commands'[k]
    BY <1>2, <1>4, <1>6, <1>7, <1>9 DEF InOnePlace
<1>12. InOnePlace'
    BY <1>1, <1>5, <1>6, <1>8, <1>9, <1>10, <1>11 DEF InOnePlace
<1>13. StreamTypes'
    BY <1>1 DEF PlaceInvariant, StreamTypes, Ids, Posted, ReplyAt
<1> QED
    BY <1>1, <1>2, <1>12, <1>13 DEF PlaceInvariant

\* What cancelCommands leaves was there before, and in one place.
LEMMA WithoutOwnerPlace ==
    ASSUME NEW S, NEW ids \in Seq(S), NEW owner
    PROVE  /\ \A k \in DOMAIN WithoutOwner(owner, ids) :
                  \E j \in DOMAIN ids : WithoutOwner(owner, ids)[k] = ids[j]
           /\ IsInjective(ids) => IsInjective(WithoutOwner(owner, ids))
           /\ OwnedBy(owner, ids) = {} => WithoutOwner(owner, ids) = ids
<1> DEFINE kept == DOMAIN ids \ OwnedBy(owner, ids)
<1>1. kept \in SUBSET DOMAIN ids
    OBVIOUS
<1>2. IsInjective(ids) => IsInjective(WithoutOwner(owner, ids))
    BY <1>1, SubsequenceInjective DEF WithoutOwner, IsInjective
<1>3. OwnedBy(owner, ids) = {} => WithoutOwner(owner, ids) = ids
    <2> SUFFICES ASSUME OwnedBy(owner, ids) = {} PROVE WithoutOwner(owner, ids) = ids
        OBVIOUS
    <2>1. DOMAIN ids \ OwnedBy(owner, ids) = DOMAIN ids
        OBVIOUS
    <2> QED
        BY <2>1, SubsequenceOfAll DEF WithoutOwner
<1> QED
    BY <1>2, <1>3, WithoutOwnerElements

LEMMA CancelPlace ==
    ASSUME PlaceInvariant, CancelCommands
    PROVE  posted' \in Seq(Shapes) /\ StreamTypes' /\ InOnePlace' /\ CancelsGone'
<1> DEFINE o == Head(inbox).owner
<1>1. /\ inbox # <<>> /\ inbox' = Tail(inbox)
      /\ UNCHANGED <<posted, destroyed, requests, stream>>
      /\ running' = WithoutOwner(o, running) /\ commands' = WithoutOwner(o, commands)
    BY DEF CancelCommands, callerVars, serverVars
<1>2. /\ CancelsGone'
      /\ \A k \in Added' : k + 1 \in Added /\ inbox'[k] = inbox[k + 1]
    BY <1>1, TakeCall
<1>3. InOnePlace
    BY DEF PlaceInvariant
<1>4. /\ \A k \in DOMAIN commands' : \E j \in DOMAIN commands : commands'[k] = commands[j]
      /\ \A k \in DOMAIN running' : \E j \in DOMAIN running : running'[k] = running[j]
    BY <1>1, PlaceTypes, WithoutOwnerPlace
<1>5. IsInjective(running') /\ IsInjective(commands')
    BY <1>1, <1>3, PlaceTypes, WithoutOwnerPlace DEF InOnePlace
<1>6. \A id : Written(id)' => Written(id)
    BY <1>1, <1>4 DEF Written, ReplyAt
<1>7. \A k \in Added' : k \in Int
    BY <1>1, PlaceTypes, TailFacts DEF Added
<1>8. \A j, k \in Added' : inbox'[j].id = inbox'[k].id => j = k
    <2>1. \A j, k \in Int : j + 1 = k + 1 => j = k
        OBVIOUS
    <2> QED
        BY <1>2, <1>3, <1>7, <2>1 DEF InOnePlace
<1>9. \A j \in Added', k \in DOMAIN commands' : inbox'[j].id # commands'[k]
    BY <1>2, <1>3, <1>4 DEF InOnePlace
<1>10. /\ \A k \in Added' : ~Written(inbox'[k].id)
       /\ \A k \in DOMAIN commands' : ~Written(commands'[k])
    BY <1>2, <1>3, <1>4 DEF InOnePlace
<1>11. InOnePlace'
    BY <1>5, <1>6, <1>8, <1>9, <1>10 DEF InOnePlace
<1>12. StreamTypes'
    BY <1>1 DEF PlaceInvariant, StreamTypes, Ids, Posted, ReplyAt
<1> QED
    BY <1>1, <1>2, <1>11, <1>12 DEF PlaceInvariant

LEMMA RunPlace ==
    ASSUME PlaceInvariant, RunCommand
    PROVE  posted' \in Seq(Shapes) /\ StreamTypes' /\ InOnePlace' /\ CancelsGone'
<1> DEFINE id == commands[1]
<1>1. /\ commands # <<>> /\ commands' = Tail(commands)
      /\ running' = Append(running, Head(commands)) /\ requests' = Append(requests, Head(commands))
      /\ UNCHANGED <<posted, destroyed, inbox, stream>>
    BY DEF RunCommand, callerVars
<1>2. /\ 1 \in DOMAIN commands /\ Head(commands) = id /\ id \in Ids
      /\ \A k \in DOMAIN commands' : k + 1 \in DOMAIN commands /\ commands'[k] = commands[k + 1]
      /\ \A k \in DOMAIN commands' : k \in Nat \ {0}
    BY <1>1, PlaceTypes, TailFacts, SeqFacts
<1>3. /\ Len(running) \in Nat /\ DOMAIN running = 1..Len(running)
      /\ DOMAIN running' = 1..(Len(running) + 1)
      /\ \A k \in DOMAIN running : running'[k] = running[k]
      /\ running'[Len(running) + 1] = id
    BY <1>1, <1>2, PlaceTypes, AppendFacts
<1>4. /\ requests' \in Seq(Ids)
      /\ Len(requests) \in Nat /\ DOMAIN requests = 1..Len(requests)
      /\ DOMAIN requests' = 1..(Len(requests) + 1)
      /\ \A k \in DOMAIN requests : requests'[k] = requests[k]
      /\ requests'[Len(requests) + 1] = id
    BY <1>1, <1>2, PlaceTypes, AppendFacts
<1>5. InOnePlace
    BY DEF PlaceInvariant
<1> HIDE DEF id
<1>6. \A w : Written(w)' => Written(w) \/ w = id
    BY <1>1, <1>3, <1>4 DEF Written, ReplyAt
<1>7. ~Written(id) /\ \A k \in Added : inbox[k].id # id
    BY <1>2, <1>5 DEF InOnePlace, id
<1>8. /\ \A k \in DOMAIN commands' : commands'[k] # id
      /\ IsInjective(commands')
    <2>1. \A k \in Nat \ {0} : k + 1 # 1
        OBVIOUS
    <2>2. \A j, k \in Nat : j + 1 = k + 1 => j = k
        OBVIOUS
    <2> QED
        BY <1>2, <1>5, <2>1, <2>2 DEF InOnePlace, IsInjective, id
<1>9. IsInjective(running')
    <2>1. \A k \in DOMAIN running : running[k] # id
        BY <1>7 DEF Written
    <2>2. \A k \in DOMAIN running' : k \in DOMAIN running \/ k = Len(running) + 1
        BY <1>3
    <2> QED
        BY <1>3, <1>5, <2>1, <2>2 DEF InOnePlace, IsInjective
<1>10. /\ \A j \in Added, k \in DOMAIN commands' : inbox[j].id # commands'[k]
       /\ \A k \in DOMAIN commands' : ~Written(commands'[k])
    BY <1>2, <1>5 DEF InOnePlace
<1>11. InOnePlace'
    <2>1. Added' = Added /\ inbox' = inbox
        BY <1>1 DEF Added
    <2> QED
        BY <1>5, <1>6, <1>7, <1>8, <1>9, <1>10, <2>1 DEF InOnePlace
<1>12. StreamTypes'
    BY <1>1, <1>4 DEF PlaceInvariant, StreamTypes, Ids, Posted, ReplyAt
<1> QED
    BY <1>1, <1>11, <1>12 DEF PlaceInvariant, CancelsGone

LEMMA ReadPlace ==
    ASSUME PlaceInvariant, ReadNext
    PROVE  posted' \in Seq(Shapes) /\ StreamTypes' /\ InOnePlace' /\ CancelsGone'
<1>1. /\ stream # <<>> /\ stream' = Tail(stream)
      /\ UNCHANGED <<posted, destroyed, inbox, commands, requests>>
    BY DEF ReadNext, Emit, UnexpectedReply, CompleteCommand, Read, callerVars, serverVars
<1>2. /\ stream' \in Seq(Item)
      /\ \A k \in DOMAIN stream' : k + 1 \in DOMAIN stream /\ stream'[k] = stream[k + 1]
    BY <1>1, PlaceTypes, TailFacts
<1>3. /\ \A k \in DOMAIN running' : \E j \in DOMAIN running : running'[k] = running[j]
      /\ IsInjective(running')
    <2>1. CASE running' = running
        BY <2>1 DEF PlaceInvariant, InOnePlace
    <2>2. CASE running # <<>> /\ running' = Tail(running)
        <3>1. /\ \A k \in DOMAIN running' : k + 1 \in DOMAIN running /\ running'[k] = running[k + 1]
              /\ \A k \in DOMAIN running' : k \in Nat
            BY <2>2, PlaceTypes, TailFacts
        <3>2. \A j, k \in Nat : j + 1 = k + 1 => j = k
            OBVIOUS
        <3> QED
            BY <3>1, <3>2 DEF PlaceInvariant, InOnePlace, IsInjective
    <2> QED
        BY <2>1, <2>2 DEF ReadNext, Emit, UnexpectedReply, CompleteCommand, Dequeue
<1>4. \A id : Written(id)' => Written(id)
    BY <1>1, <1>2, <1>3 DEF Written, ReplyAt
<1>5. InOnePlace'
    BY <1>1, <1>3, <1>4, PlaceKept
<1>6. StreamTypes'
    BY <1>1, <1>2 DEF PlaceInvariant, StreamTypes, Ids, Posted, ReplyAt
<1> QED
    BY <1>1, <1>5, <1>6 DEF PlaceInvariant, CancelsGone

-----------------------------------------------------------------------------
(* The server. *)

\* What the server sends for a command: as many confirmations as it has channels.
LEMMA ConfirmationsCount ==
    ASSUME PlaceInvariant, NEW id \in Ids
    PROVE  /\ Confirmations(Cmd(id)) \in Nat \ {0}
           /\ ~ConfirmedTwice(id) => Confirmations(Cmd(id)) = 1
<1> DEFINE cmd == Cmd(id)
<1>1. cmd \in Command
    BY CmdType
<1>2. \A C \in SUBSET Channels : /\ IsFiniteSet(C) /\ Cardinality(C) \in Nat
                                 /\ C # {} => Cardinality(C) # 0
    BY ChannelsAssumption, FS_Subset, FS_CardinalityType, FS_EmptySet
<1>3. cmd.channels \in SUBSET Channels /\ InForce \in SUBSET Channels
    BY <1>1 DEF Command, InForce
<1>4. cmd.channels # {} => cmd.kind \in {"subscribe", "unsubscribe"}
    <2>1. cmd = Command0 \/ cmd \in Shapes
        BY PlaceTypes, SeqFacts DEF Cmd, Ids, Posted
    <2> QED
        BY <1>1, <2>1, ShapesAssumption DEF Command0, Command
<1>5. Cardinality({}) = 0
    BY FS_EmptySet
<1> HIDE DEF cmd
<1>6. Confirmations(cmd) \in Nat \ {0}
    BY <1>2, <1>3 DEF Confirmations
<1>7. ~ConfirmedTwice(id) => Confirmations(cmd) = 1
    BY <1>4, <1>5 DEF Confirmations, ConfirmedTwice, cmd
<1> QED
    BY <1>6, <1>7 DEF cmd

\* The replies are behind what is on the stream, all to the same command.
LEMMA Answers ==
    ASSUME PlaceInvariant, ServerExecutes
    PROVE  LET n == Confirmations(Cmd(requests[1]))
           IN  /\ n \in Nat \ {0} /\ (~ConfirmedTwice(requests[1]) => n = 1)
               /\ requests # <<>> /\ requests' = Tail(requests) /\ requests[1] \in Ids
               /\ stream' \in Seq(Item) /\ Len(stream) \in Nat /\ Len(stream') = Len(stream) + n
               /\ DOMAIN stream = 1..Len(stream) /\ DOMAIN stream' = 1..(Len(stream) + n)
               /\ \A k \in DOMAIN stream : stream'[k] = stream[k]
               /\ \A k \in 1..n : /\ stream'[Len(stream) + k].type = "reply"
                                  /\ stream'[Len(stream) + k].id = requests[1]
<1> DEFINE id == requests[1]
           n == Confirmations(Cmd(id))
           ok == Cmd(id).kind \notin {"plain", "monitor"} \/ InForce = {}
           item == [type |-> "reply", id |-> id, ok |-> ok]
           items == [k \in 1..n |-> item]
<1>1. requests # <<>> /\ requests' = Tail(requests) /\ Head(requests) = id /\ id \in Ids
    BY PlaceTypes, TailFacts, SeqFacts DEF ServerExecutes
<1>2. n \in Nat \ {0} /\ (~ConfirmedTwice(id) => n = 1)
    BY <1>1, ConfirmationsCount
<1>3. stream' = stream \o items
    BY <1>1 DEF ServerExecutes
<1>4. item \in Item /\ item.type = "reply" /\ item.id = id
    <2>1. id \in Nat
        BY <1>1, PlaceTypes, SeqFacts DEF Ids, Posted
    <2>2. ok \in BOOLEAN
        OBVIOUS
    <2> HIDE DEF ok, id
    <2> QED
        BY <2>1, <2>2 DEF Item
<1> HIDE DEF item, n
<1>5. /\ items \in Seq(Item) /\ Len(items) = n /\ DOMAIN items = 1..n
      /\ \A k \in 1..n : items[k] = item
    BY <1>2, <1>4
<1> HIDE DEF items
<1>6. /\ Len(stream) \in Nat /\ DOMAIN stream = 1..Len(stream)
      /\ stream' \in Seq(Item) /\ Len(stream') = Len(stream) + n /\ DOMAIN stream' = 1..(Len(stream) + n)
      /\ \A k \in DOMAIN stream : stream'[k] = stream[k]
      /\ \A k \in 1..n : stream'[Len(stream) + k] = items[k]
    <2>1. stream \in Seq(Item)
        BY PlaceTypes
    <2>2. Len(stream) \in Nat /\ DOMAIN stream = 1..Len(stream)
        BY <2>1, SeqFacts
    <2>3. /\ stream' \in Seq(Item) /\ Len(stream') = Len(stream) + n /\ DOMAIN stream' = 1..(Len(stream) + n)
          /\ \A k \in DOMAIN stream : stream'[k] = stream[k]
          /\ \A k \in DOMAIN items : stream'[Len(stream) + k] = items[k]
        BY <1>3, <1>5, <2>1, ConcatFacts
    <2> QED
        BY <1>5, <2>2, <2>3
<1> QED
    BY <1>1, <1>2, <1>4, <1>5, <1>6 DEF n

LEMMA ServerPlace ==
    ASSUME PlaceInvariant, ServerExecutes
    PROVE  posted' \in Seq(Shapes) /\ StreamTypes' /\ InOnePlace' /\ CancelsGone'
<1> DEFINE id == requests[1]
           n == Confirmations(Cmd(id))
<1>1. UNCHANGED <<posted, destroyed, inbox, commands, running>>
    BY DEF ServerExecutes, ServerStep, callerVars, threadVars
<1>2. /\ n \in Nat \ {0} /\ requests # <<>> /\ requests' = Tail(requests) /\ id \in Ids
      /\ stream' \in Seq(Item) /\ Len(stream) \in Nat
      /\ DOMAIN stream = 1..Len(stream) /\ DOMAIN stream' = 1..(Len(stream) + n)
      /\ \A k \in DOMAIN stream : stream'[k] = stream[k]
      /\ \A k \in 1..n : /\ stream'[Len(stream) + k].type = "reply"
                         /\ stream'[Len(stream) + k].id = id
    BY Answers
<1> HIDE DEF n
<1>3. ASSUME NEW k \in DOMAIN stream' PROVE k \in DOMAIN stream \/ stream'[k].id = id
    <2>1. k \in DOMAIN stream \/ k - Len(stream) \in 1..n
        BY <1>2
    <2>2. Len(stream) + (k - Len(stream)) = k
        BY <1>2
    <2> QED
        BY <1>2, <2>1, <2>2
<1>4. /\ 1 \in DOMAIN requests /\ requests' \in Seq(Ids)
      /\ \A k \in DOMAIN requests' : k + 1 \in DOMAIN requests /\ requests'[k] = requests[k + 1]
    BY <1>2, PlaceTypes, TailFacts
<1>5. \A w : Written(w)' => Written(w)
    <2> SUFFICES ASSUME NEW w, Written(w)' PROVE Written(w)
        OBVIOUS
    <2>1. CASE \E k \in DOMAIN running' : running'[k] = w
        BY <1>1, <2>1 DEF Written
    <2>2. CASE \E k \in DOMAIN requests' : requests'[k] = w
        BY <1>4, <2>2 DEF Written
    <2>3. CASE \E k \in DOMAIN stream' : ReplyAt(k)' /\ stream'[k].id = w
        <3>1. PICK k \in DOMAIN stream' : stream'[k].type = "reply" /\ stream'[k].id = w
            BY <2>3 DEF ReplyAt
        <3>2. w = id \/ (ReplyAt(k) /\ stream[k].id = w)
            BY <1>2, <1>3, <3>1 DEF ReplyAt
        <3>3. \E j \in DOMAIN requests : requests[j] = id
            BY <1>4
        <3>4. CASE w = id
            BY <3>3, <3>4 DEF Written
        <3>5. CASE ReplyAt(k) /\ stream[k].id = w
            BY <3>5 DEF Written, ReplyAt
        <3> QED
            BY <3>2, <3>4, <3>5
    <2> QED
        BY <2>1, <2>2, <2>3 DEF Written
<1>6. InOnePlace'
    BY <1>1, <1>5, PlaceKept DEF PlaceInvariant, InOnePlace
<1>7. StreamTypes'
    <2>1. \A k \in DOMAIN stream' : ReplyAt(k)' => stream'[k].id \in Ids
        BY <1>2, <1>3 DEF PlaceInvariant, StreamTypes, ReplyAt
    <2> QED
        BY <1>1, <1>2, <1>4, <2>1 DEF StreamTypes, Ids, Posted, ReplyAt
<1> QED
    BY <1>1, <1>6, <1>7 DEF PlaceInvariant, CancelsGone

\* What is published is no reply.
LEMMA Published ==
    ASSUME PlaceInvariant, Publish
    PROVE  /\ stream' \in Seq(Item) /\ Len(stream) \in Nat /\ Len(stream') = Len(stream) + 1
           /\ DOMAIN stream = 1..Len(stream) /\ DOMAIN stream' = 1..(Len(stream) + 1)
           /\ \A k \in DOMAIN stream : stream'[k] = stream[k]
           /\ LET item == stream'[Len(stream) + 1]
              IN  \/ item.type = "message" /\ item.channel \in InForce
                     /\ item.to = subscriber[item.channel]
                  \/ item.type = "feed" /\ monitoring
<1> DEFINE message(c) == [type |-> "message", channel |-> c, to |-> subscriber[c]]
           feed == [type |-> "feed"]
<1>1. PICK item : /\ stream' = Append(stream, item)
                  /\ (\E c \in InForce : item = message(c)) \/ (monitoring /\ item = feed)
    BY DEF Publish
<1>2. /\ item \in Item
      /\ \/ item.type = "message" /\ item.channel \in InForce
            /\ item.to = subscriber[item.channel]
         \/ item.type = "feed" /\ monitoring
    <2>1. CASE \E c \in InForce : item = message(c)
        BY <2>1 DEF Item, InForce, PlaceInvariant, OtherTypes
    <2>2. CASE monitoring /\ item = feed
        BY <2>2 DEF Item
    <2> QED
        BY <1>1, <2>1, <2>2
<1>3. stream \in Seq(Item)
    BY PlaceTypes
<1> QED
    BY <1>1, <1>2, <1>3, AppendFacts

LEMMA PublishPlace ==
    ASSUME PlaceInvariant, Publish
    PROVE  posted' \in Seq(Shapes) /\ StreamTypes' /\ InOnePlace' /\ CancelsGone'
<1>1. UNCHANGED <<posted, destroyed, inbox, commands, running, requests>>
    BY DEF Publish, ServerStep, callerVars, threadVars
<1>2. /\ stream' \in Seq(Item)
      /\ \A k \in DOMAIN stream' : stream'[k].type = "reply" => k \in DOMAIN stream /\ stream'[k] = stream[k]
    <2>1. /\ stream' \in Seq(Item) /\ Len(stream) \in Nat
          /\ DOMAIN stream = 1..Len(stream) /\ DOMAIN stream' = 1..(Len(stream) + 1)
          /\ \A k \in DOMAIN stream : stream'[k] = stream[k]
          /\ stream'[Len(stream) + 1].type # "reply"
        BY Published
    <2>2. \A k \in DOMAIN stream' : k \in DOMAIN stream \/ k = Len(stream) + 1
        BY <2>1
    <2> QED
        BY <2>1, <2>2
<1>3. \A w : Written(w)' => Written(w)
    BY <1>1, <1>2 DEF Written, ReplyAt
<1>4. InOnePlace'
    BY <1>1, <1>3, PlaceKept DEF PlaceInvariant, InOnePlace
<1>5. StreamTypes'
    BY <1>1, <1>2 DEF PlaceInvariant, StreamTypes, Ids, Posted, ReplyAt
<1> QED
    BY <1>1, <1>4, <1>5 DEF PlaceInvariant, CancelsGone

LEMMA PlaceStep == PlaceInvariant /\ [Next]_vars => PlaceInvariant'
<1> SUFFICES ASSUME PlaceInvariant, [Next]_vars PROVE PlaceInvariant'
    OBVIOUS
<1>1. CancelInvariant' /\ OtherTypes'
    BY StepCancel, OtherStep DEF PlaceInvariant
<1>2. posted' \in Seq(Shapes) /\ StreamTypes' /\ InOnePlace' /\ CancelsGone'
    <2>1. CASE UNCHANGED vars
        <3>1. UNCHANGED <<posted, destroyed, inbox, commands, running, requests, stream>>
            BY <2>1 DEF vars, callerVars, threadVars, serverVars
        <3>2. \A w : Written(w)' => Written(w)
            BY <3>1 DEF Written, ReplyAt
        <3>3. InOnePlace'
            BY <3>1, <3>2, PlaceKept DEF PlaceInvariant, InOnePlace
        <3>4. StreamTypes'
            BY <3>1 DEF PlaceInvariant, StreamTypes, Ids, Posted, ReplyAt
        <3> QED
            BY <3>1, <3>3, <3>4 DEF PlaceInvariant, CancelsGone
    <2>2. CASE Next
        BY <2>2, SubmitPlace, DestroyPlace, RestartPlace, AddPlace, CancelPlace, RunPlace, ReadPlace,
           ServerPlace, PublishPlace DEF Next
    <2> QED
        BY <2>1, <2>2
<1> QED
    BY <1>1, <1>2 DEF PlaceInvariant

LEMMA PlaceHolds == Spec => []PlaceInvariant
BY InitPlace, PlaceStep, PTL DEF Spec

\* Type correctness; of it, that no command runs twice at a time, for all commands,
\* owners, channels and bounds.
THEOREM PubSubTypes == Spec => []TypeOK
BY PlaceHolds, TypesMean, PTL

-----------------------------------------------------------------------------
(* The replies are in step with the commands. *)

\* The running commands up to here have been executed by the server.
Executed == Len(running) - Len(requests)

\* What the server has not come to are the last running commands, and only the last
\* command may have more than one confirmation.
RequestsLast == \A k \in DOMAIN requests : requests[k] = running[Executed + k]
DoubtsLast == \A i \in DOMAIN running : ConfirmedTwice(running[i]) => i = Len(running)

\* The others have their replies on the stream, in their order; what is left of a
\* second confirmation belongs to nobody.
BelongsTo(k, i) == ReplyAt(k) /\ stream[k].id = running[i]
RepliesExpected ==
    \A k \in DOMAIN stream : ReplyAt(k) =>
        \/ running = <<>> /\ ConfirmedTwice(stream[k].id)
        \/ \E i \in 1..Executed : BelongsTo(k, i)
ExecutedAnswered == \A i \in 1..Executed : \E k \in DOMAIN stream : BelongsTo(k, i)
RepliesOrdered ==
    \A j, k \in DOMAIN stream : \A i, l \in 1..Executed :
        j < k /\ BelongsTo(j, i) /\ BelongsTo(k, l) => i < l \/ (i = l /\ ConfirmedTwice(running[i]))

Aligned ==
    /\ Executed >= 0
    /\ RequestsLast /\ DoubtsLast /\ RepliesExpected /\ ExecutedAnswered /\ RepliesOrdered

\* The reply to MONITOR comes before the lines, and begins the mode in which they
\* are no replies.
MonitorAt(k) ==
    /\ ReplyAt(k) /\ Cmd(stream[k].id).kind = "monitor" /\ Cmd(stream[k].id).owner # NoOwner
    /\ \E i \in DOMAIN running : running[i] = stream[k].id
FeedAfterMonitor ==
    /\ monitoring => \E k \in DOMAIN stream : MonitorAt(k)
    /\ \A j \in DOMAIN stream :
           stream[j].type = "feed" => \E k \in DOMAIN stream : k < j /\ MonitorAt(k)

LEMMA StrideTypes ==
    ASSUME PlaceInvariant, Aligned
    PROVE  /\ Len(running) \in Nat /\ DOMAIN running = 1..Len(running)
           /\ Len(requests) \in Nat /\ DOMAIN requests = 1..Len(requests)
           /\ Len(stream) \in Nat /\ DOMAIN stream = 1..Len(stream)
           /\ Executed \in Nat /\ Executed <= Len(running) /\ 1..Executed \subseteq DOMAIN running
           /\ \A k \in DOMAIN requests : Executed + k \in DOMAIN running
           /\ \A i, l \in DOMAIN running : running[i] = running[l] => i = l
           /\ \A i \in DOMAIN running : running[i] \in Ids
<1>1. /\ Len(running) \in Nat /\ DOMAIN running = 1..Len(running)
      /\ Len(requests) \in Nat /\ DOMAIN requests = 1..Len(requests)
      /\ Len(stream) \in Nat /\ DOMAIN stream = 1..Len(stream)
      /\ \A i \in DOMAIN running : running[i] \in Ids
    BY PlaceTypes, SeqFacts
<1>2. Executed \in Nat /\ Executed <= Len(running) /\ 1..Executed \subseteq DOMAIN running
      /\ \A k \in DOMAIN requests : Executed + k \in DOMAIN running
    BY <1>1 DEF Aligned, Executed
<1> QED
    BY <1>1, <1>2 DEF PlaceInvariant, InOnePlace, IsInjective

\* The first reply is that of the first running command.
LEMMA FirstReply ==
    ASSUME PlaceInvariant, Aligned, running # <<>>,
           NEW k \in DOMAIN stream, ReplyAt(k), \A j \in DOMAIN stream : j < k => ~ReplyAt(j)
    PROVE  BelongsTo(k, 1) /\ 1 \in 1..Executed
<1>1. PICK i \in 1..Executed : BelongsTo(k, i)
    BY DEF Aligned, RepliesExpected
<1>2. 1 \in 1..Executed /\ k \in Int /\ Executed \in Nat
    BY <1>1, StrideTypes
<1>3. PICK l \in DOMAIN stream : BelongsTo(l, 1)
    BY <1>2 DEF Aligned, ExecutedAnswered
<1>4. l = k \/ k < l
    BY <1>2, <1>3, StrideTypes DEF BelongsTo
<1>5. CASE k < l
    <2>1. i < 1 \/ i = 1
        BY <1>1, <1>2, <1>3, <1>5 DEF Aligned, RepliesOrdered
    <2> QED
        BY <1>1, <1>2, <2>1
<1> QED
    BY <1>2, <1>3, <1>4, <1>5

LEMMA AlignedKept ==
    ASSUME PlaceInvariant, Aligned, UNCHANGED <<running, requests, stream>>,
           \A id \in Ids : Cmd(id)' = Cmd(id)
    PROVE  Aligned'
<1>1. \A id \in Ids : ConfirmedTwice(id)' <=> ConfirmedTwice(id)
    BY DEF ConfirmedTwice
<1>2. \A k \in DOMAIN stream : ReplyAt(k) => stream[k].id \in Ids
    BY DEF PlaceInvariant, StreamTypes
<1>3. /\ Executed' = Executed /\ \A k : ReplyAt(k)' <=> ReplyAt(k)
      /\ \A k, i : BelongsTo(k, i)' <=> BelongsTo(k, i)
    BY DEF Executed, ReplyAt, BelongsTo
<1>4. /\ \A i \in DOMAIN running : running[i] \in Ids
      /\ \A i \in 1..Executed : running[i] \in Ids
    BY StrideTypes
<1>5. RequestsLast' /\ ExecutedAnswered'
    BY <1>3 DEF Aligned, RequestsLast, ExecutedAnswered
<1>6. DoubtsLast'
    BY <1>1, <1>4 DEF Aligned, DoubtsLast
<1>7. RepliesExpected'
    BY <1>1, <1>2, <1>3 DEF Aligned, RepliesExpected
<1>8. RepliesOrdered'
    BY <1>1, <1>3, <1>4 DEF Aligned, RepliesOrdered
<1> QED
    BY <1>3, <1>5, <1>6, <1>7, <1>8 DEF Aligned

LEMMA UnderWayContains ==
    ASSUME PlaceInvariant
    PROVE  /\ \A k \in DOMAIN requests : requests[k] \in UnderWay
           /\ \A k \in DOMAIN stream : ReplyAt(k) => stream[k].id \in UnderWay
<1> DEFINE I == {k \in DOMAIN stream : stream[k].type = "reply"}
<1>1. \A i \in I : \E k \in DOMAIN Subsequence(stream, I) : Subsequence(stream, I)[k] = stream[i]
    <2>1. stream \in Seq(Item) /\ I \in SUBSET DOMAIN stream
        BY PlaceTypes
    <2> HIDE DEF I
    <2> QED
        BY <2>1, SubsequenceElements
<1>2. Replies(stream) = Subsequence(stream, I)
    BY DEF Replies
<1>3. \A k \in DOMAIN stream : ReplyAt(k) => k \in I
    BY DEF ReplyAt
<1> HIDE DEF I
<1>4. \A i \in I : stream[i] \in Range(Replies(stream))
    BY <1>1, <1>2 DEF Range
<1>5. \A i \in I : stream[i].id \in UnderWay
    BY <1>4 DEF UnderWay
<1>6. \A k \in DOMAIN requests : requests[k] \in UnderWay
    BY DEF UnderWay, Range
<1> QED
    BY <1>3, <1>5, <1>6

LEMMA RunAligned == ASSUME PlaceInvariant, Aligned, RunCommand, ~disturbed' PROVE Aligned'
<1> DEFINE id == Head(commands)
           m == Executed
<1>1. /\ running' = Append(running, id) /\ requests' = Append(requests, id) /\ id \in Ids
      /\ UNCHANGED <<posted, stream>>
      /\ \A w \in UnderWay : ~ConfirmedTwice(w)
    <2>1. commands # <<>> /\ commands \in Seq(Ids)
        BY PlaceTypes DEF RunCommand
    <2>2. id \in Ids
        BY <2>1, TailFacts, SeqFacts
    <2> QED
        BY <2>2 DEF RunCommand, callerVars
<1> HIDE DEF id
<1>2. /\ Len(running) \in Nat /\ DOMAIN running = 1..Len(running)
      /\ Len(running') = Len(running) + 1 /\ DOMAIN running' = 1..(Len(running) + 1)
      /\ \A k \in DOMAIN running : running'[k] = running[k]
      /\ running'[Len(running) + 1] = id
    BY <1>1, PlaceTypes, AppendFacts
<1>3. /\ Len(requests) \in Nat /\ DOMAIN requests = 1..Len(requests)
      /\ Len(requests') = Len(requests) + 1 /\ DOMAIN requests' = 1..(Len(requests) + 1)
      /\ \A k \in DOMAIN requests : requests'[k] = requests[k]
      /\ requests'[Len(requests) + 1] = id
    BY <1>1, PlaceTypes, AppendFacts
<1>4. m \in Nat /\ Executed' = m /\ m + Len(requests) = Len(running) /\ 1..m \subseteq DOMAIN running
    BY <1>2, <1>3, StrideTypes DEF Executed
<1>5. \A w : ConfirmedTwice(w)' <=> ConfirmedTwice(w)
    BY <1>1 DEF ConfirmedTwice, Cmd
<1>6. \A i \in DOMAIN running : ~ConfirmedTwice(running[i])
    <2> SUFFICES ASSUME NEW i \in DOMAIN running PROVE running[i] \in UnderWay
        BY <1>1
    <2>1. CASE i <= m
        <3>1. i \in 1..m
            BY <1>2, <1>4, <2>1
        <3> QED
            BY <3>1, UnderWayContains DEF Aligned, ExecutedAnswered, BelongsTo
    <2>2. CASE ~(i <= m)
        <3>1. i - m \in DOMAIN requests /\ m + (i - m) = i
            BY <1>2, <1>3, <1>4, <2>2
        <3> QED
            BY <3>1, UnderWayContains DEF Aligned, RequestsLast
    <2> QED
        BY <2>1, <2>2
<1>7. \A k \in DOMAIN stream : ReplyAt(k) => ~ConfirmedTwice(stream[k].id)
    BY <1>1, UnderWayContains
<1>8. \A k : ReplyAt(k)' <=> ReplyAt(k)
    BY <1>1 DEF ReplyAt
<1>9. \A i \in 1..m : running'[i] = running[i] /\ \A k : BelongsTo(k, i)' <=> BelongsTo(k, i)
    BY <1>1, <1>2, <1>4, <1>8 DEF BelongsTo
<1>10. RequestsLast'
    <2> SUFFICES ASSUME NEW k \in DOMAIN requests' PROVE requests'[k] = running'[m + k]
        BY <1>4 DEF RequestsLast
    <2>1. CASE k \in DOMAIN requests
        <3>1. m + k \in DOMAIN running /\ requests[k] = running[m + k]
            BY <2>1, StrideTypes DEF Aligned, RequestsLast
        <3> QED
            BY <1>2, <1>3, <2>1, <3>1
    <2>2. CASE k = Len(requests) + 1
        <3>1. m + k = Len(running) + 1
            BY <1>2, <1>3, <1>4, <2>2
        <3> QED
            BY <1>2, <1>3, <2>2, <3>1
    <2> QED
        BY <1>3, <2>1, <2>2
<1> HIDE DEF m
<1>11. DoubtsLast'
    <2>1. \A i \in DOMAIN running' : i \in DOMAIN running \/ i = Len(running) + 1
        BY <1>2
    <2> QED
        BY <1>2, <1>5, <1>6, <2>1 DEF DoubtsLast
<1>12. RepliesExpected'
    <2>1. \A k \in DOMAIN stream : ReplyAt(k) => \E i \in 1..m : BelongsTo(k, i)
        BY <1>7 DEF Aligned, RepliesExpected, m
    <2> QED
        BY <1>1, <1>4, <1>8, <1>9, <2>1 DEF RepliesExpected
<1>13. ExecutedAnswered'
    <2>1. \A i \in 1..m : \E k \in DOMAIN stream : BelongsTo(k, i)
        BY DEF Aligned, ExecutedAnswered, m
    <2> QED
        BY <1>1, <1>4, <1>9, <2>1 DEF ExecutedAnswered
<1>14. RepliesOrdered'
    <2>1. \A j, k \in DOMAIN stream : \A i, l \in 1..m :
              j < k /\ BelongsTo(j, i) /\ BelongsTo(k, l) => i < l \/ (i = l /\ ConfirmedTwice(running[i]))
        BY DEF Aligned, RepliesOrdered, m
    <2> QED
        BY <1>1, <1>4, <1>5, <1>9, <2>1 DEF RepliesOrdered
<1> QED
    BY <1>4, <1>10, <1>11, <1>12, <1>13, <1>14 DEF Aligned

\* What was read is gone, and the rest moves up.
LEMMA ReadMoves ==
    ASSUME PlaceInvariant, stream # <<>>, stream' = Tail(stream)
    PROVE  /\ 1 \in DOMAIN stream /\ Head(stream) = stream[1]
           /\ Len(stream) \in Nat /\ Len(stream') = Len(stream) - 1
           /\ DOMAIN stream = 1..Len(stream) /\ DOMAIN stream' = 1..(Len(stream) - 1)
           /\ \A k \in DOMAIN stream' : /\ k \in Nat /\ k + 1 \in DOMAIN stream /\ k + 1 # 1
                                        /\ stream'[k] = stream[k + 1]
                                        /\ ReplyAt(k)' <=> ReplyAt(k + 1)
           /\ \A k \in DOMAIN stream : k # 1 => k - 1 \in DOMAIN stream' /\ (k - 1) + 1 = k
<1>1. /\ 1 \in DOMAIN stream /\ Head(stream) = stream[1]
      /\ Len(stream) \in Nat /\ Len(stream') = Len(stream) - 1
      /\ DOMAIN stream' = 1..(Len(stream) - 1) /\ DOMAIN stream = 1..Len(stream)
      /\ \A k \in DOMAIN stream' : k + 1 \in DOMAIN stream /\ stream'[k] = stream[k + 1]
      /\ \A k \in DOMAIN stream : k # 1 => k - 1 \in DOMAIN stream'
    BY PlaceTypes, TailFacts, SeqFacts
<1>2. \A k \in DOMAIN stream' : k \in Nat /\ k + 1 # 1
    BY <1>1
<1>3. \A k \in DOMAIN stream : (k - 1) + 1 = k
    BY <1>1
<1> QED
    BY <1>1, <1>2, <1>3 DEF ReplyAt

LEMMA MessageAligned ==
    ASSUME PlaceInvariant, Aligned, stream # <<>>, stream' = Tail(stream), ~ReplyAt(1),
           UNCHANGED <<posted, running, requests>>
    PROVE  Aligned'
<1>1. /\ \A k \in DOMAIN stream' : /\ k \in Nat /\ k + 1 \in DOMAIN stream /\ stream'[k] = stream[k + 1]
                                   /\ ReplyAt(k)' <=> ReplyAt(k + 1)
      /\ \A k \in DOMAIN stream : k # 1 => k - 1 \in DOMAIN stream' /\ (k - 1) + 1 = k
    BY ReadMoves
<1>2. Executed' = Executed /\ \A w : ConfirmedTwice(w)' <=> ConfirmedTwice(w)
    BY DEF Executed, ConfirmedTwice, Cmd
<1>3. \A k \in DOMAIN stream' : \A i : BelongsTo(k, i)' <=> BelongsTo(k + 1, i)
    BY <1>1 DEF BelongsTo
<1>4. ExecutedAnswered'
    <2> SUFFICES ASSUME NEW i \in 1..Executed
                 PROVE  \E k \in DOMAIN stream' : BelongsTo(k, i)'
        BY <1>2 DEF ExecutedAnswered
    <2>1. PICK k \in DOMAIN stream : BelongsTo(k, i)
        BY DEF Aligned, ExecutedAnswered
    <2>2. k - 1 \in DOMAIN stream' /\ (k - 1) + 1 = k
        BY <1>1, <2>1 DEF BelongsTo
    <2>3. BelongsTo(k - 1, i)' <=> BelongsTo((k - 1) + 1, i)
        BY <1>3, <2>2
    <2> QED
        BY <2>1, <2>2, <2>3
<1>5. RepliesOrdered'
    <2>1. \A j, k \in Nat : j < k => j + 1 < k + 1
        OBVIOUS
    <2>2. \A j, k \in DOMAIN stream' : \A i, l \in 1..Executed :
              j < k /\ BelongsTo(j + 1, i) /\ BelongsTo(k + 1, l)
              => i < l \/ (i = l /\ ConfirmedTwice(running[i]))
        BY <1>1, <2>1 DEF Aligned, RepliesOrdered
    <2> QED
        BY <1>2, <1>3, <2>2 DEF RepliesOrdered
<1>6. RepliesExpected'
    <2> SUFFICES ASSUME NEW k \in DOMAIN stream', ReplyAt(k)'
                 PROVE  \/ running = <<>> /\ ConfirmedTwice(stream'[k].id)
                        \/ \E i \in 1..Executed : BelongsTo(k, i)'
        BY <1>2 DEF RepliesExpected
    <2>1. \/ running = <<>> /\ ConfirmedTwice(stream[k + 1].id)
          \/ \E i \in 1..Executed : BelongsTo(k + 1, i)
        BY <1>1 DEF Aligned, RepliesExpected
    <2> QED
        BY <1>1, <1>3, <2>1
<1>7. RequestsLast' /\ DoubtsLast'
    BY <1>2 DEF Aligned, RequestsLast, DoubtsLast
<1> QED
    BY <1>2, <1>4, <1>5, <1>6, <1>7 DEF Aligned

LEMMA UnexpectedAligned ==
    ASSUME PlaceInvariant, Aligned, stream # <<>>, stream' = Tail(stream), running = <<>>,
           UNCHANGED <<posted, running, requests>>
    PROVE  Aligned'
<1>1. /\ \A k \in DOMAIN stream' : /\ k + 1 \in DOMAIN stream /\ stream'[k] = stream[k + 1]
                                   /\ ReplyAt(k)' <=> ReplyAt(k + 1)
    BY ReadMoves
<1>2. Executed' = Executed /\ \A w : ConfirmedTwice(w)' <=> ConfirmedTwice(w)
    BY DEF Executed, ConfirmedTwice, Cmd
<1>3. 1..Executed = {}
    BY StrideTypes
<1>4. \A k \in DOMAIN stream' : ReplyAt(k)' => ConfirmedTwice(stream'[k].id)
    BY <1>1, <1>3 DEF Aligned, RepliesExpected
<1>5. RepliesExpected'
    BY <1>2, <1>4 DEF RepliesExpected
<1>6. ExecutedAnswered' /\ RepliesOrdered'
    BY <1>2, <1>3 DEF ExecutedAnswered, RepliesOrdered
<1>7. RequestsLast' /\ DoubtsLast'
    BY <1>2 DEF Aligned, RequestsLast, DoubtsLast
<1> QED
    BY <1>2, <1>5, <1>6, <1>7 DEF Aligned

LEMMA CompleteAligned ==
    ASSUME PlaceInvariant, Aligned, stream # <<>>, stream' = Tail(stream), ReplyAt(1),
           running # <<>>, running' = Tail(running), UNCHANGED <<posted, requests>>
    PROVE  Aligned'
<1> DEFINE m == Executed
<1>1. /\ 1 \in DOMAIN stream /\ \A k \in DOMAIN stream : k \in Nat
      /\ \A k \in DOMAIN stream' : /\ k \in Nat /\ k + 1 \in DOMAIN stream /\ k + 1 # 1
                                   /\ stream'[k] = stream[k + 1]
                                   /\ ReplyAt(k)' <=> ReplyAt(k + 1)
      /\ \A k \in DOMAIN stream : k # 1 => k - 1 \in DOMAIN stream' /\ (k - 1) + 1 = k
    BY ReadMoves
<1>2. BelongsTo(1, 1) /\ 1 \in 1..m
    <2>1. \A j \in DOMAIN stream : ~(j < 1)
        BY StrideTypes
    <2> QED
        BY <1>1, <2>1, FirstReply
<1>3. /\ Len(running) \in Nat \ {0} /\ DOMAIN running = 1..Len(running)
      /\ running' \in Seq(Ids)
      /\ Len(running') = Len(running) - 1 /\ DOMAIN running' = 1..(Len(running) - 1)
      /\ \A k \in DOMAIN running' : k + 1 \in DOMAIN running /\ running'[k] = running[k + 1]
    BY PlaceTypes, TailFacts, SeqFacts
<1>4. /\ m \in Nat \ {0} /\ Executed' = m - 1 /\ m <= Len(running) /\ 1..m \subseteq DOMAIN running
      /\ Len(requests) \in Nat /\ m + Len(requests) = Len(running) /\ DOMAIN requests = 1..Len(requests)
    <2>1. /\ Executed \in Nat /\ Executed <= Len(running) /\ 1..Executed \subseteq DOMAIN running
          /\ Len(requests) \in Nat /\ DOMAIN requests = 1..Len(requests)
        BY StrideTypes
    <2>2. m # 0
        BY <1>2, <2>1
    <2>3. Executed = Len(running) - Len(requests) /\ Executed' = Len(running') - Len(requests)
        BY DEF Executed
    <2>4. Executed' = m - 1 /\ m + Len(requests) = Len(running)
        BY <1>3, <2>1, <2>3
    <2> QED
        BY <2>1, <2>2, <2>4
<1> HIDE DEF m
<1>5. \A i \in 1..(m - 1) : i + 1 \in 1..m /\ i + 1 # 1 /\ running'[i] = running[i + 1]
    <2>1. \A i \in 1..(m - 1) : i + 1 \in 1..m /\ i + 1 # 1 /\ i \in DOMAIN running'
        BY <1>3, <1>4
    <2> QED
        BY <1>3, <2>1
<1>6. \A w : ConfirmedTwice(w)' <=> ConfirmedTwice(w)
    BY DEF ConfirmedTwice, Cmd
<1>7. \A i, l \in DOMAIN running : running[i] = running[l] => i = l
    BY StrideTypes
<1>8. \A k \in DOMAIN stream', i \in 1..(m - 1) : BelongsTo(k, i)' <=> BelongsTo(k + 1, i + 1)
    BY <1>1, <1>5 DEF BelongsTo
<1>9. RequestsLast'
    <2> SUFFICES ASSUME NEW k \in DOMAIN requests PROVE requests[k] = running'[(m - 1) + k]
        BY <1>4 DEF RequestsLast
    <2>1. requests[k] = running[m + k]
        BY DEF Aligned, RequestsLast, m
    <2>2. (m - 1) + k \in DOMAIN running' /\ ((m - 1) + k) + 1 = m + k
        BY <1>3, <1>4
    <2>3. running'[(m - 1) + k] = running[((m - 1) + k) + 1]
        BY <1>3, <2>2
    <2> QED
        BY <2>1, <2>2, <2>3
<1>10. DoubtsLast'
    <2> SUFFICES ASSUME NEW i \in DOMAIN running', ConfirmedTwice(running'[i]) PROVE i = Len(running')
        BY <1>6 DEF DoubtsLast
    <2>1. i + 1 = Len(running)
        BY <1>3 DEF Aligned, DoubtsLast
    <2> QED
        BY <1>3, <2>1
<1>11. ASSUME NEW k \in DOMAIN stream', ReplyAt(k)'
       PROVE  \/ running' = <<>> /\ ConfirmedTwice(stream'[k].id)
              \/ \E i \in 1..(m - 1) : BelongsTo(k, i)'
    <2>1. PICK i \in 1..m : BelongsTo(k + 1, i)
        BY <1>1, <1>11 DEF Aligned, RepliesExpected, m
    <2>2. CASE i = 1
        <3>1. 1 < k + 1 /\ k + 1 \in DOMAIN stream
            BY <1>1
        <3>2. ConfirmedTwice(running[1])
            <4>1. 1 < 1 \/ (1 = 1 /\ ConfirmedTwice(running[1]))
                BY <1>1, <1>2, <2>1, <2>2, <3>1 DEF Aligned, RepliesOrdered, m
            <4> QED
                BY <4>1
        <3>3. Len(running) = 1
            BY <1>2, <1>4, <3>2 DEF Aligned, DoubtsLast
        <3>4. running' = <<>>
            BY <1>3, <3>3, EmptySeq
        <3>5. stream'[k].id = running[1]
            BY <1>1, <2>1, <2>2 DEF BelongsTo
        <3> QED
            BY <3>2, <3>4, <3>5
    <2>3. CASE i # 1
        <3>1. i - 1 \in 1..(m - 1) /\ (i - 1) + 1 = i
            BY <1>4, <2>3
        <3>2. BelongsTo(k, i - 1)' <=> BelongsTo(k + 1, (i - 1) + 1)
            BY <1>8, <3>1
        <3> QED
            BY <2>1, <3>1, <3>2
    <2> QED
        BY <2>2, <2>3
<1>12. ASSUME NEW i \in 1..(m - 1)
       PROVE  \E k \in DOMAIN stream' : BelongsTo(k, i)'
    <2>1. i + 1 \in 1..m /\ i + 1 # 1
        BY <1>5
    <2>2. PICK k \in DOMAIN stream : BelongsTo(k, i + 1)
        BY <2>1 DEF Aligned, ExecutedAnswered, m
    <2>3. k # 1
        BY <1>2, <1>4, <1>7, <2>1, <2>2 DEF BelongsTo
    <2>4. k - 1 \in DOMAIN stream' /\ (k - 1) + 1 = k
        BY <1>1, <2>3
    <2>5. BelongsTo(k - 1, i)' <=> BelongsTo((k - 1) + 1, i + 1)
        BY <1>8, <2>4
    <2> QED
        BY <2>2, <2>4, <2>5
<1>13. ASSUME NEW j \in DOMAIN stream', NEW k \in DOMAIN stream', NEW i \in 1..(m - 1), NEW l \in 1..(m - 1),
              j < k, BelongsTo(j, i)', BelongsTo(k, l)'
       PROVE  i < l \/ (i = l /\ ConfirmedTwice(running'[i]))
    <2>1. j + 1 < k + 1 /\ j + 1 \in DOMAIN stream /\ k + 1 \in DOMAIN stream
        BY <1>1, <1>13
    <2>2. BelongsTo(j + 1, i + 1) /\ BelongsTo(k + 1, l + 1) /\ i + 1 \in 1..m /\ l + 1 \in 1..m
        BY <1>5, <1>8, <1>13
    <2>3. i + 1 < l + 1 \/ (i + 1 = l + 1 /\ ConfirmedTwice(running[i + 1]))
        BY <2>1, <2>2 DEF Aligned, RepliesOrdered, m
    <2>4. i + 1 < l + 1 => i < l
        BY <1>4
    <2>5. i + 1 = l + 1 => i = l
        BY <1>4
    <2> QED
        BY <1>5, <2>3, <2>4, <2>5
<1>14. Executed' = m - 1 /\ m - 1 >= 0
    BY <1>4
<1>15. RepliesExpected'
    BY <1>6, <1>11, <1>14 DEF RepliesExpected
<1>16. ExecutedAnswered'
    BY <1>12, <1>14 DEF ExecutedAnswered
<1>17. RepliesOrdered'
    <2>1. (1..Executed)' = 1..(m - 1)
        BY <1>14
    <2> SUFFICES ASSUME NEW j \in DOMAIN stream', NEW k \in DOMAIN stream',
                        NEW i \in (1..Executed)', NEW l \in (1..Executed)',
                        (j < k /\ BelongsTo(j, i) /\ BelongsTo(k, l))'
                 PROVE  (i < l \/ (i = l /\ ConfirmedTwice(running[i])))'
        BY DEF RepliesOrdered
    <2>2. i < l \/ (i = l /\ ConfirmedTwice(running'[i]))
        BY <1>13, <2>1
    <2> QED
        BY <1>6, <2>2
<1> QED
    BY <1>9, <1>10, <1>14, <1>15, <1>16, <1>17 DEF Aligned

LEMMA ServerAligned == ASSUME PlaceInvariant, Aligned, ServerExecutes PROVE Aligned'
<1> DEFINE id == requests[1]
           n == Confirmations(Cmd(id))
           m == Executed
           s == Len(stream)
<1>1. posted' = posted /\ running' = running
    BY DEF ServerExecutes, ServerStep, callerVars, threadVars
<1>2. /\ n \in Nat \ {0} /\ (~ConfirmedTwice(id) => n = 1)
      /\ requests # <<>> /\ requests' = Tail(requests) /\ s \in Nat
      /\ DOMAIN stream = 1..s /\ DOMAIN stream' = 1..(s + n)
      /\ \A k \in DOMAIN stream : stream'[k] = stream[k]
      /\ \A k \in 1..n : stream'[s + k].type = "reply" /\ stream'[s + k].id = id
    BY Answers
<1> HIDE DEF n
<1>3. /\ 1 \in DOMAIN requests /\ Len(requests) \in Nat \ {0} /\ Len(requests') = Len(requests) - 1
      /\ \A k \in DOMAIN requests' : k + 1 \in DOMAIN requests /\ requests'[k] = requests[k + 1]
    BY <1>2, PlaceTypes, TailFacts
<1>4. m \in Nat /\ m + Len(requests) = Len(running) /\ Len(running) \in Nat /\ DOMAIN running = 1..Len(running)
      /\ \A i \in 1..m : i \in DOMAIN running
    BY <1>3, StrideTypes DEF Executed
<1>5. Executed' = m + 1 /\ m + 1 \in DOMAIN running /\ m + 1 \in 1..(m + 1)
    <2>1. Executed' = Len(running) - Len(requests')
        BY <1>1 DEF Executed
    <2> QED
        BY <1>3, <1>4, <2>1
<1>6. id = running[m + 1]
    BY <1>3 DEF Aligned, RequestsLast
<1> HIDE DEF m, s, id
<1>7. \A i, l \in DOMAIN running : running[i] = running[l] => i = l
    BY StrideTypes
<1>8. \A w : ConfirmedTwice(w)' <=> ConfirmedTwice(w)
    BY <1>1 DEF ConfirmedTwice, Cmd
<1>9. \A i : \A k \in DOMAIN stream : BelongsTo(k, i)' <=> BelongsTo(k, i)
    BY <1>1, <1>2 DEF BelongsTo, ReplyAt
<1>10. \A i \in 1..(m + 1) : i \in DOMAIN running /\ (i \in 1..m \/ i = m + 1)
    BY <1>4, <1>5
\* A reply that was there, or one of those that were sent.
<1>11. \A k \in DOMAIN stream' :
           \/ k \in DOMAIN stream
           \/ s < k /\ stream'[k].type = "reply" /\ stream'[k].id = running[m + 1]
    <2> SUFFICES ASSUME NEW k \in DOMAIN stream', k \notin DOMAIN stream
                 PROVE  s < k /\ stream'[k].type = "reply" /\ stream'[k].id = running[m + 1]
        OBVIOUS
    <2>1. s < k /\ k - s \in 1..n /\ s + (k - s) = k
        BY <1>2
    <2>2. stream'[s + (k - s)].type = "reply" /\ stream'[s + (k - s)].id = id
        BY <1>2, <2>1
    <2> QED
        BY <1>6, <2>1, <2>2
<1>12. \A i : \A k \in DOMAIN stream' :
           BelongsTo(k, i)' <=> stream'[k].type = "reply" /\ stream'[k].id = running[i]
    BY <1>1 DEF BelongsTo, ReplyAt
<1>13. \A k \in DOMAIN stream : \A i \in 1..(m + 1) : BelongsTo(k, i) => i \in 1..m
    <2> SUFFICES ASSUME NEW k \in DOMAIN stream, BelongsTo(k, m + 1) PROVE m + 1 \in 1..m
        BY <1>10
    <2>1. running # <<>>
        BY <1>4, <1>5
    <2>2. PICK i \in 1..m : BelongsTo(k, i)
        BY <2>1 DEF Aligned, RepliesExpected, BelongsTo, m
    <2> QED
        BY <1>4, <1>5, <1>7, <2>2 DEF BelongsTo
<1>14. RequestsLast'
    <2> SUFFICES ASSUME NEW k \in DOMAIN requests' PROVE requests'[k] = running[(m + 1) + k]
        BY <1>1, <1>5 DEF RequestsLast
    <2>1. requests[k + 1] = running[m + (k + 1)]
        BY <1>3 DEF Aligned, RequestsLast, m
    <2>2. k \in Int
        BY <1>2, PlaceTypes, TailFacts
    <2>3. m + (k + 1) = (m + 1) + k
        BY <1>4, <2>2
    <2> QED
        BY <1>3, <2>1, <2>3
<1>15. DoubtsLast'
    BY <1>1, <1>8 DEF Aligned, DoubtsLast
<1>16. RepliesExpected'
    <2> SUFFICES ASSUME NEW k \in DOMAIN stream', ReplyAt(k)'
                 PROVE  \E i \in 1..(m + 1) : BelongsTo(k, i)'
        BY <1>5 DEF RepliesExpected
    <2>1. CASE k \in DOMAIN stream
        <3>1. ReplyAt(k)
            BY <1>2, <2>1 DEF ReplyAt
        <3>2. PICK i \in 1..m : BelongsTo(k, i)
            BY <1>4, <1>5, <2>1, <3>1 DEF Aligned, RepliesExpected, m
        <3>3. i \in 1..(m + 1)
            BY <1>4
        <3> QED
            BY <1>9, <2>1, <3>2, <3>3
    <2>2. CASE k \notin DOMAIN stream
        BY <1>5, <1>11, <1>12, <2>2
    <2> QED
        BY <2>1, <2>2
<1>17. ExecutedAnswered'
    <2> SUFFICES ASSUME NEW i \in 1..(m + 1) PROVE \E k \in DOMAIN stream' : BelongsTo(k, i)'
        BY <1>5 DEF ExecutedAnswered
    <2>1. CASE i \in 1..m
        <3>1. PICK k \in DOMAIN stream : BelongsTo(k, i)
            BY <2>1 DEF Aligned, ExecutedAnswered, m
        <3>2. k \in DOMAIN stream'
            BY <1>2
        <3> QED
            BY <1>9, <3>1, <3>2
    <2>2. CASE i = m + 1
        <3>1. s + 1 \in DOMAIN stream' /\ s + 1 \notin DOMAIN stream
            BY <1>2
        <3> QED
            BY <1>11, <1>12, <2>2, <3>1
    <2> QED
        BY <1>10, <2>1, <2>2
<1>18. RepliesOrdered'
    <2> SUFFICES ASSUME NEW j \in DOMAIN stream', NEW k \in DOMAIN stream',
                        NEW i \in 1..(m + 1), NEW l \in 1..(m + 1),
                        j < k, BelongsTo(j, i)', BelongsTo(k, l)'
                 PROVE  i < l \/ (i = l /\ ConfirmedTwice(running[i]))
        BY <1>1, <1>5, <1>8 DEF RepliesOrdered
    <2>1. CASE k \in DOMAIN stream
        <3>1. j \in DOMAIN stream
            BY <1>2, <2>1
        <3>2. BelongsTo(j, i) /\ BelongsTo(k, l) /\ i \in 1..m /\ l \in 1..m
            BY <1>9, <1>13, <2>1, <3>1
        <3> QED
            BY <2>1, <3>1, <3>2 DEF Aligned, RepliesOrdered, m
    <2>2. CASE k \notin DOMAIN stream
        <3>1. running[l] = running[m + 1]
            BY <1>11, <1>12, <2>2
        <3>2. l = m + 1
            BY <1>5, <1>7, <1>10, <3>1
        <3>3. CASE j \in DOMAIN stream
            <4>1. i \in 1..m
                BY <1>9, <1>13, <3>3
            <4> QED
                BY <1>4, <3>2, <4>1
        <3>4. CASE j \notin DOMAIN stream
            <4>1. running[i] = running[m + 1]
                BY <1>11, <1>12, <3>4
            <4>2. i = m + 1
                BY <1>5, <1>7, <1>10, <4>1
            <4>3. n # 1
                BY <1>2, <2>2, <3>4
            <4> QED
                BY <1>2, <1>6, <3>2, <4>2, <4>3
        <3> QED
            BY <3>3, <3>4
    <2> QED
        BY <2>1, <2>2
<1>19. Executed' >= 0
    BY <1>4, <1>5
<1> QED
    BY <1>14, <1>15, <1>16, <1>17, <1>18, <1>19 DEF Aligned

LEMMA PublishAligned == ASSUME PlaceInvariant, Aligned, Publish PROVE Aligned'
<1> DEFINE s == Len(stream)
<1>1. UNCHANGED <<posted, running, requests>>
    BY DEF Publish, ServerStep, callerVars, threadVars
<1>2. /\ s \in Nat /\ DOMAIN stream = 1..s /\ DOMAIN stream' = 1..(s + 1)
      /\ \A k \in DOMAIN stream : stream'[k] = stream[k]
      /\ stream'[s + 1].type # "reply"
    BY Published
<1> HIDE DEF s
<1>3. /\ Executed' = Executed
      /\ \A w : ConfirmedTwice(w)' <=> ConfirmedTwice(w)
    BY <1>1 DEF Executed, ConfirmedTwice, Cmd
<1>4. \A k : ReplyAt(k)' <=> ReplyAt(k)
    <2>1. \A k \in DOMAIN stream' : k \in DOMAIN stream \/ k = s + 1
        BY <1>2
    <2>2. DOMAIN stream \subseteq DOMAIN stream'
        BY <1>2
    <2> QED
        BY <1>2, <2>1, <2>2 DEF ReplyAt
<1>5. \A k, i : BelongsTo(k, i)' <=> BelongsTo(k, i)
    BY <1>1, <1>2, <1>4 DEF BelongsTo, ReplyAt
<1>6. RepliesExpected'
    <2> SUFFICES ASSUME NEW k \in DOMAIN stream', ReplyAt(k)'
                 PROVE  \/ running = <<>> /\ ConfirmedTwice(stream'[k].id)
                        \/ \E i \in 1..Executed : BelongsTo(k, i)'
        BY <1>1, <1>3 DEF RepliesExpected
    <2>1. ReplyAt(k) /\ stream'[k] = stream[k] /\ k \in DOMAIN stream
        BY <1>2, <1>4 DEF ReplyAt
    <2> QED
        BY <1>5, <2>1 DEF Aligned, RepliesExpected
<1>7. ExecutedAnswered'
    <2>1. DOMAIN stream \subseteq DOMAIN stream'
        BY <1>2
    <2> QED
        BY <1>3, <1>5, <2>1 DEF Aligned, ExecutedAnswered
<1>8. RepliesOrdered'
    <2>1. \A k, i : BelongsTo(k, i) => k \in DOMAIN stream
        BY DEF BelongsTo, ReplyAt
    <2>2. \A j, k : \A i, l \in 1..Executed :
              j < k /\ BelongsTo(j, i) /\ BelongsTo(k, l) => i < l \/ (i = l /\ ConfirmedTwice(running[i]))
        BY <2>1 DEF Aligned, RepliesOrdered
    <2> QED
        BY <1>1, <1>3, <1>5, <2>2 DEF RepliesOrdered
<1>9. RequestsLast' /\ DoubtsLast'
    BY <1>1, <1>3 DEF Aligned, RequestsLast, DoubtsLast
<1> QED
    BY <1>3, <1>6, <1>7, <1>8, <1>9 DEF Aligned

\* A session begins with the handshake written, and nothing else.
Fresh == running = <<0>> /\ requests = <<0>> /\ stream = <<>>
LEMMA FreshAligned == Fresh => Aligned
<1> SUFFICES ASSUME running = << 0 >>, requests = << 0 >>, stream = <<>> PROVE Aligned
    BY DEF Fresh
<1>1. Executed = 0 /\ Len(running) = 1 /\ DOMAIN running = {1} /\ DOMAIN stream = {}
    BY DEF Executed
<1>2. RequestsLast /\ DoubtsLast
    BY <1>1 DEF RequestsLast, DoubtsLast
<1>3. RepliesExpected /\ ExecutedAnswered /\ RepliesOrdered
    BY <1>1 DEF RepliesExpected, ExecutedAnswered, RepliesOrdered
<1> QED
    BY <1>1, <1>2, <1>3 DEF Aligned

-----------------------------------------------------------------------------
(* Each step keeps the stride, as long as the connection is calm. *)

\* Every reply to a MONITOR that the server obeys begins the mode, and it has not.
OwnedMonitors == \A shape \in Shapes : shape.kind = "monitor" => shape.owner # NoOwner
Calm == ~disturbed /\ ~monitorMode /\ (monitoring => OwnedMonitors)

InStride == Aligned /\ FeedAfterMonitor

LEMMA CalmBefore ==
    ASSUME PlaceInvariant, [Next]_vars, ~Restart, Calm'
    PROVE  Calm
<1>1. disturbed => disturbed'
    BY DEF Next, Submit, DestroyOwner, AddCommand, CancelCommands, RunCommand, ReadNext,
           Emit, UnexpectedReply, CompleteCommand, Read, ServerExecutes, Publish, ServerStep, vars
<1>2. monitorMode => monitorMode'
    BY DEF Next, Submit, DestroyOwner, AddCommand, CancelCommands, RunCommand, ReadNext,
           Emit, UnexpectedReply, CompleteCommand, ServerExecutes, Publish, ServerStep, vars, threadVars
<1>3. monitoring => monitoring'
    BY DEF Next, Submit, DestroyOwner, AddCommand, CancelCommands, RunCommand, ReadNext,
           Emit, UnexpectedReply, CompleteCommand, Read, ServerExecutes, Publish, vars, serverVars
<1>4. OwnedMonitors' <=> OwnedMonitors
    BY DEF OwnedMonitors
<1> QED
    BY <1>1, <1>2, <1>3, <1>4 DEF Calm

\* The stream and what is running stay, or grow behind.
LEMMA FeedKept ==
    ASSUME PlaceInvariant, FeedAfterMonitor, monitoring' => monitoring,
           DOMAIN stream \subseteq DOMAIN stream', \A k \in DOMAIN stream : stream'[k] = stream[k],
           \A k \in DOMAIN stream' : stream'[k].type = "feed" => k \in DOMAIN stream,
           DOMAIN running \subseteq DOMAIN running', \A i \in DOMAIN running : running'[i] = running[i],
           \A id \in Ids : Cmd(id)' = Cmd(id)
    PROVE  FeedAfterMonitor'
<1>1. \A k : MonitorAt(k) => MonitorAt(k)'
    <2> SUFFICES ASSUME NEW k, MonitorAt(k) PROVE MonitorAt(k)'
        OBVIOUS
    <2>1. k \in DOMAIN stream /\ stream'[k] = stream[k] /\ ReplyAt(k) /\ stream[k].id \in Ids
        BY DEF MonitorAt, ReplyAt, PlaceInvariant, StreamTypes
    <2>2. ReplyAt(k)'
        BY <2>1 DEF ReplyAt
    <2>3. \E i \in DOMAIN running' : running'[i] = stream'[k].id
        BY <2>1 DEF MonitorAt
    <2>4. Cmd(stream[k].id)' = Cmd(stream[k].id)
        BY <2>1
    <2> QED
        BY <2>1, <2>2, <2>3 DEF MonitorAt
<1>2. \A k : MonitorAt(k) => k \in DOMAIN stream
    BY DEF MonitorAt, ReplyAt
<1> QED
    BY <1>1, <1>2 DEF FeedAfterMonitor

\* An item other than the reply to MONITOR is read.
LEMMA FeedMoves ==
    ASSUME PlaceInvariant, FeedAfterMonitor, stream # <<>>, stream' = Tail(stream),
           UNCHANGED <<posted, monitoring>>,
           \A k \in DOMAIN stream : MonitorAt(k) => k # 1 /\ \E i \in DOMAIN running' : running'[i] = stream[k].id
    PROVE  FeedAfterMonitor'
<1>1. /\ \A k \in DOMAIN stream' : /\ k \in Nat /\ k + 1 \in DOMAIN stream /\ k + 1 # 1
                                   /\ stream'[k] = stream[k + 1]
                                   /\ ReplyAt(k)' <=> ReplyAt(k + 1)
      /\ \A k \in DOMAIN stream : k # 1 => k - 1 \in DOMAIN stream' /\ (k - 1) + 1 = k
      /\ \A k \in DOMAIN stream : k \in Nat
    BY ReadMoves
<1>2. \A k : MonitorAt(k) => k \in DOMAIN stream
    BY DEF MonitorAt, ReplyAt
<1>3. \A w : Cmd(w)' = Cmd(w)
    BY DEF Cmd
<1>4. ASSUME NEW k \in DOMAIN stream, MonitorAt(k)
      PROVE  k - 1 \in DOMAIN stream' /\ k \in Nat /\ MonitorAt(k - 1)'
    <2> DEFINE j == k - 1
    <2>1. j \in DOMAIN stream' /\ j + 1 = k /\ k \in Nat
        BY <1>1, <1>4
    <2> HIDE DEF j
    <2>2. stream'[j] = stream[k] /\ (ReplyAt(j)' <=> ReplyAt(k))
        BY <1>1, <2>1
    <2>3. \E i \in DOMAIN running' : running'[i] = stream'[j].id
        BY <1>4, <2>2
    <2> QED
        BY <1>3, <1>4, <2>1, <2>2, <2>3 DEF MonitorAt, j
<1>5. monitoring' => \E k \in DOMAIN stream' : MonitorAt(k)'
    BY <1>4 DEF FeedAfterMonitor
<1>6. ASSUME NEW j \in DOMAIN stream', stream'[j].type = "feed"
      PROVE  \E k \in DOMAIN stream' : k < j /\ MonitorAt(k)'
    <2>1. PICK k \in DOMAIN stream : k < j + 1 /\ MonitorAt(k)
        BY <1>1, <1>6 DEF FeedAfterMonitor
    <2>2. k - 1 < j
        BY <1>1, <2>1
    <2> QED
        BY <1>4, <2>1, <2>2
<1> QED
    BY <1>5, <1>6 DEF FeedAfterMonitor

LEMMA ReadStride ==
    ASSUME PlaceInvariant, InStride, ReadNext, Calm, Calm'
    PROVE  InStride'
<1>1. /\ stream # <<>> /\ stream' = Tail(stream) /\ posted' = posted /\ requests' = requests
      /\ monitoring' = monitoring /\ ~monitorMode /\ ~monitorMode'
    BY DEF ReadNext, Emit, UnexpectedReply, CompleteCommand, Read, Calm, callerVars, serverVars
<1>2. /\ 1 \in DOMAIN stream /\ Head(stream) = stream[1] /\ stream[1] \in Item
      /\ \A k \in DOMAIN stream : ~(k < 1)
    <2>1. \A k \in DOMAIN stream : k \in Nat /\ k # 0
        BY PlaceTypes, SeqFacts
    <2> QED
        BY <1>1, <2>1, ReadMoves, PlaceTypes, SeqFacts
<1>3. stream[1].type # "feed"
    BY <1>2 DEF InStride, FeedAfterMonitor
<1>4. CASE Emit
    <2>1. running' = running /\ stream[1].type = "message"
        BY <1>1, <1>2, <1>4 DEF Emit, IsMessage
    <2>2. ~ReplyAt(1)
        BY <2>1 DEF ReplyAt
    <2>3. Aligned'
        BY <1>1, <2>1, <2>2, MessageAligned DEF InStride
    <2>4. FeedAfterMonitor'
        BY <1>1, <2>1, <2>2, FeedMoves DEF InStride, MonitorAt
    <2> QED
        BY <2>3, <2>4 DEF InStride
<1>5. CASE UnexpectedReply
    <2>1. running' = running /\ running = <<>>
        BY <1>5 DEF UnexpectedReply
    <2>2. Aligned'
        BY <1>1, <2>1, UnexpectedAligned DEF InStride
    <2>3. \A k : ~MonitorAt(k)
        BY <2>1 DEF MonitorAt
    <2>4. FeedAfterMonitor'
        BY <1>1, <2>3, FeedMoves DEF InStride
    <2> QED
        BY <2>2, <2>4 DEF InStride
<1>6. CASE CompleteCommand
    <2>1. running # <<>> /\ running' = Tail(running) /\ stream[1].type # "message"
        BY <1>2, <1>6 DEF CompleteCommand, Dequeue, IsMessage
    <2>2. ReplyAt(1)
        BY <1>2, <1>3, <2>1 DEF ReplyAt, Item
    <2>3. Aligned'
        BY <1>1, <2>1, <2>2, CompleteAligned DEF InStride
    <2>4. stream[1].id = running[1]
        BY <1>2, <2>1, <2>2, FirstReply DEF InStride, BelongsTo
    <2>5. /\ 1 \in DOMAIN running /\ Head(running) = running[1]
          /\ \A i \in DOMAIN running : i # 1 => i - 1 \in DOMAIN running' /\ running'[i - 1] = running[i]
        <3>1. /\ 1 \in DOMAIN running /\ Head(running) = running[1] /\ DOMAIN running = 1..Len(running)
              /\ \A i \in DOMAIN running' : running'[i] = running[i + 1]
              /\ \A i \in DOMAIN running : i # 1 => i - 1 \in DOMAIN running'
            BY <2>1, PlaceTypes, TailFacts, SeqFacts
        <3>2. \A i \in DOMAIN running : (i - 1) + 1 = i
            BY <3>1
        <3> QED
            BY <3>1, <3>2
    <2>6. ~(Cmd(running[1]).kind = "monitor" /\ Cmd(running[1]).owner # NoOwner)
        BY <1>1, <1>6, <2>5 DEF CompleteCommand
    <2>7. ASSUME NEW k \in DOMAIN stream, MonitorAt(k)
          PROVE  k # 1 /\ \E i \in DOMAIN running' : running'[i] = stream[k].id
        <3>1. PICK i \in DOMAIN running : running[i] = stream[k].id
            BY <2>7 DEF MonitorAt
        <3>2. i # 1 /\ k # 1
            BY <2>4, <2>6, <2>7, <3>1 DEF MonitorAt
        <3> QED
            BY <2>5, <3>1, <3>2
    <2>8. FeedAfterMonitor'
        BY <1>1, <2>7, FeedMoves DEF InStride
    <2> QED
        BY <2>3, <2>8 DEF InStride
<1> QED
    BY <1>4, <1>5, <1>6 DEF ReadNext

LEMMA ServerStride ==
    ASSUME PlaceInvariant, InStride, ServerExecutes, Calm'
    PROVE  InStride'
<1> DEFINE id == requests[1]
<1>1. Aligned'
    BY ServerAligned DEF InStride
<1>2. /\ posted' = posted /\ running' = running /\ UNCHANGED <<posted, running>>
      /\ Len(stream) \in Nat /\ DOMAIN stream \subseteq DOMAIN stream'
      /\ \A k \in DOMAIN stream : stream'[k] = stream[k]
      /\ Len(stream) + 1 \in DOMAIN stream'
      /\ stream'[Len(stream) + 1].type = "reply" /\ stream'[Len(stream) + 1].id = id
      /\ \A k \in DOMAIN stream' : k \in DOMAIN stream \/ stream'[k].type = "reply"
    <2> DEFINE n == Confirmations(Cmd(id))
               s == Len(stream)
    <2>1. posted' = posted /\ running' = running
        BY DEF ServerExecutes, ServerStep, callerVars, threadVars
    <2>2. /\ n \in Nat \ {0} /\ s \in Nat /\ DOMAIN stream = 1..s /\ DOMAIN stream' = 1..(s + n)
          /\ \A k \in DOMAIN stream : stream'[k] = stream[k]
          /\ \A k \in 1..n : stream'[s + k].type = "reply" /\ stream'[s + k].id = id
        BY Answers
    <2> HIDE DEF n, s, id
    <2>3. DOMAIN stream \subseteq DOMAIN stream' /\ 1 \in 1..n /\ s + 1 \in DOMAIN stream'
        BY <2>2
    <2>4. \A k \in DOMAIN stream' : k \in DOMAIN stream \/ (k - s \in 1..n /\ s + (k - s) = k)
        BY <2>2
    <2>5. \A k \in DOMAIN stream' : k \in DOMAIN stream \/ stream'[k].type = "reply"
        BY <2>2, <2>4
    <2> QED
        BY <2>1, <2>2, <2>3, <2>5 DEF s
<1>3. \A w : Cmd(w)' = Cmd(w)
    BY <1>2 DEF Cmd
<1>4. \A k \in DOMAIN stream' : stream'[k].type = "feed" => k \in DOMAIN stream
    BY <1>2
<1>5. \A k : MonitorAt(k) => k \in DOMAIN stream /\ MonitorAt(k)'
    BY <1>2, <1>3 DEF MonitorAt, ReplyAt
<1>6. monitoring' => \E k \in DOMAIN stream' : MonitorAt(k)'
    <2>1. CASE monitoring
        BY <1>2, <1>5, <2>1 DEF InStride, FeedAfterMonitor
    <2>2. CASE ~monitoring /\ monitoring'
        <3>1. requests # <<>> /\ Head(requests) = id /\ id \in Ids /\ 1 \in DOMAIN requests
            BY PlaceTypes, TailFacts, SeqFacts DEF ServerExecutes
        <3>2. Cmd(id).kind = "monitor"
            BY <2>2, <3>1 DEF ServerExecutes
        <3>3. Cmd(id).owner # NoOwner
            <4>1. id # 0
                BY <3>2 DEF Cmd, Command0
            <4>2. Cmd(id) \in Shapes
                BY <3>1, <4>1, PlaceTypes, SeqFacts DEF Cmd, Ids, Posted
            <4>3. OwnedMonitors
                BY <2>2 DEF Calm, OwnedMonitors
            <4> QED
                BY <3>2, <4>2, <4>3 DEF OwnedMonitors
        <3>4. \E i \in DOMAIN running : running[i] = id
            BY <3>1, StrideTypes DEF InStride, Aligned, RequestsLast
        <3>5. PICK k \in DOMAIN stream' : stream'[k].type = "reply" /\ stream'[k].id = id
            BY <1>2
        <3> HIDE DEF id
        <3>6. MonitorAt(k)'
            BY <1>2, <1>3, <3>2, <3>3, <3>4, <3>5 DEF MonitorAt, ReplyAt
        <3> QED
            BY <3>6
    <2> QED
        BY <2>1, <2>2
<1>7. FeedAfterMonitor'
    BY <1>2, <1>4, <1>5, <1>6 DEF InStride, FeedAfterMonitor
<1> QED
    BY <1>1, <1>7 DEF InStride

LEMMA PublishStride ==
    ASSUME PlaceInvariant, InStride, Publish
    PROVE  InStride'
<1>1. Aligned'
    BY PublishAligned DEF InStride
<1>2. posted' = posted /\ running' = running /\ monitoring' = monitoring
    BY DEF Publish, ServerStep, callerVars, threadVars
<1>3. /\ Len(stream) \in Nat /\ DOMAIN stream = 1..Len(stream) /\ DOMAIN stream' = 1..(Len(stream) + 1)
      /\ \A k \in DOMAIN stream : stream'[k] = stream[k]
      /\ stream'[Len(stream) + 1].type = "feed" => monitoring
    BY Published
<1>4. \A k : MonitorAt(k) => k \in DOMAIN stream /\ k \in DOMAIN stream' /\ MonitorAt(k)'
    <2>1. DOMAIN stream \subseteq DOMAIN stream' /\ \A w : Cmd(w)' = Cmd(w)
        BY <1>2, <1>3 DEF Cmd
    <2> QED
        BY <1>2, <1>3, <2>1 DEF MonitorAt, ReplyAt
<1>5. monitoring' => \E k \in DOMAIN stream' : MonitorAt(k)'
    BY <1>2, <1>4 DEF InStride, FeedAfterMonitor
<1>6. ASSUME NEW j \in DOMAIN stream', stream'[j].type = "feed"
      PROVE  \E k \in DOMAIN stream' : k < j /\ MonitorAt(k)'
    <2>1. CASE j \in DOMAIN stream
        BY <1>3, <1>4, <1>6, <2>1 DEF InStride, FeedAfterMonitor
    <2>2. CASE j = Len(stream) + 1
        <3>1. PICK k \in DOMAIN stream : MonitorAt(k)
            BY <1>3, <1>6, <2>2 DEF InStride, FeedAfterMonitor
        <3>2. k < j
            BY <1>3, <2>2, <3>1
        <3> QED
            BY <1>4, <3>1, <3>2
    <2>3. j \in DOMAIN stream \/ j = Len(stream) + 1
        BY <1>3
    <2> QED
        BY <2>1, <2>2, <2>3
<1>7. FeedAfterMonitor'
    BY <1>5, <1>6 DEF FeedAfterMonitor
<1> QED
    BY <1>1, <1>7 DEF InStride

\* The calls of the threads, that leave the stream.
LEMMA QuietStride ==
    ASSUME PlaceInvariant, InStride, UNCHANGED <<running, requests, stream>>, monitoring' = monitoring,
           \A id \in Ids : Cmd(id)' = Cmd(id)
    PROVE  InStride'
<1>1. running' = running /\ stream' = stream
    OBVIOUS
<1>2. Aligned'
    BY AlignedKept DEF InStride
<1>3. FeedAfterMonitor'
    BY <1>1, FeedKept DEF InStride
<1> QED
    BY <1>2, <1>3 DEF InStride

LEMMA StepStride ==
    ASSUME PlaceInvariant, Calm => InStride, [Next]_vars, Calm'
    PROVE  InStride'
<1>1. CASE Restart
    <2>1. Fresh' /\ stream' = <<>> /\ ~monitoring'
        BY <1>1 DEF Restart, NewRunning, Fresh
    <2>2. Aligned'
        BY <2>1, FreshAligned, PTL
    <2>3. FeedAfterMonitor'
        BY <2>1 DEF FeedAfterMonitor
    <2> QED
        BY <2>2, <2>3 DEF InStride
<1>2. CASE ~Restart
    <2> SUFFICES ASSUME Calm, InStride PROVE InStride'
        BY <1>2, CalmBefore
    <2>1. ASSUME NEW shape \in Shapes, Submit(shape) PROVE InStride'
        <3>1. UNCHANGED <<running, requests, stream>> /\ monitoring' = monitoring
            BY <2>1 DEF Submit, threadVars, serverVars
        <3>2. \A id \in Ids : Cmd(id)' = Cmd(id)
            <4>1. posted \in Seq(Shapes) /\ posted' = Append(posted, shape)
                BY <2>1, PlaceTypes DEF Submit
            <4>2. \A k \in DOMAIN posted : posted'[k] = posted[k] /\ DOMAIN posted = Posted
                BY <4>1, AppendFacts DEF Posted
            <4> QED
                BY <4>2, AppendFacts DEF Cmd, Ids, Posted
        <3> QED
            BY <3>1, <3>2, QuietStride
    <2>2. ASSUME UNCHANGED <<running, requests, stream>>, monitoring' = monitoring, posted' = posted
          PROVE  InStride'
        BY <2>2, QuietStride DEF Cmd
    <2>3. CASE CancelCommands
        <3>1. OwnedBy(Head(inbox).owner, running) = {} /\ running' = WithoutOwner(Head(inbox).owner, running)
            BY <2>3 DEF CancelCommands, Calm
        <3>2. running' = running
            BY <3>1, PlaceTypes, WithoutOwnerPlace
        <3> QED
            BY <2>2, <2>3, <3>2 DEF CancelCommands, callerVars, serverVars
    <2>4. CASE RunCommand
        <3>1. Aligned'
            BY <2>4, RunAligned DEF Calm, InStride
        <3>2. /\ stream' = stream /\ posted' = posted /\ monitoring' = monitoring
              /\ running' = Append(running, Head(commands)) /\ commands # <<>>
            BY <2>4 DEF RunCommand, callerVars
        <3>3. Head(commands) \in Ids
            BY <3>2, PlaceTypes, TailFacts, SeqFacts
        <3>4. /\ DOMAIN running \subseteq DOMAIN running'
              /\ \A i \in DOMAIN running : running'[i] = running[i]
            BY <3>2, <3>3, PlaceTypes, AppendFacts
        <3>5. \A id \in Ids : Cmd(id)' = Cmd(id)
            BY <3>2 DEF Cmd
        <3>6. FeedAfterMonitor'
            BY <3>2, <3>4, <3>5, FeedKept DEF InStride
        <3> QED
            BY <3>1, <3>6 DEF InStride
    <2>5. CASE \/ \E owner \in Owners : DestroyOwner(owner)
               \/ AddCommand
               \/ UNCHANGED vars
        BY <2>2, <2>5 DEF DestroyOwner, AddCommand, vars, callerVars, threadVars, serverVars
    <2> QED
        BY <1>2, <2>1, <2>3, <2>4, <2>5, ReadStride, ServerStride, PublishStride DEF Next
<1> QED
    BY <1>1, <1>2

-----------------------------------------------------------------------------
(* m_subscriptions follows the server. *)

\* A command that changes the table for a channel when it is completed, and to what.
Changes(id, c) == Cmd(id).kind \in {"subscribe", "unsubscribe"} /\ c \in Cmd(id).channels
ChangedTo(id) == IF Cmd(id).kind = "subscribe" THEN Cmd(id).owner ELSE NoOwner

\* A reply that will do that when it is read.
Sets(k, c) == Changes(stream[k].id, c) /\ \E i \in DOMAIN running : BelongsTo(k, i)

\* The table will have x for the channel when the first n items have been read.
Becomes(c, n, x) ==
    \/ x = subscriptions[c] /\ \A k \in 1..n : ~Sets(k, c)
    \/ \E j \in 1..n : /\ Sets(j, c) /\ x = ChangedTo(stream[j].id)
                       /\ \A k \in 1..n : k > j /\ Sets(k, c) => stream[k].id = stream[j].id

InTable(x, owner) == x = owner \/ (x = NoOwner /\ owner \in destroyed)

\* When all that the server has sent is read, the table is as the server has it.
TableFollows ==
    \A c \in Channels, n \in Nat, x \in Owners \union {NoOwner} : n = Len(stream) /\ Becomes(c, n, x) =>
        InTable(x, subscriber[c]) \/ (subscriber[c] = NoOwner /\ BareUnsubscribe)
\* When a message is read, the table is as the server had it.
MessagesFollow ==
    \A k \in DOMAIN stream, x \in Owners \union {NoOwner} :
        stream[k].type = "message" /\ Becomes(stream[k].channel, k, x) => InTable(x, stream[k].to)

Following == TableFollows /\ MessagesFollow

LEMMA RepliesKnown ==
    ASSUME PlaceInvariant
    PROVE  /\ \A k : ReplyAt(k) => k \in DOMAIN stream /\ stream[k].id \in Ids
           /\ \A k, c : Sets(k, c) => ReplyAt(k) /\ k \in DOMAIN stream /\ stream[k].id \in Ids
BY DEF PlaceInvariant, StreamTypes, ReplyAt, Sets, BelongsTo

\* The first n items stay, and set what they did.
LEMMA BecomesKept ==
    ASSUME NEW c, NEW n \in Nat, NEW x, subscriptions'[c] = subscriptions[c],
           \A k \in 1..n : /\ Sets(k, c)' <=> Sets(k, c)
                           /\ Sets(k, c) => /\ stream'[k].id = stream[k].id
                                            /\ ChangedTo(stream[k].id)' = ChangedTo(stream[k].id),
           Becomes(c, n, x)'
    PROVE  Becomes(c, n, x)
<1>1. CASE x = subscriptions'[c] /\ \A k \in 1..n : ~Sets(k, c)'
    BY <1>1 DEF Becomes
<1>2. CASE ~(x = subscriptions'[c] /\ \A k \in 1..n : ~Sets(k, c)')
    <2>1. PICK j \in 1..n : /\ Sets(j, c)' /\ x = ChangedTo(stream[j].id)'
                            /\ \A k \in 1..n : k > j /\ Sets(k, c)' => stream'[k].id = stream'[j].id
        BY <1>2 DEF Becomes
    <2>2. Sets(j, c) /\ x = ChangedTo(stream[j].id)
        BY <2>1
    <2>3. \A k \in 1..n : k > j /\ Sets(k, c) => stream[k].id = stream[j].id
        BY <2>1, <2>2
    <2> QED
        BY <2>2, <2>3 DEF Becomes
<1> QED
    BY <1>1, <1>2

\* The last item sets nothing.
LEMMA BecomesShorter ==
    ASSUME NEW c, NEW n \in Nat, NEW m \in Nat, NEW x, n <= m,
           \A k \in 1..m : k \notin 1..n => ~Sets(k, c),
           Becomes(c, m, x)
    PROVE  Becomes(c, n, x)
<1>1. 1..n \subseteq 1..m
    OBVIOUS
<1> QED
    BY <1>1 DEF Becomes

\* The stream and what runs stay, or grow behind.
LEMMA SetsKept ==
    ASSUME PlaceInvariant, NEW k \in DOMAIN stream, NEW c, stream'[k] = stream[k], k \in DOMAIN stream',
           DOMAIN running \subseteq DOMAIN running', \A i \in DOMAIN running : running'[i] = running[i],
           \A i \in DOMAIN running' : i \in DOMAIN running \/ ~Written(running'[i]),
           \A id \in Ids : Cmd(id)' = Cmd(id)
    PROVE  /\ Sets(k, c)' <=> Sets(k, c)
           /\ Sets(k, c) => stream'[k].id = stream[k].id /\ ChangedTo(stream[k].id)' = ChangedTo(stream[k].id)
<1>1. CASE ReplyAt(k)
    <2>1. ReplyAt(k)' /\ stream'[k].id = stream[k].id /\ stream[k].id \in Ids
        BY <1>1, RepliesKnown DEF ReplyAt
    <2>2. Cmd(stream[k].id)' = Cmd(stream[k].id)
        BY <2>1
    <2>3. ChangedTo(stream[k].id)' = ChangedTo(stream[k].id)
        BY <2>2 DEF ChangedTo
    <2>4. \A v : Changes(stream[k].id, v)' <=> Changes(stream[k].id, v)
        BY <2>2 DEF Changes
    <2>5. Written(stream[k].id)
        BY <1>1 DEF Written, ReplyAt
    <2>6. (\E i \in DOMAIN running' : running'[i] = stream[k].id) <=> \E i \in DOMAIN running : running[i] = stream[k].id
        BY <2>5
    <2>7. (\E i \in DOMAIN running : BelongsTo(k, i))' <=> \E i \in DOMAIN running : BelongsTo(k, i)
        BY <1>1, <2>1, <2>6 DEF BelongsTo
    <2>8. Sets(k, c)' <=> Sets(k, c)
        BY <2>4, <2>7 DEF Sets
    <2> QED
        BY <2>1, <2>3, <2>8
<1>2. CASE ~ReplyAt(k)
    <2>1. ~ReplyAt(k)'
        BY <1>2 DEF ReplyAt
    <2> QED
        BY <1>2, <2>1 DEF Sets, BelongsTo
<1> QED
    BY <1>1, <1>2

\* The threads' calls, that leave the stream: the table stays or loses owners that are gone.
LEMMA QuietFollows ==
    ASSUME PlaceInvariant, Following, stream' = stream, subscriber' = subscriber,
           destroyed \subseteq destroyed', BareUnsubscribe => BareUnsubscribe',
           \A c \in Channels : \/ subscriptions'[c] = subscriptions[c]
                               \/ subscriptions'[c] = NoOwner /\ subscriptions[c] \in destroyed',
           DOMAIN running \subseteq DOMAIN running', \A i \in DOMAIN running : running'[i] = running[i],
           \A i \in DOMAIN running' : i \in DOMAIN running \/ ~Written(running'[i]),
           \A id \in Ids : Cmd(id)' = Cmd(id)
    PROVE  Following'
<1>1. Len(stream) \in Nat /\ DOMAIN stream = 1..Len(stream)
    BY PlaceTypes, SeqFacts
<1>2. subscriptions \in [Keys -> Owners \union {NoOwner}] /\ Channels \subseteq Keys
    BY DEF PlaceInvariant, OtherTypes, Keys
<1>3. \A v, w : InTable(v, w) => InTable(v, w)'
    BY DEF InTable
\* What an entry becomes now is what it became before, or was lost with its owner.
<1>4. ASSUME NEW c \in Channels, NEW n \in Nat, NEW x \in Owners \union {NoOwner}, n <= Len(stream),
             Becomes(c, n, x)', NEW owner
      PROVE  \E y \in Owners \union {NoOwner} : Becomes(c, n, y) /\ (InTable(y, owner) => InTable(x, owner)')
    <2>1. \A k \in 1..n : k \in DOMAIN stream
        BY <1>1, <1>4
    <2>2. \A k \in 1..n : /\ Sets(k, c)' <=> Sets(k, c)
                          /\ Sets(k, c) => /\ stream'[k].id = stream[k].id
                                           /\ ChangedTo(stream[k].id)' = ChangedTo(stream[k].id)
        BY <2>1, SetsKept
    <2>3. CASE subscriptions'[c] = subscriptions[c]
        BY <1>3, <1>4, <2>2, <2>3, BecomesKept
    <2>4. CASE x = subscriptions'[c] /\ (\A k \in 1..n : ~Sets(k, c)') /\ subscriptions'[c] # subscriptions[c]
        <3>1. Becomes(c, n, subscriptions[c])
            BY <2>2, <2>4 DEF Becomes
        <3>2. InTable(subscriptions[c], owner) => InTable(x, owner)'
            <4>1. x = NoOwner /\ subscriptions[c] \in destroyed' /\ subscriptions[c] # NoOwner
                BY <2>4
            <4> QED
                BY <4>1 DEF InTable
        <3> QED
            BY <1>2, <3>1, <3>2
    <2>5. CASE ~(x = subscriptions'[c] /\ \A k \in 1..n : ~Sets(k, c)')
        <3>1. PICK j \in 1..n : /\ Sets(j, c)' /\ x = ChangedTo(stream[j].id)'
                                /\ \A k \in 1..n : k > j /\ Sets(k, c)' => stream'[k].id = stream'[j].id
            BY <1>4, <2>5 DEF Becomes
        <3>2. Sets(j, c) /\ x = ChangedTo(stream[j].id)
            BY <2>2, <3>1
        <3>3. \A k \in 1..n : k > j /\ Sets(k, c) => stream[k].id = stream[j].id
            BY <2>2, <3>1, <3>2
        <3>4. Becomes(c, n, x)
            BY <3>2, <3>3 DEF Becomes
        <3> QED
            BY <1>3, <3>4
    <2> QED
        BY <2>3, <2>4, <2>5
<1>5. TableFollows'
    <2> SUFFICES ASSUME NEW c \in Channels, NEW n \in Nat, NEW x \in Owners \union {NoOwner},
                        n = Len(stream), Becomes(c, n, x)'
                 PROVE  InTable(x, subscriber[c])' \/ (subscriber[c] = NoOwner /\ BareUnsubscribe')
        BY DEF TableFollows
    <2>1. PICK y \in Owners \union {NoOwner} :
              Becomes(c, n, y) /\ (InTable(y, subscriber[c]) => InTable(x, subscriber[c])')
        <3> DEFINE owner == subscriber[c]
        <3>1. \A o : \E y \in Owners \union {NoOwner} : Becomes(c, n, y) /\ (InTable(y, o) => InTable(x, o)')
            BY <1>1, <1>4
        <3>2. subscriber'[c] = subscriber[c]
            OBVIOUS
        <3>3. \A o : o = subscriber[c] => (InTable(x, o)' <=> InTable(x, subscriber[c])')
            BY <3>2 DEF InTable
        <3> QED
            BY <3>1, <3>3
    <2> QED
        BY <2>1 DEF Following, TableFollows
<1>6. MessagesFollow'
    <2> SUFFICES ASSUME NEW k \in DOMAIN stream, NEW x \in Owners \union {NoOwner}, stream[k].type = "message",
                        Becomes(stream[k].channel, k, x)'
                 PROVE  InTable(x, stream[k].to)'
        BY DEF MessagesFollow
    <2>1. PICK c, owner : c \in Channels /\ c = stream[k].channel /\ owner = stream[k].to
        BY PlaceTypes, SeqFacts DEF Item
    <2>2. k \in Nat /\ k <= Len(stream)
        BY <1>1
    <2>3. Becomes(c, k, x)'
        BY <2>1 DEF Becomes, Sets, Changes
    <2>4. PICK y \in Owners \union {NoOwner} : Becomes(c, k, y) /\ (InTable(y, owner) => InTable(x, owner)')
        BY <1>4, <2>1, <2>2, <2>3
    <2>5. InTable(y, owner)
        BY <2>1, <2>4 DEF Following, MessagesFollow
    <2> QED
        BY <2>1, <2>4, <2>5 DEF InTable
<1> QED
    BY <1>5, <1>6 DEF Following

\* The first item is read, and the table is what it was to become by then.
LEMMA MovesFollow ==
    ASSUME PlaceInvariant, Following, stream # <<>>, stream' = Tail(stream),
           UNCHANGED <<posted, destroyed, subscriber>>,
           \A c \in Channels, n \in Nat, x \in Owners \union {NoOwner} :
               n + 1 <= Len(stream) /\ Becomes(c, n, x)' => Becomes(c, n + 1, x)
    PROVE  Following'
<1>1. /\ Len(stream) \in Nat /\ Len(stream') = Len(stream) - 1
      /\ \A k \in DOMAIN stream' : k \in Nat /\ k + 1 <= Len(stream) /\ k + 1 \in DOMAIN stream /\ stream'[k] = stream[k + 1]
    <2>1. /\ Len(stream) \in Nat /\ Len(stream') = Len(stream) - 1
          /\ DOMAIN stream' = 1..(Len(stream) - 1)
          /\ \A k \in DOMAIN stream' : k \in Nat /\ k + 1 \in DOMAIN stream /\ stream'[k] = stream[k + 1]
        BY ReadMoves
    <2>2. \A k \in DOMAIN stream' : k + 1 <= Len(stream)
        BY <2>1
    <2> QED
        BY <2>1, <2>2
<1>2. \A v, w : InTable(v, w)' <=> InTable(v, w)
    BY DEF InTable
<1>3. BareUnsubscribe' <=> BareUnsubscribe
    BY DEF BareUnsubscribe
<1>4. TableFollows'
    <2> SUFFICES ASSUME NEW c \in Channels, NEW n \in Nat, NEW x \in Owners \union {NoOwner},
                        n = Len(stream'), Becomes(c, n, x)'
                 PROVE  InTable(x, subscriber[c]) \/ (subscriber[c] = NoOwner /\ BareUnsubscribe)
        BY <1>2, <1>3 DEF TableFollows
    <2>1. n + 1 = Len(stream) /\ n + 1 \in Nat
        BY <1>1
    <2>2. Becomes(c, n + 1, x)
        BY <2>1
    <2> QED
        BY <2>1, <2>2 DEF Following, TableFollows
<1>5. MessagesFollow'
    <2> SUFFICES ASSUME NEW k \in DOMAIN stream', NEW x \in Owners \union {NoOwner},
                        stream'[k].type = "message", Becomes(stream[k].channel, k, x)'
                 PROVE  InTable(x, stream'[k].to)
        BY <1>2 DEF MessagesFollow
    <2>1. PICK j \in DOMAIN stream : j = k + 1 /\ stream'[k] = stream[j] /\ k \in Nat /\ k + 1 <= Len(stream)
        BY <1>1
    <2>2. PICK c \in Channels : c = stream'[k].channel
        BY <2>1, PlaceTypes, SeqFacts DEF Item
    <2>3. Becomes(c, k, x)'
        BY <2>2 DEF Becomes, Sets, Changes
    <2>4. Becomes(c, j, x)
        BY <2>1, <2>3
    <2> QED
        BY <2>1, <2>2, <2>4 DEF Following, MessagesFollow
<1> QED
    BY <1>4, <1>5 DEF Following

\* A message, or a reply that nobody waits for.
LEMMA IgnoredFollows ==
    ASSUME PlaceInvariant, Following, stream # <<>>, stream' = Tail(stream),
           UNCHANGED <<posted, destroyed, subscriber, running, subscriptions>>,
           \A c : ~Sets(1, c)
    PROVE  Following'
<1>1. /\ \A k \in DOMAIN stream' : /\ k \in Nat /\ k + 1 \in DOMAIN stream /\ k + 1 # 1
                                   /\ stream'[k] = stream[k + 1]
                                   /\ ReplyAt(k)' <=> ReplyAt(k + 1)
      /\ Len(stream) \in Nat /\ DOMAIN stream' = 1..(Len(stream) - 1)
    BY ReadMoves
<1>2. ASSUME NEW k \in DOMAIN stream', NEW c
      PROVE  /\ Sets(k, c)' <=> Sets(k + 1, c)
             /\ ChangedTo(stream[k].id)' = ChangedTo(stream[k + 1].id)
             /\ stream'[k].id = stream[k + 1].id
    <2>1. stream'[k] = stream[k + 1] /\ (ReplyAt(k)' <=> ReplyAt(k + 1))
        BY <1>1
    <2>2. \A w : Cmd(w)' = Cmd(w)
        BY DEF Cmd
    <2> QED
        BY <2>1, <2>2 DEF Sets, Changes, ChangedTo, BelongsTo
<1>3. ASSUME NEW c \in Channels, NEW n \in Nat, NEW x \in Owners \union {NoOwner},
             n + 1 <= Len(stream), Becomes(c, n, x)'
      PROVE  Becomes(c, n + 1, x)
    <2>1. \A k \in 1..n : k \in DOMAIN stream' /\ k + 1 \in 1..(n + 1)
        BY <1>1, <1>3
    <2>2. \A k \in 1..(n + 1) : k = 1 \/ (k - 1 \in 1..n /\ (k - 1) + 1 = k)
        OBVIOUS
    <2>3. CASE x = subscriptions[c] /\ \A k \in 1..n : ~Sets(k, c)'
        <3>1. \A k \in 1..n : ~Sets(k + 1, c)
            BY <1>2, <2>1, <2>3
        <3>2. \A k \in 1..(n + 1) : ~Sets(k, c)
            BY <2>2, <3>1
        <3> QED
            BY <2>3, <3>2 DEF Becomes
    <2>4. CASE ~(x = subscriptions[c] /\ \A k \in 1..n : ~Sets(k, c)')
        <3>1. PICK j \in 1..n : /\ Sets(j, c)' /\ x = ChangedTo(stream[j].id)'
                                /\ \A k \in 1..n : k > j /\ Sets(k, c)' => stream'[k].id = stream'[j].id
            BY <1>3, <2>4 DEF Becomes
        <3>2. j + 1 \in 1..(n + 1) /\ Sets(j + 1, c) /\ x = ChangedTo(stream[j + 1].id) /\ j + 1 # 1
            BY <1>1, <1>2, <2>1, <3>1
        <3>3. ASSUME NEW k \in 1..(n + 1), k > j + 1, Sets(k, c) PROVE stream[k].id = stream[j + 1].id
            <4>1. k - 1 \in 1..n /\ (k - 1) + 1 = k /\ k - 1 > j
                BY <2>2, <3>3
            <4>2. PICK i \in 1..n : i + 1 = k /\ i > j
                BY <4>1
            <4>3. Sets(i, c)' /\ stream'[i].id = stream[k].id
                BY <1>2, <2>1, <3>3, <4>2
            <4> QED
                BY <1>2, <2>1, <3>1, <4>2, <4>3
        <3> QED
            BY <3>2, <3>3 DEF Becomes
    <2> QED
        BY <2>3, <2>4
<1> QED
    BY <1>3, MovesFollow

\* The reply of the first running command, which changes the table.
LEMMA CompleteFollows ==
    ASSUME PlaceInvariant, Aligned, Following, CompleteCommand, ReplyAt(1)
    PROVE  Following'
<1> DEFINE id == running[1]
<1>1. /\ stream # <<>> /\ stream' = Tail(stream) /\ posted' = posted /\ UNCHANGED <<posted, destroyed, subscriber>>
      /\ running # <<>> /\ running' = Tail(running)
    BY DEF CompleteCommand, Dequeue, Read, callerVars, serverVars
<1>2. /\ 1 \in DOMAIN stream
      /\ \A k \in DOMAIN stream' : /\ k \in Nat /\ k + 1 \in DOMAIN stream /\ k + 1 # 1
                                   /\ stream'[k] = stream[k + 1]
                                   /\ ReplyAt(k)' <=> ReplyAt(k + 1)
      /\ Len(stream) \in Nat /\ DOMAIN stream' = 1..(Len(stream) - 1)
    BY <1>1, ReadMoves
<1>3. BelongsTo(1, 1) /\ 1 \in 1..Executed
    <2>1. \A j \in DOMAIN stream : ~(j < 1)
        BY StrideTypes
    <2> QED
        BY <1>1, <1>2, <2>1, FirstReply
<1>4. /\ 1 \in DOMAIN running /\ Head(running) = id /\ id \in Ids
      /\ \A i \in DOMAIN running' : i + 1 \in DOMAIN running /\ running'[i] = running[i + 1]
      /\ \A i \in DOMAIN running : i # 1 => \E l \in DOMAIN running' : running'[l] = running[i]
    <2>1. /\ 1 \in DOMAIN running /\ Head(running) = id /\ DOMAIN running = 1..Len(running)
          /\ \A i \in DOMAIN running' : i + 1 \in DOMAIN running /\ running'[i] = running[i + 1]
          /\ \A i \in DOMAIN running : i # 1 => i - 1 \in DOMAIN running'
          /\ id \in Ids
        BY <1>1, PlaceTypes, TailFacts, SeqFacts
    <2>2. \A i \in DOMAIN running : (i - 1) + 1 = i
        BY <2>1
    <2>3. ASSUME NEW i \in DOMAIN running, i # 1 PROVE \E l \in DOMAIN running' : running'[l] = running[i]
        <3>1. i - 1 \in DOMAIN running' /\ running'[i - 1] = running[(i - 1) + 1]
            BY <2>1, <2>3
        <3> QED
            BY <2>2, <3>1
    <2> QED
        BY <2>1, <2>3
<1> HIDE DEF id
\* After the reply, another item sets the same unless it is the same command's.
<1>5. \A w : Cmd(w)' = Cmd(w)
    BY <1>1 DEF Cmd
<1>6. ASSUME NEW k \in DOMAIN stream', NEW c
      PROVE  /\ Sets(k, c)' => Sets(k + 1, c)
             /\ Sets(k + 1, c) => Sets(k, c)' \/ stream[k + 1].id = id
             /\ ChangedTo(stream[k].id)' = ChangedTo(stream[k + 1].id)
             /\ stream'[k].id = stream[k + 1].id
    <2>1. stream'[k] = stream[k + 1] /\ (ReplyAt(k)' <=> ReplyAt(k + 1))
        BY <1>2
    <2>2. ChangedTo(stream[k].id)' = ChangedTo(stream[k + 1].id)
        BY <1>5, <2>1 DEF ChangedTo
    <2>3. Changes(stream[k].id, c)' <=> Changes(stream[k + 1].id, c)
        BY <1>5, <2>1 DEF Changes
    <2>4. (\E i \in DOMAIN running : BelongsTo(k, i))' => \E i \in DOMAIN running : BelongsTo(k + 1, i)
        BY <1>4, <2>1 DEF BelongsTo
    <2>5. ASSUME NEW i \in DOMAIN running, BelongsTo(k + 1, i), stream[k + 1].id # id
          PROVE  (\E l \in DOMAIN running : BelongsTo(k, l))'
        <3>1. i # 1
            BY <2>5 DEF BelongsTo, id
        <3>2. PICK l \in DOMAIN running' : running'[l] = running[i]
            BY <1>4, <3>1
        <3>3. BelongsTo(k, l)'
            BY <2>1, <2>5, <3>2 DEF BelongsTo
        <3> QED
            BY <3>2, <3>3
    <2>6. Sets(k, c)' => Sets(k + 1, c)
        BY <2>3, <2>4 DEF Sets
    <2>7. Sets(k + 1, c) => Sets(k, c)' \/ stream[k + 1].id = id
        BY <2>3, <2>5 DEF Sets
    <2> QED
        BY <2>1, <2>2, <2>6, <2>7
<1>7. \A c : Sets(1, c) <=> Changes(id, c)
    BY <1>3, <1>4 DEF Sets, BelongsTo, id
<1>8. stream[1].id = id
    BY <1>3 DEF BelongsTo, id
<1>9. ASSUME NEW c \in Channels
      PROVE  subscriptions'[c] = IF Changes(id, c) THEN ChangedTo(id) ELSE subscriptions[c]
    <2>1. c \in Keys /\ c # Feed
        BY NamesAssumption DEF Keys
    <2>2. subscriptions'[c] =
              IF Cmd(id).owner # NoOwner /\ c \in SubscribedBy(Cmd(id))
              THEN Cmd(id).owner
              ELSE IF c \in UnsubscribedBy(Cmd(id)) THEN NoOwner ELSE subscriptions[c]
        BY <1>4, <2>1 DEF CompleteCommand
    <2>3. Cmd(id).kind = "subscribe" => Cmd(id).owner # NoOwner
        <3>1. Cmd(id) = Command0 \/ Cmd(id) \in Shapes
            BY <1>4, PlaceTypes, SeqFacts DEF Cmd, Ids, Posted
        <3> QED
            BY <3>1, ShapesAssumption DEF Command0
    <2> QED
        BY <2>2, <2>3 DEF Changes, ChangedTo, SubscribedBy, UnsubscribedBy
<1>10. ASSUME NEW c \in Channels, NEW n \in Nat, NEW x \in Owners \union {NoOwner},
              n + 1 <= Len(stream), Becomes(c, n, x)'
       PROVE  Becomes(c, n + 1, x)
    <2>1. \A k \in 1..n : k \in DOMAIN stream' /\ k + 1 \in 1..(n + 1)
        BY <1>2, <1>10
    <2>2. \A k \in 1..(n + 1) : k = 1 \/ \E l \in 1..n : l + 1 = k
        <3>1. \A k \in 1..(n + 1) : k = 1 \/ (k - 1 \in 1..n /\ (k - 1) + 1 = k)
            OBVIOUS
        <3> QED
            BY <3>1
    <2>3. CASE x = subscriptions'[c] /\ \A k \in 1..n : ~Sets(k, c)'
        <3>1. \A k \in 1..(n + 1) : Sets(k, c) => stream[k].id = id
            BY <1>6, <1>8, <2>1, <2>2, <2>3
        <3>2. CASE Changes(id, c)
            <4>1. 1 \in 1..(n + 1) /\ Sets(1, c) /\ x = ChangedTo(stream[1].id)
                BY <1>7, <1>8, <1>9, <2>3, <3>2
            <4> QED
                BY <1>8, <3>1, <4>1 DEF Becomes
        <3>3. CASE ~Changes(id, c)
            <4>1. \A k \in 1..(n + 1) : ~Sets(k, c)
                BY <3>1, <3>3 DEF Sets
            <4> QED
                BY <1>9, <2>3, <3>3, <4>1 DEF Becomes
        <3> QED
            BY <3>2, <3>3
    <2>4. CASE ~(x = subscriptions'[c] /\ \A k \in 1..n : ~Sets(k, c)')
        <3>1. PICK j \in 1..n : /\ Sets(j, c)' /\ x = ChangedTo(stream[j].id)'
                                /\ \A k \in 1..n : k > j /\ Sets(k, c)' => stream'[k].id = stream'[j].id
            BY <1>10, <2>4 DEF Becomes
        <3>2. j + 1 \in 1..(n + 1) /\ Sets(j + 1, c) /\ x = ChangedTo(stream[j + 1].id)
            BY <1>6, <2>1, <3>1
        \* The replies of the first command do not come after another's.
        <3>3. ASSUME NEW k \in DOMAIN stream, k > j + 1, stream[k].id = id, ReplyAt(k) PROVE FALSE
            <4>1. j + 1 \in DOMAIN stream /\ ReplyAt(j + 1)
                BY <1>2, <2>1, <3>2 DEF Sets, BelongsTo
            <4>2. PICK i \in 1..Executed : BelongsTo(j + 1, i)
                BY <1>1, <4>1 DEF Aligned, RepliesExpected
            <4>3. BelongsTo(k, 1)
                BY <3>3 DEF BelongsTo, id
            <4>4. i < 1 \/ i = 1
                <5>1. j + 1 < k
                    BY <3>3, StrideTypes
                <5> QED
                    BY <1>3, <4>1, <4>2, <4>3, <5>1 DEF Aligned, RepliesOrdered
            <4>5. i = 1
                BY <4>2, <4>4, StrideTypes
            <4>6. PICK l \in DOMAIN running' : BelongsTo(j, l)'
                BY <3>1 DEF Sets
            <4>7. l + 1 \in DOMAIN running /\ running[l + 1] = running[1] /\ l + 1 # 1
                <5>1. running'[l] = stream'[j].id /\ stream'[j] = stream[j + 1]
                    BY <1>2, <2>1, <4>6 DEF BelongsTo
                <5>2. l \in Nat /\ l # 0
                    BY <1>1, PlaceTypes, TailFacts
                <5> QED
                    BY <1>4, <4>2, <4>5, <5>1, <5>2 DEF BelongsTo
            <4> QED
                BY <1>4, <4>7, StrideTypes
        <3>4. ASSUME NEW k \in 1..(n + 1), k > j + 1, Sets(k, c) PROVE stream[k].id = stream[j + 1].id
            <4>1. PICK l \in 1..n : l + 1 = k /\ l > j
                <5>1. k # 1
                    BY <3>1, <3>4
                <5> QED
                    BY <2>2, <3>1, <3>4, <5>1
            <4>2. k \in DOMAIN stream /\ ReplyAt(k)
                BY <3>4, RepliesKnown
            <4>3. Sets(l, c)'
                BY <1>6, <2>1, <3>3, <3>4, <4>1, <4>2
            <4> QED
                BY <1>6, <2>1, <3>1, <4>1, <4>3
        <3> QED
            BY <3>2, <3>4 DEF Becomes
    <2> QED
        BY <2>3, <2>4
<1> QED
    BY <1>1, <1>10, MovesFollow

\* What the server sends behind the first n items changes nothing of what they set.
LEMMA OldItems ==
    ASSUME PlaceInvariant, posted' = posted, running' = running, subscriptions' = subscriptions,
           DOMAIN stream \subseteq DOMAIN stream', \A k \in DOMAIN stream : stream'[k] = stream[k]
    PROVE  /\ \A c : \A k \in DOMAIN stream : /\ Sets(k, c)' <=> Sets(k, c)
                                              /\ ChangedTo(stream[k].id)' = ChangedTo(stream[k].id)
           /\ \A c, x : \A n \in Nat : n <= Len(stream) => (Becomes(c, n, x)' => Becomes(c, n, x))
<1>1. \A w : Cmd(w)' = Cmd(w)
    BY DEF Cmd
<1>2. \A c : \A k \in DOMAIN stream : /\ Sets(k, c)' <=> Sets(k, c)
                                      /\ ChangedTo(stream[k].id)' = ChangedTo(stream[k].id)
    BY <1>1 DEF Sets, Changes, ChangedTo, BelongsTo, ReplyAt
<1>3. Len(stream) \in Nat /\ DOMAIN stream = 1..Len(stream)
    BY PlaceTypes, SeqFacts
<1>4. ASSUME NEW c, NEW n \in Nat, NEW x, n <= Len(stream), Becomes(c, n, x)' PROVE Becomes(c, n, x)
    <2>1. \A k \in 1..n : k \in DOMAIN stream
        BY <1>3, <1>4
    <2>2. \A k \in 1..n : /\ Sets(k, c)' <=> Sets(k, c)
                          /\ Sets(k, c) => /\ stream'[k].id = stream[k].id
                                           /\ ChangedTo(stream[k].id)' = ChangedTo(stream[k].id)
        BY <1>2, <2>1
    <2>3. subscriptions'[c] = subscriptions[c]
        OBVIOUS
    <2> QED
        BY <1>4, <2>2, <2>3, BecomesKept
<1> QED
    BY <1>2, <1>4

\* Behind the n items that were there nothing sets this channel.
LEMMA BecameBefore ==
    ASSUME NEW c, NEW n \in Nat, NEW m \in Nat, NEW x, n <= m, n <= Len(stream),
           \A v, y : \A i \in Nat : i <= Len(stream) => (Becomes(v, i, y)' => Becomes(v, i, y)),
           \A k \in 1..m : k \notin 1..n => ~Sets(k, c)',
           Becomes(c, m, x)'
    PROVE  Becomes(c, n, x)
<1>1. 1..n \subseteq 1..m
    OBVIOUS
<1>2. CASE x = subscriptions'[c] /\ \A k \in 1..m : ~Sets(k, c)'
    <2>1. Becomes(c, n, x)'
        BY <1>1, <1>2 DEF Becomes
    <2> QED
        BY <2>1
<1>3. CASE ~(x = subscriptions'[c] /\ \A k \in 1..m : ~Sets(k, c)')
    <2>1. PICK j \in 1..m : /\ Sets(j, c)' /\ x = ChangedTo(stream[j].id)'
                            /\ \A k \in 1..m : k > j /\ Sets(k, c)' => stream'[k].id = stream'[j].id
        BY <1>3 DEF Becomes
    <2>2. j \in 1..n
        BY <2>1
    <2>3. Becomes(c, n, x)'
        BY <1>1, <2>1, <2>2 DEF Becomes
    <2> QED
        BY <2>3
<1> QED
    BY <1>2, <1>3

\* The messages that were there reach whom they were to reach.
LEMMA OldMessages ==
    ASSUME PlaceInvariant, MessagesFollow, destroyed' = destroyed,
           \A c, x : \A n \in Nat : n <= Len(stream) => (Becomes(c, n, x)' => Becomes(c, n, x)),
           \A k \in DOMAIN stream : stream'[k] = stream[k],
           NEW k \in DOMAIN stream, NEW x \in Owners \union {NoOwner}, stream'[k].type = "message",
           Becomes(stream[k].channel, k, x)'
    PROVE  InTable(x, stream'[k].to)
<1>1. k \in Nat /\ k <= Len(stream)
    BY PlaceTypes, SeqFacts
<1>2. PICK c : c = stream'[k].channel
    OBVIOUS
<1>3. Becomes(c, k, x)'
    BY <1>2 DEF Becomes, Sets, Changes
<1>4. Becomes(c, k, x)
    BY <1>1, <1>3
<1>5. stream[k] = stream'[k]
    OBVIOUS
<1> QED
    BY <1>2, <1>4, <1>5 DEF MessagesFollow

\* The confirmations set each channel to what the server has for it now.
LEMMA ServerFollows ==
    ASSUME PlaceInvariant, Aligned, Following, ServerExecutes
    PROVE  Following'
<1> DEFINE id == requests[1]
           n == Confirmations(Cmd(id))
           s == Len(stream)
<1>1. posted' = posted /\ running' = running /\ subscriptions' = subscriptions /\ destroyed' = destroyed
    BY DEF ServerExecutes, ServerStep, callerVars, threadVars
<1>2. /\ requests # <<>> /\ n \in Nat \ {0} /\ s \in Nat /\ Len(stream') = s + n /\ id \in Ids
      /\ DOMAIN stream = 1..s /\ DOMAIN stream' = 1..(s + n)
      /\ \A k \in DOMAIN stream : stream'[k] = stream[k]
      /\ \A k \in 1..n : stream'[s + k].type = "reply" /\ stream'[s + k].id = id
    BY Answers
<1>3. PICK r \in DOMAIN running : running[r] = id
    BY <1>2, PlaceTypes, TailFacts, StrideTypes DEF Aligned, RequestsLast
<1>4. Head(requests) = id
    BY <1>2, PlaceTypes, TailFacts
<1>5. subscriber' =
          [c \in Channels |->
              IF Cmd(id).kind = "subscribe" /\ c \in Cmd(id).channels THEN Cmd(id).owner
              ELSE IF Cmd(id).kind = "unsubscribe"
                      /\ c \in (IF Cmd(id).channels = {} THEN InForce ELSE Cmd(id).channels) THEN NoOwner
              ELSE subscriber[c]]
    BY <1>4 DEF ServerExecutes
<1> HIDE DEF n
<1>6. \A k \in DOMAIN stream' : k \in DOMAIN stream \/ (stream'[k].type = "reply" /\ stream'[k].id = id /\ k > s)
    <2>1. \A k \in DOMAIN stream' : k \in DOMAIN stream \/ (k - s \in 1..n /\ s + (k - s) = k /\ k > s)
        BY <1>2
    <2> QED
        BY <1>2, <2>1
<1>7. s + n \in Nat /\ s + n \in DOMAIN stream' /\ s + n \notin DOMAIN stream /\ s + n >= s
      /\ DOMAIN stream \subseteq DOMAIN stream' /\ \A k \in 1..s : k \in DOMAIN stream
    BY <1>2
<1> HIDE DEF id, s
<1>8. /\ \A c : \A k \in DOMAIN stream : /\ Sets(k, c)' <=> Sets(k, c)
                                         /\ ChangedTo(stream[k].id)' = ChangedTo(stream[k].id)
      /\ \A c, x : \A m \in Nat : m <= Len(stream) => (Becomes(c, m, x)' => Becomes(c, m, x))
    BY <1>1, <1>2, <1>7, OldItems
<1>9. MessagesFollow'
    <2> SUFFICES ASSUME NEW k \in DOMAIN stream', NEW x \in Owners \union {NoOwner},
                        stream'[k].type = "message", Becomes(stream[k].channel, k, x)'
                 PROVE  InTable(x, stream'[k].to)
        BY <1>1 DEF MessagesFollow, InTable
    <2>1. k \in DOMAIN stream
        BY <1>6
    <2> QED
        BY <1>1, <1>2, <1>8, <2>1, OldMessages DEF Following
\* All the new replies set the command's channels, and no other.
<1>10. ASSUME NEW k \in DOMAIN stream', k \notin DOMAIN stream, NEW c
       PROVE  /\ Sets(k, c)' <=> Changes(id, c)
              /\ stream'[k].id = id
              /\ ChangedTo(stream[k].id)' = ChangedTo(id)
    <2>1. stream'[k].type = "reply" /\ stream'[k].id = id
        BY <1>6, <1>10
    <2>2. \A w : Cmd(w)' = Cmd(w)
        BY <1>1 DEF Cmd
    <2>3. BelongsTo(k, r)'
        BY <1>1, <1>3, <2>1 DEF BelongsTo, ReplyAt
    <2>4. Changes(stream[k].id, c)' <=> Changes(id, c)
        BY <2>1, <2>2 DEF Changes
    <2>5. ChangedTo(stream[k].id)' = ChangedTo(id)
        BY <2>1, <2>2 DEF ChangedTo
    <2>6. (\E i \in DOMAIN running : BelongsTo(k, i))'
        BY <1>1, <1>3, <2>3
    <2> QED
        BY <2>1, <2>4, <2>5, <2>6 DEF Sets
<1>11. TableFollows'
    <2> SUFFICES ASSUME NEW c \in Channels, NEW m \in Nat, NEW x \in Owners \union {NoOwner},
                        m = s + n, Becomes(c, m, x)'
                 PROVE  (InTable(x, subscriber[c]) \/ (subscriber[c] = NoOwner /\ BareUnsubscribe))'
        BY <1>2 DEF TableFollows
    <2>1. m \in 1..m /\ \A k \in 1..m : k \in DOMAIN stream'
        BY <1>2
    <2>2. CASE Changes(id, c)
        <3>1. Sets(m, c)'
            BY <1>7, <1>10, <2>2
        <3>2. PICK j \in 1..m : /\ Sets(j, c)' /\ x = ChangedTo(stream[j].id)'
                                /\ \A k \in 1..m : k > j /\ Sets(k, c)' => stream'[k].id = stream'[j].id
            BY <2>1, <3>1 DEF Becomes
        <3>3. m > j \/ m = j
            BY <2>1
        <3>4. stream'[j].id = id
            BY <1>7, <1>10, <2>1, <3>1, <3>2, <3>3
        <3>5. x = ChangedTo(id)
            <4>1. \A w : Cmd(w)' = Cmd(w)
                BY <1>1 DEF Cmd
            <4> QED
                BY <3>2, <3>4, <4>1 DEF ChangedTo
        <3>6. subscriber'[c] = ChangedTo(id)
            BY <1>5, <2>2 DEF Changes, ChangedTo
        <3> QED
            BY <3>5, <3>6 DEF InTable
    <2>3. CASE ~Changes(id, c)
        <3>1. \A k \in 1..m : k \notin DOMAIN stream => ~Sets(k, c)'
            BY <1>10, <2>1, <2>3
        <3>2. PICK p \in Nat : p = s
            BY <1>2
        <3>3. Becomes(c, p, x)
            <4>1. p <= m /\ p <= Len(stream) /\ \A k \in 1..m : k \notin 1..p => ~Sets(k, c)'
                BY <1>2, <3>1, <3>2 DEF s
            <4> QED
                BY <1>8, <4>1, BecameBefore
        <3>4. InTable(x, subscriber[c]) \/ (subscriber[c] = NoOwner /\ BareUnsubscribe)
            BY <3>2, <3>3 DEF Following, TableFollows, s
        <3>5. BareUnsubscribe' <=> BareUnsubscribe
            BY <1>1 DEF BareUnsubscribe
        <3>6. CASE subscriber'[c] = subscriber[c]
            BY <1>1, <3>4, <3>5, <3>6 DEF InTable
        <3>7. CASE subscriber'[c] # subscriber[c]
            <4>1. Cmd(id).kind = "unsubscribe" /\ Cmd(id).channels = {} /\ subscriber'[c] = NoOwner
                BY <1>5, <2>3, <3>7 DEF Changes
            <4>2. id \in DOMAIN posted /\ Cmd(id) = posted[id]
                BY <1>2, <4>1, PlaceTypes, SeqFacts DEF Cmd, Command0, Ids, Posted
            <4> QED
                BY <3>5, <4>1, <4>2 DEF BareUnsubscribe
        <3> QED
            BY <3>6, <3>7
    <2> QED
        BY <2>2, <2>3
<1> QED
    BY <1>9, <1>11 DEF Following

LEMMA PublishFollows ==
    ASSUME PlaceInvariant, Following, Publish
    PROVE  Following'
<1> DEFINE s == Len(stream)
<1>1. posted' = posted /\ running' = running /\ subscriptions' = subscriptions /\ destroyed' = destroyed
      /\ subscriber' = subscriber
    BY DEF Publish, ServerStep, callerVars, threadVars
<1>2. /\ s \in Nat /\ DOMAIN stream = 1..s /\ DOMAIN stream' = 1..(s + 1) /\ Len(stream') = s + 1
      /\ \A k \in DOMAIN stream : stream'[k] = stream[k]
      /\ LET item == stream'[s + 1]
         IN  \/ item.type = "message" /\ item.channel \in InForce /\ item.to = subscriber[item.channel]
             \/ item.type = "feed"
    BY Published
<1>3. s + 1 \in Nat /\ s + 1 \in DOMAIN stream' /\ DOMAIN stream \subseteq DOMAIN stream'
      /\ (\A k \in DOMAIN stream' : k \in DOMAIN stream \/ k = s + 1)
      /\ \A k \in 1..s : k \in DOMAIN stream
    BY <1>2
<1>4. /\ \A c : \A k \in DOMAIN stream : /\ Sets(k, c)' <=> Sets(k, c)
                                         /\ ChangedTo(stream[k].id)' = ChangedTo(stream[k].id)
      /\ \A c, x : \A m \in Nat : m <= Len(stream) => (Becomes(c, m, x)' => Becomes(c, m, x))
    BY <1>1, <1>2, <1>3, OldItems
<1> HIDE DEF s
<1>5. ASSUME NEW c, NEW m \in Nat, m = s + 1, NEW x, Becomes(c, m, x)' PROVE Becomes(c, s, x)
    <2>1. ~Sets(m, c)'
        <3>1. stream'[m].type # "reply"
            BY <1>2, <1>5
        <3> QED
            BY <3>1 DEF Sets, BelongsTo, ReplyAt
    <2>2. PICK p \in Nat : p = s
        BY <1>2
    <2>3. p <= m /\ p <= Len(stream)
        BY <1>2, <1>5, <2>2 DEF s
    <2>4. \A k \in 1..m : k \notin 1..p => ~Sets(k, c)'
        <3>1. \A k \in 1..m : k \in 1..p \/ k = m
            BY <1>5, <2>2
        <3> QED
            BY <2>1, <3>1
    <2>5. Becomes(c, p, x)
        BY <1>4, <1>5, <2>3, <2>4, BecameBefore
    <2> QED
        BY <2>2, <2>5
<1>6. TableFollows'
    <2> SUFFICES ASSUME NEW c \in Channels, NEW m \in Nat, NEW x \in Owners \union {NoOwner},
                        m = s + 1, Becomes(c, m, x)'
                 PROVE  (InTable(x, subscriber[c]) \/ (subscriber[c] = NoOwner /\ BareUnsubscribe))'
        BY <1>2 DEF TableFollows
    <2>1. Becomes(c, s, x)
        BY <1>5
    <2>2. InTable(x, subscriber[c]) \/ (subscriber[c] = NoOwner /\ BareUnsubscribe)
        BY <1>2, <2>1 DEF Following, TableFollows, s
    <2> QED
        BY <1>1, <2>2 DEF InTable, BareUnsubscribe
<1>7. MessagesFollow'
    <2> SUFFICES ASSUME NEW k \in DOMAIN stream', NEW x \in Owners \union {NoOwner},
                        stream'[k].type = "message", Becomes(stream[k].channel, k, x)'
                 PROVE  InTable(x, stream'[k].to)
        BY <1>1 DEF MessagesFollow, InTable
    <2>1. CASE k \in DOMAIN stream
        BY <1>1, <1>2, <1>4, <2>1, OldMessages DEF Following
    <2>2. CASE k = s + 1
        <3>1. PICK c \in Channels : c = stream'[k].channel /\ subscriber[c] # NoOwner /\ stream'[k].to = subscriber[c]
            BY <1>2, <2>2 DEF InForce
        <3>2. Becomes(c, k, x)'
            BY <3>1 DEF Becomes, Sets, Changes
        <3>3. Becomes(c, s, x)
            BY <1>3, <1>5, <2>2, <3>2
        <3> QED
            BY <1>2, <3>1, <3>3 DEF Following, TableFollows, s
    <2> QED
        BY <1>3, <2>1, <2>2
<1> QED
    BY <1>6, <1>7 DEF Following

-----------------------------------------------------------------------------
(* Each step keeps the table after the server. *)

LEMMA FreshFollows == Fresh /\ subscriptions = Nobody(Keys) /\ subscriber = Nobody(Channels) => Following
<1> SUFFICES ASSUME stream = <<>>, subscriptions = Nobody(Keys), subscriber = Nobody(Channels) PROVE Following
    BY DEF Fresh
<1>1. DOMAIN stream = {} /\ Len(stream) = 0 /\ 1..0 = {}
    OBVIOUS
<1>2. \A c \in Channels : subscriptions[c] = NoOwner /\ subscriber[c] = NoOwner
    BY DEF Nobody, Keys
<1>3. TableFollows
    BY <1>1, <1>2 DEF TableFollows, Becomes, InTable
<1> QED
    BY <1>1, <1>3 DEF Following, MessagesFollow

LEMMA ReadFollows ==
    ASSUME PlaceInvariant, InStride, Following, ReadNext, Calm
    PROVE  Following'
<1>1. /\ stream # <<>> /\ stream' = Tail(stream) /\ UNCHANGED <<posted, destroyed, subscriber>>
      /\ ~monitorMode
    BY DEF ReadNext, Emit, UnexpectedReply, CompleteCommand, Read, Calm, callerVars, serverVars
<1>2. /\ 1 \in DOMAIN stream /\ Head(stream) = stream[1] /\ stream[1] \in Item
      /\ \A k \in DOMAIN stream : ~(k < 1)
    <2>1. \A k \in DOMAIN stream : k \in Nat /\ k # 0
        BY PlaceTypes, SeqFacts
    <2> QED
        BY <1>1, <2>1, ReadMoves, PlaceTypes, SeqFacts
<1>3. stream[1].type # "feed"
    BY <1>2 DEF InStride, FeedAfterMonitor
<1>4. CASE Emit
    <2>1. UNCHANGED <<running, subscriptions>> /\ stream[1].type = "message"
        BY <1>1, <1>2, <1>4 DEF Emit, IsMessage
    <2>2. \A c : ~Sets(1, c)
        BY <2>1 DEF Sets, BelongsTo, ReplyAt
    <2> QED
        BY <1>1, <2>1, <2>2, IgnoredFollows
<1>5. CASE UnexpectedReply
    <2>1. UNCHANGED <<running, subscriptions>> /\ running = <<>>
        BY <1>5 DEF UnexpectedReply
    <2>2. \A c : ~Sets(1, c)
        BY <2>1 DEF Sets
    <2> QED
        BY <1>1, <2>1, <2>2, IgnoredFollows
<1>6. CASE CompleteCommand
    <2>1. stream[1].type # "message"
        BY <1>2, <1>6 DEF CompleteCommand, IsMessage
    <2>2. ReplyAt(1)
        BY <1>2, <1>3, <2>1 DEF ReplyAt, Item
    <2> QED
        BY <1>6, <2>2, CompleteFollows DEF InStride
<1> QED
    BY <1>4, <1>5, <1>6 DEF ReadNext

LEMMA StepFollows ==
    ASSUME PlaceInvariant, Calm => InStride /\ Following, [Next]_vars, Calm'
    PROVE  Following'
<1>1. CASE Restart
    <2>1. Fresh' /\ (subscriptions = Nobody(Keys) /\ subscriber = Nobody(Channels))'
        BY <1>1 DEF Restart, NewRunning, Fresh, Nobody, Keys
    <2> QED
        BY <2>1, FreshFollows, PTL
<1>2. CASE ~Restart
    <2> SUFFICES ASSUME Calm, InStride, Following PROVE Following'
        BY <1>2, CalmBefore
    <2> DEFINE Same == /\ DOMAIN running \subseteq DOMAIN running'
                       /\ \A i \in DOMAIN running : running'[i] = running[i]
                       /\ \A i \in DOMAIN running' : i \in DOMAIN running \/ ~Written(running'[i])
    <2>1. running' = running => Same
        OBVIOUS
    <2> HIDE DEF Same
    <2>2. ASSUME UNCHANGED <<stream, subscriber, subscriptions, running>>, destroyed \subseteq destroyed',
                 posted' = posted
          PROVE  Following'
        <3>1. Same /\ \A id \in Ids : Cmd(id)' = Cmd(id)
            BY <2>1, <2>2 DEF Cmd
        <3>2. BareUnsubscribe => BareUnsubscribe'
            BY <2>2 DEF BareUnsubscribe
        <3> QED
            BY <2>2, <3>1, <3>2, QuietFollows DEF Same
    <2>3. ASSUME NEW shape \in Shapes, Submit(shape) PROVE Following'
        <3>1. UNCHANGED <<stream, subscriber, subscriptions, destroyed>> /\ running' = running
              /\ posted \in Seq(Shapes) /\ posted' = Append(posted, shape)
            BY <2>3, PlaceTypes DEF Submit, threadVars, serverVars
        <3>2. \A k \in DOMAIN posted : k \in DOMAIN posted' /\ posted'[k] = posted[k] /\ DOMAIN posted = Posted
            BY <3>1, AppendFacts DEF Posted
        <3>3. \A id \in Ids : Cmd(id)' = Cmd(id)
            BY <3>1, <3>2, AppendFacts DEF Cmd, Ids, Posted
        <3>4. BareUnsubscribe => BareUnsubscribe'
            BY <3>2 DEF BareUnsubscribe
        <3> QED
            BY <2>1, <3>1, <3>3, <3>4, QuietFollows DEF Same
    <2>4. CASE CancelCommands
        <3> DEFINE owner == Head(inbox).owner
        <3>1. /\ running' = WithoutOwner(owner, running) /\ OwnedBy(owner, running) = {}
              /\ subscriptions' = Unsubscribed(owner)
              /\ UNCHANGED <<stream, subscriber, destroyed, posted>>
            BY <2>4 DEF CancelCommands, Calm, callerVars, serverVars
        <3>2. running' = running
            BY <3>1, PlaceTypes, WithoutOwnerPlace
        <3>3. owner \in destroyed
            BY <2>4, PlaceTypes, TailFacts DEF CancelCommands, PlaceInvariant, CancelsGone
        <3> HIDE DEF owner
        <3>4. \A c \in Channels : \/ subscriptions'[c] = subscriptions[c]
                                  \/ subscriptions'[c] = NoOwner /\ subscriptions[c] \in destroyed'
            BY <3>1, <3>3 DEF Unsubscribed, Keys
        <3>5. \A id \in Ids : Cmd(id)' = Cmd(id)
            BY <3>1 DEF Cmd
        <3>6. BareUnsubscribe => BareUnsubscribe'
            BY <3>1 DEF BareUnsubscribe
        <3> QED
            BY <2>1, <3>1, <3>2, <3>4, <3>5, <3>6, QuietFollows DEF Same
    <2>5. CASE RunCommand
        <3>1. /\ UNCHANGED <<stream, subscriber, subscriptions, destroyed, posted>>
              /\ running' = Append(running, Head(commands)) /\ commands # <<>>
            BY <2>5 DEF RunCommand, callerVars
        <3>2. /\ Head(commands) \in Ids /\ ~Written(Head(commands))
            <4>1. 1 \in DOMAIN commands /\ Head(commands) = commands[1]
                BY <3>1, PlaceTypes, TailFacts
            <4> QED
                BY <4>1, PlaceTypes, SeqFacts DEF PlaceInvariant, InOnePlace
        <3>3. Same
            <4>1. /\ DOMAIN running \subseteq DOMAIN running'
                  /\ \A i \in DOMAIN running : running'[i] = running[i]
                  /\ \A i \in DOMAIN running' : i \in DOMAIN running \/ running'[i] = Head(commands)
                <5>1. /\ Len(running) \in Nat /\ DOMAIN running = 1..Len(running)
                      /\ DOMAIN running' = 1..(Len(running) + 1)
                      /\ \A i \in DOMAIN running : running'[i] = running[i]
                      /\ running'[Len(running) + 1] = Head(commands)
                    BY <3>1, <3>2, PlaceTypes, AppendFacts
                <5>2. \A i \in DOMAIN running' : i \in DOMAIN running \/ i = Len(running) + 1
                    BY <5>1
                <5>3. DOMAIN running \subseteq DOMAIN running'
                    BY <5>1
                <5> QED
                    BY <5>1, <5>2, <5>3
            <4> QED
                BY <3>2, <4>1 DEF Same
        <3>4. \A id \in Ids : Cmd(id)' = Cmd(id)
            BY <3>1 DEF Cmd
        <3>5. BareUnsubscribe => BareUnsubscribe'
            BY <3>1 DEF BareUnsubscribe
        <3> QED
            BY <3>1, <3>3, <3>4, <3>5, QuietFollows DEF Same
    <2>6. CASE \/ \E owner \in Owners : DestroyOwner(owner)
               \/ AddCommand
               \/ UNCHANGED vars
        BY <2>2, <2>6 DEF DestroyOwner, AddCommand, vars, callerVars, threadVars, serverVars
    <2> QED
        BY <1>2, <2>3, <2>4, <2>5, <2>6, ReadFollows, ServerFollows, PublishFollows DEF Next, InStride
<1> QED
    BY <1>1, <1>2

TableInvariant == PlaceInvariant /\ (Calm => InStride /\ Following)

LEMMA TableHolds == Spec => []TableInvariant
<1>1. Init => TableInvariant
    <2> SUFFICES ASSUME Init PROVE TableInvariant
        OBVIOUS
    <2>1. Fresh /\ subscriptions = Nobody(Keys) /\ subscriber = Nobody(Channels) /\ ~monitoring /\ stream = <<>>
        BY DEF Init, Fresh
    <2>2. FeedAfterMonitor
        BY <2>1 DEF FeedAfterMonitor
    <2> QED
        BY <2>1, <2>2, InitPlace, FreshAligned, FreshFollows DEF TableInvariant, InStride
<1>2. TableInvariant /\ [Next]_vars => TableInvariant'
    BY PlaceStep, StepStride, StepFollows DEF TableInvariant
<1> QED
    BY <1>1, <1>2, PTL DEF Spec

\* For all commands, owners, channels and sessions: sendResponse completes each
\* command with its own reply, whatever messages come between, as long as the
\* connection is calm.
THEOREM RepliesStayInStep == Spec => []InStep
<1>1. ASSUME TableInvariant PROVE InStep
    <2> DEFINE I == {k \in DOMAIN stream : stream[k].type = "reply"}
               t == Subsequence(stream, I)
               n == Cardinality(I)
    <2> SUFFICES ASSUME ~disturbed, ~monitoring, ~monitorMode, running # <<>>, t # <<>>
                 PROVE  Head(t).id = Head(running)
        BY DEF InStep, Replies
    <2>1. PlaceInvariant /\ Aligned
        BY <1>1 DEF TableInvariant, Calm, InStride
    <2>2. stream \in Seq(Item) /\ I \in SUBSET DOMAIN stream /\ DOMAIN stream \subseteq Nat
        BY <2>1, PlaceTypes, SeqFacts
    <2>3. \A k : ReplyAt(k) <=> k \in I
        BY DEF ReplyAt
    <2> HIDE DEF I
    <2>4. /\ t \in Seq(Item) /\ Len(t) = n /\ n \in Nat
        BY <2>2, SubsequenceElements, SeqFacts
    <2>5. PICK f \in [1..n -> I] :
              /\ \A k \in 1..n : t[k] = stream[f[k]]
              /\ \A j, k \in 1..n : j < k => f[j] < f[k]
              /\ \A i \in I : \E k \in 1..n : f[k] = i
        BY <2>2, SubsequenceOrder
    <2> HIDE DEF t, n
    <2>6. Head(t) = t[1] /\ 1 \in 1..n
        BY <2>4, TailFacts, SeqFacts
    <2>7. f[1] \in DOMAIN stream /\ ReplyAt(f[1])
        BY <2>2, <2>3, <2>6
    <2>8. ASSUME NEW i \in DOMAIN stream, i < f[1] PROVE ~ReplyAt(i)
        <3> SUFFICES ASSUME i \in I PROVE FALSE
            BY <2>3
        <3>1. PICK k \in 1..n : f[k] = i
            BY <2>5
        <3>2. 1 < k \/ k = 1
            BY <2>4
        <3>3. f[1] < f[k] \/ f[1] = f[k]
            BY <2>5, <2>6, <3>2
        <3>4. i \in Nat /\ f[1] \in Nat
            BY <2>2, <2>7
        <3> QED
            BY <2>8, <3>1, <3>3, <3>4
    <2>9. stream[f[1]].id = running[1]
        BY <2>1, <2>7, <2>8, FirstReply DEF BelongsTo
    <2>10. Head(running) = running[1]
        BY <2>1, PlaceTypes, TailFacts
    <2> QED
        BY <2>5, <2>6, <2>9, <2>10
<1> QED
    BY <1>1, TableHolds, PTL

\* For all commands, channels and sessions, if whoever runs MONITOR has a callback:
\* when nothing is under way, m_subscriptions is as the server has it.
THEOREM TableIsTheServers == OwnedMonitors => (Spec => []TableMatchesServer)
<1> SUFFICES ASSUME OwnedMonitors PROVE Spec => []TableMatchesServer
    OBVIOUS
<1>1. ASSUME TableInvariant PROVE TableMatchesServer
    <2> SUFFICES ASSUME ~disturbed, ~monitorMode, stream = <<>>, NEW c \in Channels
                 PROVE  \/ subscriptions[c] = subscriber[c]
                        \/ subscriptions[c] = NoOwner /\ subscriber[c] \in destroyed
                        \/ subscriber[c] = NoOwner /\ BareUnsubscribe
        BY DEF TableMatchesServer
    <2>1. Following /\ subscriptions[c] \in Owners \union {NoOwner}
        BY <1>1 DEF TableInvariant, Calm, PlaceInvariant, OtherTypes, Keys
    <2>2. 0 = Len(stream) /\ Becomes(c, 0, subscriptions[c])
        BY DEF Becomes
    <2> QED
        BY <2>1, <2>2 DEF Following, TableFollows, InTable
<1> QED
    BY <1>1, TableHolds, PTL

\* For all commands, channels and sessions, if whoever runs MONITOR has a callback: a
\* message goes to the owner whose subscription was in force when it was sent.
THEOREM MessagesArrive == OwnedMonitors => (Spec => MessagesReachTheirSubscriber)
<1> DEFINE Arrives == Read /\ ~disturbed /\ ~monitorMode /\ Head(stream).type = "message" =>
                          \/ subscriptions[Head(stream).channel] = Head(stream).to
                          \/ subscriptions[Head(stream).channel] = NoOwner /\ Head(stream).to \in destroyed
<1> SUFFICES ASSUME OwnedMonitors PROVE Spec => [][Arrives]_vars
    BY DEF MessagesReachTheirSubscriber
<1>1. ASSUME TableInvariant PROVE Arrives
    <2> SUFFICES ASSUME Read, ~disturbed, ~monitorMode, Head(stream).type = "message"
                 PROVE  \/ subscriptions[Head(stream).channel] = Head(stream).to
                        \/ subscriptions[Head(stream).channel] = NoOwner /\ Head(stream).to \in destroyed
        OBVIOUS
    <2>1. Following
        BY <1>1 DEF TableInvariant, Calm
    <2>2. 1 \in DOMAIN stream /\ Head(stream) = stream[1] /\ stream[1] \in Item
        BY <1>1, PlaceTypes, TailFacts, SeqFacts DEF TableInvariant, Read
    <2>3. stream[1].channel \in Channels
        BY <2>2 DEF Item
    <2>4. subscriptions[stream[1].channel] \in Owners \union {NoOwner}
        BY <1>1, <2>3 DEF TableInvariant, PlaceInvariant, OtherTypes, Keys
    <2>5. Becomes(stream[1].channel, 1, subscriptions[stream[1].channel])
        <3>1. ~ReplyAt(1) /\ \A k \in 1..1 : k = 1
            BY <2>2 DEF ReplyAt
        <3> QED
            BY <3>1 DEF Becomes, Sets, BelongsTo
    <2> QED
        BY <2>1, <2>2, <2>4, <2>5 DEF Following, MessagesFollow, InTable
<1> QED
    BY <1>1, TableHolds, PTL

=============================================================================

------------------------------- MODULE Reader -------------------------------
(***************************************************************************)
(* readyRead (transporters/abstracttransporter.cpp) and ResponseParser:    *)
(* how replies come out of a stream of bytes that arrives in pieces of any *)
(* size, over a socket that may be lost and connected again.  One parser   *)
(* serves the transporter for its whole life; ResponseParser::reset has no *)
(* caller.                                                                 *)
(*                                                                         *)
(* A reply is a sequence of fragments, the bytes of it that are never cut; *)
(* the first one says how many there are.  The reader of hiredis keeps the *)
(* fragments of a reply until it is complete.                              *)
(***************************************************************************)
EXTENDS Integers, SequencesExt

CONSTANTS
    MaxSize,     \* bound: fragments of a reply
    MaxReplies,  \* bound: replies sent by the server
    MaxLosses    \* bound: reconnects

ASSUME BoundsAssumption ==
    /\ MaxSize \in Nat \ {0}
    /\ MaxReplies \in Nat
    /\ MaxLosses \in Nat

VARIABLES
    sent,       \* replies that the server has sent
    wire,       \* fragments on their way
    available,  \* fragments in the buffer of the socket
    notified,   \* a readyRead is to be handled
    buffer,     \* fragments that the reader has kept
    broken,     \* the reader has met a protocol error, which it never forgets
    delivered,  \* the replies given to sendResponse
    losses,     \* reconnects so far
    \* history
    first,      \* the first reply sent on this connection
    torn        \* a connection was lost in the middle of a reply that the reader had begun

netVars == <<sent, wire, losses, first>>
readerVars == <<buffer, broken, delivered>>
vars == <<netVars, available, notified, readerVars, torn>>

Init ==
    /\ sent = 0
    /\ wire = <<>>
    /\ available = <<>>
    /\ notified = FALSE
    /\ buffer = <<>>
    /\ broken = FALSE
    /\ delivered = <<>>
    /\ losses = 0
    /\ first = 1
    /\ torn = FALSE

-----------------------------------------------------------------------------
(* The server and the network (external). *)

ServerSends(size) ==
    /\ sent < MaxReplies
    /\ sent' = sent + 1
    /\ wire' = wire \o [k \in 1..size |-> [reply |-> sent + 1, part |-> k, size |-> size]]
    /\ UNCHANGED <<losses, first, available, notified, readerVars, torn>>

\* Any number of fragments arrives at once, and QIODevice::readyRead is emitted.
Arrive(n) ==
    /\ n <= Len(wire)
    /\ available' = available \o SubSeq(wire, 1, n)
    /\ wire' = SubSeq(wire, n + 1, Len(wire))
    /\ notified' = TRUE
    /\ UNCHANGED <<sent, losses, first, readerVars, torn>>

\* abort() and connectToHost: the socket forgets what it has, the parser does not.
Reconnect ==
    /\ losses < MaxLosses
    /\ losses' = losses + 1
    /\ wire' = <<>>
    /\ available' = <<>>
    /\ notified' = FALSE
    /\ first' = sent + 1
    /\ torn' = (torn \/ buffer # <<>>)
    /\ UNCHANGED <<sent, readerVars>>

-----------------------------------------------------------------------------
(* readyRead. *)

\* Mutants: a reply is complete when its last fragment is still on its way; one
\* reply is taken for each readyRead.
TooEarly(stream, last) == last <= Len(stream) + 1
OneReply(whole) == whole \cap {1}
IsComplete(stream, last) == last <= Len(stream)
Taken(whole) == whole

\* Where the replies of the stream end, as their first fragments say.
Ends(stream) ==
    LET last[k \in 0..Len(stream)] ==
            IF k = 0 THEN 0
            ELSE LET before == last[k - 1]
                 IN  IF before < Len(stream) THEN before + stream[before + 1].size
                     ELSE Len(stream) + MaxSize
    IN  last

\* The reader gives the replies of the stream one after another until one is not
\* complete: what is left of an old reply swallows fragments of a new one.  A reply
\* that begins with anything but its first fragment is a protocol error.
GetReplies(stream) ==
    LET last == Ends(stream)
        begins(k) == last[k - 1] + 1
        errors == {k \in DOMAIN stream : begins(k) <= Len(stream) /\ stream[begins(k)].part # 1}
        whole == Taken({k \in DOMAIN stream : /\ IsComplete(stream, last[k])
                                              /\ \A e \in errors : k < e})
        count == Cardinality(whole)
    IN  [replies |-> [k \in 1..count |->
                        LET fragments == {stream[i] : i \in begins(k)..Len(stream) \cap 1..last[k]}
                        IN  [reply |-> stream[begins(k)].reply,
                             pure |-> \A f \in fragments : f.reply = stream[begins(k)].reply]],
         error |-> errors # {},
         rest |-> IF errors # {} THEN <<>> ELSE SubSeq(stream, last[count] + 1, Len(stream))]

\* Everything that has arrived is read, and every reply that is complete is
\* delivered: there will be no other signal for it.
ReadyRead ==
    /\ notified
    /\ notified' = FALSE
    /\ IF broken
       THEN UNCHANGED readerVars
       ELSE LET read == GetReplies(buffer \o available)
            IN  /\ buffer' = read.rest
                /\ broken' = read.error
                /\ delivered' = delivered \o read.replies
    /\ available' = <<>>
    /\ UNCHANGED <<netVars, torn>>

\* A fragment of another reply cannot be read on where the old one stops.
ReadGarbage ==
    /\ notified
    /\ notified' = FALSE
    /\ ~broken /\ buffer # <<>> /\ available # <<>>
    /\ Head(available).reply # Head(buffer).reply
    /\ broken' = TRUE
    /\ buffer' = <<>>
    /\ available' = <<>>
    /\ UNCHANGED <<netVars, delivered, torn>>

-----------------------------------------------------------------------------

Next ==
    \/ \E size \in 1..MaxSize : ServerSends(size)
    \/ \E n \in 1..Len(wire) : Arrive(n)
    \/ Reconnect
    \/ ReadyRead \/ ReadGarbage

Spec == Init /\ [][Next]_vars

\* What is on its way arrives, and the event loop goes on.
Fairness ==
    /\ WF_vars(\E n \in 1..Len(wire) : Arrive(n))
    /\ WF_vars(ReadyRead \/ ReadGarbage)

FairSpec == Spec /\ Fairness

-----------------------------------------------------------------------------
(* Properties. *)

\* However the stream is cut, the replies delivered are, behind those of earlier
\* connections, the first ones sent on this one, in their order and none of them
\* mixed up with another, unless an earlier connection was lost in the middle of a
\* reply.
DeliveredInOrder ==
    ~torn =>
        /\ \E old \in 0..Len(delivered) :
               /\ \A k \in 1..old : delivered[k].reply < first
               /\ \A k \in 1..(Len(delivered) - old) :
                      delivered[old + k] = [reply |-> first + k - 1, pure |-> TRUE]
        /\ ~broken

\* Every reply is delivered, without another having to arrive behind it, unless
\* its connection is lost or an earlier one was torn.
EveryReplyDelivered ==
    \A r \in 1..MaxReplies :
        r <= sent ~> (\E d \in Range(delivered) : d.reply = r) \/ r < first \/ torn

=============================================================================

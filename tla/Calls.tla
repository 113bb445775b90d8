------------------------------- MODULE Calls -------------------------------
(***************************************************************************)
(* What a session of a Connection promises to those who post commands to   *)
(* it, whatever its queues, threads and sockets do: a command is answered  *)
(* once or dropped, never both; while nothing goes wrong it is dropped     *)
(* only when its owner is gone; and a session that has gone wrong takes    *)
(* everything with it when it is closed.                                   *)
(***************************************************************************)
EXTENDS Naturals, Sequences

CONSTANTS
    Owners,    \* QObjects that own callbacks
    NoOwner,   \* the owner of a command that nobody's destruction cancels
    MaxCalls   \* bound: commands posted in the session

VARIABLES
    owner,     \* the owners of the commands posted, in order
    fate,      \* what has become of each command
    gone,      \* owners destroyed
    session    \* "open", "broken" (an error is on its way to the Connection) or "closed"

vars == <<owner, fate, gone, session>>

Init ==
    /\ owner = <<>>
    /\ fate = <<>>
    /\ gone = {}
    /\ session = "open"

Waiting == {c \in DOMAIN fate : fate[c] = "waiting"}

Settle(cs, end) == fate' = [c \in DOMAIN fate |-> IF c \in cs THEN end ELSE fate[c]]

\* runCommand, runCommands: a list is posted as a whole.
Post(owners) ==
    /\ session # "closed"
    /\ Len(owner) + Len(owners) <= MaxCalls
    /\ owner' = owner \o owners
    /\ fate' = fate \o [k \in DOMAIN owners |-> "waiting"]
    /\ UNCHANGED <<gone, session>>

Answer(c) ==
    /\ session # "closed"
    /\ Settle({c}, "answered")
    /\ UNCHANGED <<owner, gone, session>>

\* An owner is destroyed, and its commands are cancelled later.
Destroy(o) ==
    /\ session # "closed"
    /\ gone' = gone \union {o}
    /\ UNCHANGED <<owner, fate, session>>

Cancel(cs) ==
    /\ \A c \in cs : owner[c] \in gone
    /\ Settle(cs, "dropped")
    /\ UNCHANGED <<owner, gone, session>>

\* errorOccurred: the commands under way are lost, perhaps all.
Break(cs) ==
    /\ session = "open"
    /\ session' = "broken"
    /\ Settle(cs, "dropped")
    /\ UNCHANGED <<owner, gone>>

Lose(cs) ==
    /\ session # "open"
    /\ Settle(cs, "dropped")
    /\ UNCHANGED <<owner, gone, session>>

Close ==
    /\ session # "closed"
    /\ session' = "closed"
    /\ UNCHANGED <<owner, fate, gone>>

Next ==
    \/ \E n \in 1..MaxCalls : \E owners \in [1..n -> Owners \union {NoOwner}] : Post(owners)
    \/ \E c \in Waiting : Answer(c)
    \/ \E o \in Owners : Destroy(o)
    \/ \E cs \in SUBSET Waiting : Cancel(cs) \/ Break(cs) \/ Lose(cs)
    \/ Close

Spec == Init /\ [][Next]_vars

-----------------------------------------------------------------------------
(* Properties. *)

CallTypes ==
    /\ owner \in Seq(Owners \union {NoOwner})
    /\ fate \in Seq({"waiting", "answered", "dropped"})
    /\ Len(fate) = Len(owner)
    /\ session \in {"open", "broken", "closed"}

\* In a session that is well, a command is dropped only for its owner's sake.
DroppedForOwner ==
    session = "open" => \A c \in DOMAIN fate : fate[c] = "dropped" => owner[c] \in gone

\* A command that was answered is not dropped later, nor answered again, and one
\* that was dropped stays so.
SettledForGood ==
    \A c \in DOMAIN fate : fate[c] # "waiting" => c \in DOMAIN fate' /\ fate'[c] = fate[c]

=============================================================================

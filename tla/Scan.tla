-------------------------------- MODULE Scan --------------------------------
(***************************************************************************)
(* Retrieving a collection page by page: retrieveCollection,               *)
(* retrieveCollectionIncrementally and processScanCommand of               *)
(* connection.cpp, with ScanCommand, against a server whose collection     *)
(* changes during the scan.                                                *)
(*                                                                         *)
(* A cursor is the number of buckets the server has gone through; a page   *)
(* holds what is in the next ones, as many as the server likes, and its    *)
(* cursor is 0 after the last.                                             *)
(***************************************************************************)
EXTENDS Integers, Sequences

CONSTANTS
    Elements, \* what the collection may contain
    Buckets,  \* the number of buckets in the server
    Bucket,   \* the bucket of each element
    Faults    \* a subset of {"error", "invalid", "lost"}

ASSUME BucketsAssumption == Buckets \in Nat \ {0} /\ Bucket \in [Elements -> 1..Buckets]
ASSUME FaultsAssumption == Faults \subseteq {"error", "invalid", "lost"}

VARIABLES
    \* the client
    phase,        \* "idle", "asked", "replied", "ended" or "lost"
    cmd,          \* the ScanCommand under way
    byPages,      \* whether retrieveCollectionIncrementally was called
    incrementalProcessing, \* the argument of processScanCommand
    result,       \* *result: what has been collected
    calls,        \* the calls of the user's callback
    \* the server
    reply,        \* its last reply
    present,      \* what is in the collection now
    throughout,   \* what has been in it ever since the scan started
    disabled      \* the commands it does not know

clientVars == <<phase, cmd, byPages, incrementalProcessing, result, calls>>
serverVars == <<reply, present, throughout, disabled>>
vars == <<clientVars, serverVars>>

-----------------------------------------------------------------------------

Cursors == 0..(Buckets - 1)

\* "hscan" stands for SSCAN and ZSCAN too.
Verbs == {"scan", "hscan", "iscan"}
ScanCommand == [verb : Verbs, cursor : Cursors]

Page(items, cursor) == [kind |-> "page", items |-> items, cursor |-> cursor]
Failure(kind) == [kind |-> kind, items |-> {}, cursor |-> 0]
Response == [kind : {"none", "page", "unknown", "error", "invalid"},
             items : SUBSET Elements, cursor : Cursors]

\* The cursor of a command stays a cursor of the server, and what is collected
\* and delivered stays in the collection's type.
TypeOK ==
    /\ phase \in {"idle", "asked", "replied", "ended", "lost"}
    /\ cmd \in ScanCommand
    /\ byPages \in BOOLEAN
    /\ incrementalProcessing \in BOOLEAN
    /\ result \subseteq Elements
    /\ calls \in Seq([value : SUBSET Elements, err : BOOLEAN, final : BOOLEAN])
    /\ reply \in Response
    /\ present \subseteq Elements
    /\ throughout \subseteq Elements
    /\ disabled \subseteq Verbs

Init ==
    /\ phase = "idle"
    /\ cmd = [verb |-> "scan", cursor |-> 0]
    /\ byPages = FALSE
    /\ incrementalProcessing = FALSE
    /\ result = {}
    /\ calls = <<>>
    /\ reply = Failure("none")
    /\ present \in SUBSET Elements
    /\ throughout = {}
    /\ disabled \in SUBSET Verbs

-----------------------------------------------------------------------------
(* The client. *)

\* Mutants: only SCAN has its cursor set; a bucket is skipped.
SetKeyCursor(c, cursor) ==
    IF cursor > 0 /\ c.verb = "scan" THEN [c EXCEPT !.cursor = cursor] ELSE c
SkipBucket(c, cursor) == [c EXCEPT !.cursor = cursor + 1]

\* setCursor knows SCAN and HSCAN, SSCAN, ZSCAN; it leaves any other command alone.
SetCursor(c, cursor) ==
    IF cursor > 0 /\ c.verb \in {"scan", "hscan"} THEN [c EXCEPT !.cursor = cursor] ELSE c

\* Mutant: the result is cleared before every page.
LastItems == reply.items
\* An incremental scan starts the result anew.
Collected == (IF incrementalProcessing THEN {} ELSE result) \union reply.items

\* runCommand with the callback that handles the next reply.
Ask(c, incremental) ==
    /\ cmd' = c
    /\ incrementalProcessing' = incremental
    /\ phase' = "asked"

\* retrieveCollection and retrieveCollectionIncrementally.
Retrieve(verb, incremental) ==
    /\ phase = "idle"
    /\ Ask([verb |-> verb, cursor |-> 0], incremental)
    /\ byPages' = incremental
    /\ throughout' = present
    /\ UNCHANGED <<result, calls, reply, present, disabled>>

\* callback(value, err).  The end of an incremental scan is announced by the
\* error END_OF_COLLECTION, which the callback of the user sees as final.
Callback(value, err, endOfCollection) ==
    /\ calls' = Append(calls, [value |-> value, err |-> err,
                               final |-> ~byPages \/ err \/ endOfCollection])
    /\ phase' = "ended"

\* A server that does not know SCAN is asked ISCAN instead.
TryIscan ==
    /\ phase = "replied"
    /\ reply.kind = "unknown" /\ cmd.verb = "scan"
    /\ Ask([cmd EXCEPT !.verb = "iscan"], incrementalProcessing)
    /\ UNCHANGED <<byPages, result, calls, serverVars>>

ReportError ==
    /\ phase = "replied"
    /\ reply.kind = "error" \/ (reply.kind = "unknown" /\ cmd.verb # "scan")
    /\ Callback({}, TRUE, FALSE)
    /\ UNCHANGED <<cmd, byPages, incrementalProcessing, result, serverVars>>

\* A reply that is no page ends the scan with what there is.
EndOnInvalid ==
    /\ phase = "replied"
    /\ reply.kind = "invalid"
    /\ result' = IF incrementalProcessing THEN {} ELSE result
    /\ Callback(result', FALSE, incrementalProcessing /\ result' = {})
    /\ UNCHANGED <<cmd, byPages, incrementalProcessing, serverVars>>

LastPage ==
    /\ phase = "replied"
    /\ reply.kind = "page" /\ reply.cursor <= 0
    /\ result' = Collected
    /\ Callback(result', FALSE, incrementalProcessing)
    /\ UNCHANGED <<cmd, byPages, incrementalProcessing, serverVars>>

\* processScanCommand(newCmd, callback, result): not incremental from here on.
NextPage ==
    /\ phase = "replied"
    /\ reply.kind = "page" /\ reply.cursor > 0
    /\ result' = Collected
    /\ Ask(SetCursor(cmd, reply.cursor), FALSE)
    /\ UNCHANGED <<byPages, calls, serverVars>>

-----------------------------------------------------------------------------
(* The server and the connection to it. *)

Reply(r) ==
    /\ phase = "asked"
    /\ reply' = r
    /\ phase' = "replied"
    /\ UNCHANGED <<cmd, byPages, incrementalProcessing, result, calls, present, throughout,
                   disabled>>

ServerAnswers ==
    /\ cmd.verb \notin disabled
    /\ \E last \in (cmd.cursor + 1)..Buckets :
           Reply(Page({e \in present : Bucket[e] \in (cmd.cursor + 1)..last},
                      IF last = Buckets THEN 0 ELSE last))

ServerKnowsNoScan == cmd.verb \in disabled /\ Reply(Failure("unknown"))

ServerFails == \E kind \in Faults \intersect {"error", "invalid"} : Reply(Failure(kind))

\* The transporter drops the command: its callback is never called.
ConnectionLost ==
    /\ "lost" \in Faults
    /\ phase = "asked"
    /\ phase' = "lost"
    /\ UNCHANGED <<cmd, byPages, incrementalProcessing, result, calls, serverVars>>

\* Another client adds or removes an element.
Change(e) ==
    /\ present' = IF e \in present THEN present \ {e} ELSE present \union {e}
    /\ throughout' = throughout \ {e}
    /\ UNCHANGED <<clientVars, reply, disabled>>

-----------------------------------------------------------------------------

HandleReply == TryIscan \/ ReportError \/ EndOnInvalid \/ LastPage \/ NextPage

Next ==
    \/ \E verb \in {"scan", "hscan"}, incremental \in BOOLEAN : Retrieve(verb, incremental)
    \/ HandleReply
    \/ ServerAnswers \/ ServerKnowsNoScan \/ ServerFails \/ ConnectionLost
    \/ \E e \in Elements : Change(e)

Spec == Init /\ [][Next]_vars

\* The server answers and the event loop delivers.
FairSpec == Spec /\ WF_vars(ServerAnswers \/ ServerKnowsNoScan) /\ WF_vars(HandleReply)

-----------------------------------------------------------------------------
(* Properties. *)

\* A scan that ends with a last page has delivered every element that was in
\* the collection from its start to its end (result, setCursor).
Complete ==
    phase = "ended" /\ reply.kind = "page" =>
        throughout \subseteq UNION {calls[k].value : k \in DOMAIN calls}

\* A scan of a server that knows the command ends, unless the connection fails.
ScanEnds == (phase = "asked" /\ "scan" \notin disabled) ~> phase \in {"ended", "lost"}

=============================================================================

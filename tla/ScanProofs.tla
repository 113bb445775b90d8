----------------------------- MODULE ScanProofs -----------------------------
(***************************************************************************)
(* What a scan promises, for every collection, every cut of it into        *)
(* buckets and pages, and every change made to it meanwhile.               *)
(***************************************************************************)
EXTENDS Scan, TLAPS

\* The number of buckets that are done once the page in reply has been read.
PageEnd == IF reply.cursor = 0 THEN Buckets ELSE reply.cursor

\* What the buckets up to the cursor held has been collected.
CollectedSoFar ==
    phase \in {"asked", "replied"} =>
        \A e \in throughout : Bucket[e] <= cmd.cursor => e \in result

\* A page holds what its buckets held.
PageHolds ==
    phase = "replied" /\ reply.kind = "page" =>
        \A e \in throughout :
            cmd.cursor < Bucket[e] /\ Bucket[e] <= PageEnd => e \in reply.items

\* Only the first page can be asked for incrementally, so that clearing the
\* result drops nothing.
ClearsNothing ==
    phase \in {"asked", "replied"} /\ incrementalProcessing => cmd.cursor = 0

\* What has been there throughout is there now.
StillPresent == throughout \subseteq present

ScanInvariant ==
    TypeOK /\ StillPresent /\ CollectedSoFar /\ PageHolds /\ ClearsNothing /\ Complete

-----------------------------------------------------------------------------

\* The operands of the actions stay in their types.
LEMMA PageTypes ==
    ASSUME TypeOK
    PROVE  /\ \A c \in Cursors : SetCursor(cmd, c) \in ScanCommand
           /\ Collected \subseteq Elements
           /\ \A kind \in {"none", "unknown", "error", "invalid"} : Failure(kind) \in Response
BY BucketsAssumption DEF TypeOK, SetCursor, ScanCommand, Verbs, Collected, Failure, Response,
   Cursors

LEMMA InitInvariant == Init => ScanInvariant
<1> SUFFICES ASSUME Init PROVE ScanInvariant
    OBVIOUS
<1>1. 0 \in Cursors
    BY BucketsAssumption DEF Cursors
<1>2. cmd \in ScanCommand /\ reply \in Response
    BY <1>1 DEF Init, ScanCommand, Verbs, Failure, Response
<1>3. calls \in Seq([value : SUBSET Elements, err : BOOLEAN, final : BOOLEAN])
    BY DEF Init
<1>4. TypeOK
    BY <1>2, <1>3 DEF Init, TypeOK
<1> QED
    BY <1>4 DEF Init, ScanInvariant, StillPresent, CollectedSoFar, PageHolds, ClearsNothing,
       Complete

\* A page read: what it adds to the result.
LEMMA PageRead ==
    ASSUME ScanInvariant, phase = "replied", reply.kind = "page"
    PROVE  \A e \in throughout : Bucket[e] <= PageEnd => e \in Collected
<1> SUFFICES ASSUME NEW e \in throughout, Bucket[e] <= PageEnd
             PROVE  e \in Collected
    OBVIOUS
<1>1. Bucket[e] \in 1..Buckets /\ cmd.cursor \in 0..(Buckets - 1)
    BY BucketsAssumption DEF ScanInvariant, TypeOK, ScanCommand, Cursors
<1>2. CASE Bucket[e] <= cmd.cursor
    <2>1. e \in result
        BY <1>2 DEF ScanInvariant, CollectedSoFar
    <2>2. ~incrementalProcessing
        BY <1>1, <1>2, BucketsAssumption DEF ScanInvariant, ClearsNothing
    <2> QED
        BY <2>1, <2>2 DEF Collected
<1>3. CASE cmd.cursor < Bucket[e]
    BY <1>3 DEF ScanInvariant, PageHolds, Collected
<1> QED
    BY <1>1, <1>2, <1>3, BucketsAssumption

-----------------------------------------------------------------------------
(* The steps of the client. *)

LEMMA RetrieveStep ==
    ASSUME ScanInvariant, NEW verb \in {"scan", "hscan"}, NEW incremental \in BOOLEAN,
           Retrieve(verb, incremental)
    PROVE  ScanInvariant'
<1>1. TypeOK'
    BY BucketsAssumption DEF ScanInvariant, TypeOK, Retrieve, Ask, ScanCommand, Verbs, Cursors
<1>2. cmd'.cursor = 0 /\ phase' = "asked" /\ throughout' \subseteq Elements
    BY DEF ScanInvariant, TypeOK, Retrieve, Ask
<1>3. \A e \in throughout' : Bucket[e] \in 1..Buckets
    BY <1>2, BucketsAssumption
<1> QED
    BY <1>1, <1>2, <1>3, BucketsAssumption DEF ScanInvariant, StillPresent, CollectedSoFar, PageHolds,
       ClearsNothing, Complete, Retrieve, Ask

LEMMA ReplyStep ==
    ASSUME ScanInvariant, HandleReply
    PROVE  ScanInvariant'
<1> USE DEF ScanInvariant
<1>1. CASE TryIscan
    <2>1. TypeOK'
        BY <1>1 DEF TryIscan, Ask, TypeOK, ScanCommand, Verbs, serverVars
    <2>2. cmd'.cursor = cmd.cursor
        BY <1>1 DEF TryIscan, Ask, TypeOK, ScanCommand
    <2> QED
        BY <1>1, <2>1, <2>2 DEF TryIscan, Ask, StillPresent, CollectedSoFar, PageHolds, ClearsNothing,
           Complete, serverVars
<1>2. CASE ReportError
    BY <1>2 DEF ReportError, Callback, TypeOK, StillPresent, CollectedSoFar, PageHolds, ClearsNothing,
       Complete, serverVars
<1>3. CASE EndOnInvalid
    BY <1>3 DEF EndOnInvalid, Callback, TypeOK, StillPresent, CollectedSoFar, PageHolds, ClearsNothing,
       Complete, serverVars
<1>4. CASE LastPage
    <2>1. TypeOK'
        BY <1>4, PageTypes DEF LastPage, Callback, TypeOK, serverVars
    <2>2. PageEnd = Buckets
        BY <1>4, BucketsAssumption DEF LastPage, PageEnd, TypeOK, Response, Cursors
    <2>3. throughout \subseteq Collected
        <3> SUFFICES ASSUME NEW e \in throughout PROVE e \in Collected
            OBVIOUS
        <3>1. Bucket[e] \in 1..Buckets
            BY BucketsAssumption DEF TypeOK
        <3> QED
            BY <1>4, <2>2, <3>1, PageRead, BucketsAssumption DEF LastPage
    <2>4. Len(calls') \in DOMAIN calls' /\ calls'[Len(calls')].value = Collected
        BY <1>4 DEF LastPage, Callback, TypeOK
    <2>5. Complete'
        BY <1>4, <2>3, <2>4 DEF LastPage, Complete, serverVars
    <2> QED
        BY <1>4, <2>1, <2>5 DEF LastPage, Callback, serverVars, StillPresent, CollectedSoFar, PageHolds,
           ClearsNothing
<1>5. CASE NextPage
    <2>1. TypeOK'
        BY <1>5, PageTypes DEF NextPage, Ask, TypeOK, Response, serverVars
    <2>2. reply.cursor \in Cursors /\ reply.cursor # 0 /\ PageEnd = reply.cursor
        BY <1>5, BucketsAssumption DEF NextPage, PageEnd, TypeOK, Response, Cursors
    <2>3. cmd'.cursor \in {cmd.cursor, reply.cursor}
        BY <1>5 DEF NextPage, Ask, SetCursor, TypeOK, ScanCommand
    <2>4. CollectedSoFar'
        <3> SUFFICES ASSUME NEW e \in throughout, Bucket[e] <= cmd'.cursor
                     PROVE  e \in Collected
            BY <1>5 DEF CollectedSoFar, NextPage, serverVars
        <3>1. CASE cmd'.cursor = reply.cursor
            BY <1>5, <2>2, <3>1, PageRead DEF NextPage
        <3>2. CASE cmd'.cursor = cmd.cursor
            <4>1. Bucket[e] \in 1..Buckets /\ cmd.cursor \in 0..(Buckets - 1)
                BY BucketsAssumption DEF TypeOK, ScanCommand, Cursors
            <4>2. e \in result
                BY <1>5, <3>2 DEF CollectedSoFar, NextPage
            <4>3. ~incrementalProcessing
                BY <1>5, <3>2, <4>1, BucketsAssumption DEF ClearsNothing, NextPage
            <4> QED
                BY <4>2, <4>3 DEF Collected
        <3> QED
            BY <2>3, <3>1, <3>2
    <2> QED
        BY <1>5, <2>1, <2>4 DEF NextPage, Ask, serverVars, StillPresent, PageHolds, ClearsNothing, Complete
<1> QED
    BY <1>1, <1>2, <1>3, <1>4, <1>5 DEF HandleReply

-----------------------------------------------------------------------------
(* The steps of the server and of its other clients. *)

LEMMA ServerStep ==
    ASSUME ScanInvariant,
           ServerAnswers \/ ServerKnowsNoScan \/ ServerFails \/ ConnectionLost
    PROVE  ScanInvariant'
<1> USE DEF ScanInvariant
<1>1. CASE ServerAnswers
    <2>1. PICK last \in (cmd.cursor + 1)..Buckets :
              Reply(Page({e \in present : Bucket[e] \in (cmd.cursor + 1)..last},
                         IF last = Buckets THEN 0 ELSE last))
        BY <1>1 DEF ServerAnswers
    <2>2. cmd.cursor \in 0..(Buckets - 1) /\ last \in 1..Buckets
        BY BucketsAssumption DEF TypeOK, ScanCommand, Cursors
    <2>3. /\ reply'.items = {e \in present : Bucket[e] \in (cmd.cursor + 1)..last}
          /\ reply'.cursor = IF last = Buckets THEN 0 ELSE last
          /\ reply' \in Response
        BY <2>1, <2>2, BucketsAssumption DEF Reply, Page, Response, TypeOK, Cursors
    <2>4. TypeOK'
        BY <2>1, <2>3 DEF Reply, TypeOK
    <2>5. PageEnd' = last
        BY <2>2, <2>3, BucketsAssumption DEF PageEnd
    <2>6. PageHolds'
        <3> SUFFICES ASSUME NEW e \in throughout, cmd.cursor < Bucket[e], Bucket[e] <= last
                     PROVE  e \in reply'.items
            BY <2>1, <2>5 DEF PageHolds, Reply
        <3>1. e \in present
            BY DEF StillPresent
        <3> QED
            BY <2>2, <2>3, <3>1, BucketsAssumption DEF TypeOK
    <2> QED
        BY <2>1, <2>4, <2>6 DEF Reply, StillPresent, CollectedSoFar, ClearsNothing, Complete
<1>2. ASSUME NEW kind \in {"unknown", "error", "invalid"}, Reply(Failure(kind))
      PROVE  ScanInvariant'
    <2>1. TypeOK'
        BY <1>2, PageTypes DEF Reply, TypeOK
    <2>2. reply'.kind = kind
        BY <1>2 DEF Reply, Failure
    <2> QED
        BY <1>2, <2>1, <2>2 DEF Reply, StillPresent, CollectedSoFar, PageHolds, ClearsNothing,
           Complete
<1>3. CASE ServerKnowsNoScan
    BY <1>2, <1>3 DEF ServerKnowsNoScan
<1>4. CASE ServerFails
    BY <1>2, <1>4 DEF ServerFails
<1>5. CASE ConnectionLost
    BY <1>5 DEF ConnectionLost, serverVars, TypeOK, StillPresent, CollectedSoFar, PageHolds,
       ClearsNothing, Complete
<1> QED
    BY <1>1, <1>3, <1>4, <1>5

LEMMA ChangeStep ==
    ASSUME ScanInvariant, NEW e \in Elements, Change(e)
    PROVE  ScanInvariant'
<1>1. throughout' \subseteq throughout /\ throughout' \subseteq present'
    BY DEF Change, ScanInvariant, StillPresent
<1>2. TypeOK'
    BY <1>1 DEF Change, ScanInvariant, TypeOK, clientVars
<1>3. PageEnd' = PageEnd
    BY DEF Change, PageEnd
<1> QED
    BY <1>1, <1>2, <1>3 DEF Change, clientVars, ScanInvariant, StillPresent, CollectedSoFar,
       PageHolds, ClearsNothing, Complete

-----------------------------------------------------------------------------

\* The invariant holds in every state of every scan.
THEOREM ScanInvariantHolds == Spec => []ScanInvariant
<1>1. ScanInvariant /\ [Next]_vars => ScanInvariant'
    <2> SUFFICES ASSUME ScanInvariant, [Next]_vars PROVE ScanInvariant'
        OBVIOUS
    <2>1. CASE UNCHANGED vars
        BY <2>1 DEF vars, clientVars, serverVars, ScanInvariant, TypeOK, StillPresent,
           CollectedSoFar, PageHolds, PageEnd, ClearsNothing, Complete
    <2>2. CASE Next
        BY <2>2, RetrieveStep, ReplyStep, ServerStep, ChangeStep DEF Next
    <2> QED
        BY <2>1, <2>2
<1> QED
    BY InitInvariant, <1>1, PTL DEF Spec

\* Every variable of a scan stays in its type: the cursor that NextPage sends names
\* a bucket, and a page and the result hold nothing but elements.
THEOREM ScanTypes == Spec => []TypeOK
BY ScanInvariantHolds, PTL DEF ScanInvariant

\* A scan that ends with a last page has delivered every element that was in
\* the collection from its start to its end: processScanCommand and setCursor
\* neither skip nor drop a page, however the server cuts and changes it.
THEOREM ScanIsComplete == Spec => []Complete
BY ScanInvariantHolds, PTL DEF ScanInvariant

=============================================================================

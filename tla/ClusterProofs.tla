--------------------------- MODULE ClusterProofs ---------------------------
(***************************************************************************)
(* A session in cluster mode answers the commands of a slot in the order   *)
(* they were posted, whatever is redirected, reconnected and moved; it is  *)
(* not given up for redirects while the slots stay where they are; and a   *)
(* walk that has it to itself visits every master node, once.              *)
(***************************************************************************)
EXTENDS Cluster, SubsequencesProofs

-----------------------------------------------------------------------------
(* Sequences, of whatever. *)

IsSeq(s) == \E S : s \in Seq(S)

LEMMA IsSeqFacts ==
    ASSUME NEW s, IsSeq(s)
    PROVE  /\ Len(s) \in Nat /\ DOMAIN s = 1..Len(s)
           /\ s # <<>> => /\ 1 \in DOMAIN s /\ Head(s) = s[1] /\ IsSeq(Tail(s))
                          /\ Len(Tail(s)) = Len(s) - 1 /\ DOMAIN Tail(s) = 1..(Len(s) - 1)
                          /\ \A k \in DOMAIN Tail(s) : k + 1 \in DOMAIN s /\ Tail(s)[k] = s[k + 1]
<1>1. PICK S : s \in Seq(S)
    BY DEF IsSeq
<1>2. Len(s) \in Nat /\ DOMAIN s = 1..Len(s)
    BY <1>1, SeqFacts
<1>3. s # <<>> => /\ 1 \in DOMAIN s /\ Head(s) = s[1] /\ Tail(s) \in Seq(S)
                  /\ Len(Tail(s)) = Len(s) - 1 /\ DOMAIN Tail(s) = 1..(Len(s) - 1)
                  /\ \A k \in DOMAIN Tail(s) : k + 1 \in DOMAIN s /\ Tail(s)[k] = s[k + 1]
    BY <1>1, TailFacts
<1> QED
    BY <1>2, <1>3 DEF IsSeq

LEMMA IsSeqConcat ==
    ASSUME NEW s, NEW t, IsSeq(s), IsSeq(t)
    PROVE  /\ IsSeq(s \o t) /\ Len(s \o t) = Len(s) + Len(t)
           /\ DOMAIN (s \o t) = 1..(Len(s) + Len(t))
           /\ \A k \in DOMAIN s : k \in DOMAIN (s \o t) /\ (s \o t)[k] = s[k]
           /\ \A k \in DOMAIN t : Len(s) + k \in DOMAIN (s \o t) /\ (s \o t)[Len(s) + k] = t[k]
           /\ \A k \in DOMAIN (s \o t) : k \in DOMAIN s \/ k - Len(s) \in DOMAIN t
<1>1. PICK S, T : s \in Seq(S) /\ t \in Seq(T)
    BY DEF IsSeq
<1>2. s \in Seq(S \union T) /\ t \in Seq(S \union T)
    <2>1. S \subseteq S \union T /\ T \subseteq S \union T
        OBVIOUS
    <2> QED
        BY <1>1, <2>1, SeqGrows
<1>3. IsSeq(s \o t)
    BY <1>2, ConcatFacts DEF IsSeq
<1> QED
    BY <1>2, <1>3, ConcatFacts

LEMMA IsSeqAppend ==
    ASSUME NEW s, NEW e, IsSeq(s)
    PROVE  /\ IsSeq(Append(s, e)) /\ DOMAIN Append(s, e) = 1..(Len(s) + 1)
           /\ Len(Append(s, e)) = Len(s) + 1
           /\ \A k \in DOMAIN s : k \in DOMAIN Append(s, e) /\ Append(s, e)[k] = s[k]
           /\ Append(s, e)[Len(s) + 1] = e
<1>1. PICK S : s \in Seq(S)
    BY DEF IsSeq
<1>2. s \in Seq(S \union {e}) /\ e \in S \union {e}
    <2>1. S \subseteq S \union {e}
        OBVIOUS
    <2> QED
        BY <1>1, <2>1, SeqGrows
<1>3. IsSeq(Append(s, e))
    BY <1>2, AppendFacts DEF IsSeq
<1> QED
    BY <1>2, <1>3, AppendFacts

\* Taking the i-th element out.
LEMMA IsSeqRemoveAt ==
    ASSUME NEW s, IsSeq(s), NEW i \in DOMAIN s
    PROVE  /\ IsSeq(RemoveAt(s, i)) /\ DOMAIN RemoveAt(s, i) = 1..(Len(s) - 1)
           /\ \A k \in DOMAIN RemoveAt(s, i) :
                  IF k < i THEN k \in DOMAIN s /\ RemoveAt(s, i)[k] = s[k]
                  ELSE k + 1 \in DOMAIN s /\ RemoveAt(s, i)[k] = s[k + 1]
<1> DEFINE a == SubSeq(s, 1, i - 1)
           b == SubSeq(s, i + 1, Len(s))
<1>1. PICK S : s \in Seq(S)
    BY DEF IsSeq
<1>2. Len(s) \in Nat /\ DOMAIN s = 1..Len(s) /\ i \in 1..Len(s) /\ \A k \in 1..Len(s) : s[k] \in S
    BY <1>1, SeqFacts
<1>3. /\ a \in Seq(S) /\ Len(a) = i - 1
      /\ \A k \in 1..(i - 1) : a[k] = s[k]
    <2>1. /\ 1 \in Int /\ i - 1 \in Int /\ \A k \in 1..(i - 1) : s[k] \in S
          /\ (i - 1) - 1 + 1 = i - 1 /\ \A k \in 1..(i - 1) : 1 + k - 1 = k
          /\ (IF 1 <= i - 1 THEN (i - 1) - 1 + 1 ELSE 0) = i - 1
        BY <1>2
    <2> QED
        BY <2>1, SubSeqProperties
<1>4. /\ b \in Seq(S) /\ Len(b) = Len(s) - i
      /\ \A k \in 1..(Len(s) - i) : b[k] = s[i + k]
    <2>1. /\ i + 1 \in Int /\ Len(s) \in Int /\ \A k \in (i + 1)..Len(s) : s[k] \in S
          /\ Len(s) - (i + 1) + 1 = Len(s) - i /\ \A k \in 1..(Len(s) - i) : (i + 1) + k - 1 = i + k
          /\ (IF i + 1 <= Len(s) THEN Len(s) - (i + 1) + 1 ELSE 0) = Len(s) - i
        BY <1>2
    <2> QED
        BY <2>1, SubSeqProperties
<1> HIDE DEF a, b
<1>5. /\ a \o b \in Seq(S) /\ DOMAIN (a \o b) = 1..(Len(s) - 1)
      /\ \A k \in 1..(Len(s) - 1) : (a \o b)[k] = IF k <= i - 1 THEN a[k] ELSE b[k - (i - 1)]
    <2>1. /\ a \o b \in Seq(S) /\ Len(a \o b) = Len(a) + Len(b)
          /\ \A k \in 1..(Len(a) + Len(b)) : (a \o b)[k] = IF k <= Len(a) THEN a[k] ELSE b[k - Len(a)]
        BY <1>3, <1>4, ConcatProperties
    <2>2. Len(a) + Len(b) = Len(s) - 1
        BY <1>2, <1>3, <1>4
    <2>3. DOMAIN (a \o b) = 1..Len(a \o b)
        BY <2>1, SeqFacts
    <2>4. \A k \in 1..(Len(s) - 1) : (a \o b)[k] = IF k <= Len(a) THEN a[k] ELSE b[k - Len(a)]
        BY <2>1, <2>2
    <2>5. Len(a) = i - 1
        BY <1>3
    <2> QED
        BY <2>1, <2>2, <2>3, <2>4, <2>5
<1>6. RemoveAt(s, i) = a \o b
    BY DEF RemoveAt, a, b
<1>7. ASSUME NEW k \in 1..(Len(s) - 1)
      PROVE  IF k < i THEN k \in 1..Len(s) /\ (a \o b)[k] = s[k]
             ELSE k + 1 \in 1..Len(s) /\ (a \o b)[k] = s[k + 1]
    <2>1. CASE k < i
        <3>1. k <= i - 1 /\ k \in 1..(i - 1) /\ k \in 1..Len(s)
            BY <1>2, <2>1
        <3> QED
            BY <1>3, <1>5, <2>1, <3>1
    <2>2. CASE ~(k < i)
        <3>1. ~(k <= i - 1) /\ k - (i - 1) \in 1..(Len(s) - i) /\ i + (k - (i - 1)) = k + 1
              /\ k + 1 \in 1..Len(s)
            BY <1>2, <2>2
        <3> QED
            BY <1>4, <1>5, <2>2, <3>1
    <2> QED
        BY <2>1, <2>2
<1> QED
    BY <1>2, <1>5, <1>6, <1>7 DEF IsSeq

\* What is in a sequence that another one becomes.
LEMMA RangeEmpty == IsSeq(<<>>) /\ Range(<<>>) = {} /\ Len(<<>>) = 0
<1>1. <<>> \in Seq({}) /\ Len(<<>>) = 0
    OBVIOUS
<1>2. DOMAIN <<>> = 1..0
    BY <1>1, SeqFacts
<1>3. DOMAIN <<>> = {}
    BY <1>2
<1>4. Range(<<>>) = {}
    BY <1>3 DEF Range
<1> QED
    BY <1>1, <1>4 DEF IsSeq

LEMMA RangeOne == ASSUME NEW e PROVE IsSeq(<<e>>) /\ Range(<<e>>) = {e} /\ Len(<<e>>) = 1
<1>1. <<e>> \in Seq({e}) /\ Len(<<e>>) = 1 /\ <<e>>[1] = e
    OBVIOUS
<1>2. DOMAIN <<e>> = 1..1
    BY <1>1, SeqFacts
<1>3. DOMAIN <<e>> = {1}
    BY <1>2
<1>4. Range(<<e>>) = {e}
    BY <1>1, <1>3 DEF Range
<1> QED
    BY <1>1, <1>4 DEF IsSeq

LEMMA RangeTail ==
    ASSUME NEW s, IsSeq(s), s # <<>>
    PROVE  /\ IsSeq(Tail(s)) /\ Head(s) \in Range(s) /\ Range(Tail(s)) \subseteq Range(s)
           /\ Range(s) = {Head(s)} \union Range(Tail(s))
           /\ Len(s) \in Nat /\ Len(Tail(s)) = Len(s) - 1
<1>1. /\ Len(s) \in Nat /\ DOMAIN s = 1..Len(s) /\ 1 \in DOMAIN s /\ Head(s) = s[1] /\ IsSeq(Tail(s))
      /\ Len(Tail(s)) = Len(s) - 1 /\ DOMAIN Tail(s) = 1..(Len(s) - 1)
      /\ \A k \in DOMAIN Tail(s) : k + 1 \in DOMAIN s /\ Tail(s)[k] = s[k + 1]
    BY IsSeqFacts
<1>2. \A k \in DOMAIN s : k = 1 \/ (k - 1 \in DOMAIN Tail(s) /\ Tail(s)[k - 1] = s[k])
    BY <1>1
<1>3. Range(Tail(s)) \subseteq Range(s) /\ Head(s) \in Range(s)
    BY <1>1 DEF Range
<1>4. Range(s) \subseteq {Head(s)} \union Range(Tail(s))
    BY <1>1, <1>2 DEF Range
<1> QED
    BY <1>1, <1>3, <1>4

LEMMA RangeAppend ==
    ASSUME NEW s, NEW e, IsSeq(s)
    PROVE  /\ IsSeq(Append(s, e)) /\ Range(Append(s, e)) = Range(s) \union {e}
           /\ Len(s) \in Nat /\ Len(Append(s, e)) = Len(s) + 1
<1>1. /\ Len(s) \in Nat /\ DOMAIN s = 1..Len(s)
      /\ IsSeq(Append(s, e)) /\ DOMAIN Append(s, e) = 1..(Len(s) + 1)
      /\ Len(Append(s, e)) = Len(s) + 1
      /\ \A k \in DOMAIN s : k \in DOMAIN Append(s, e) /\ Append(s, e)[k] = s[k]
      /\ Append(s, e)[Len(s) + 1] = e
    BY IsSeqAppend, IsSeqFacts
<1>2. \A k \in DOMAIN Append(s, e) : k \in DOMAIN s \/ k = Len(s) + 1
    BY <1>1
<1>3. Len(s) + 1 \in DOMAIN Append(s, e)
    BY <1>1
<1>4. Range(Append(s, e)) = Range(s) \union {e}
    BY <1>1, <1>2, <1>3 DEF Range
<1> QED
    BY <1>1, <1>4

LEMMA RangeConcat ==
    ASSUME NEW s, NEW t, IsSeq(s), IsSeq(t)
    PROVE  IsSeq(s \o t) /\ Range(s \o t) = Range(s) \union Range(t)
<1>1. /\ IsSeq(s \o t) /\ Len(s \o t) = Len(s) + Len(t)
      /\ DOMAIN (s \o t) = 1..(Len(s) + Len(t))
      /\ \A k \in DOMAIN s : k \in DOMAIN (s \o t) /\ (s \o t)[k] = s[k]
      /\ \A k \in DOMAIN t : Len(s) + k \in DOMAIN (s \o t) /\ (s \o t)[Len(s) + k] = t[k]
      /\ \A k \in DOMAIN (s \o t) : k \in DOMAIN s \/ k - Len(s) \in DOMAIN t
    BY IsSeqConcat
<1>2. Len(s) \in Nat /\ Len(t) \in Nat
    BY IsSeqFacts
<1>3. \A k \in DOMAIN (s \o t) : Len(s) + (k - Len(s)) = k
    BY <1>1, <1>2
<1>4. Range(s \o t) \subseteq Range(s) \union Range(t)
    BY <1>1, <1>3 DEF Range
<1>5. Range(s) \subseteq Range(s \o t) /\ Range(t) \subseteq Range(s \o t)
    BY <1>1 DEF Range
<1> QED
    BY <1>1, <1>4, <1>5

LEMMA RangeRemoveAt ==
    ASSUME NEW s, IsSeq(s), NEW i \in DOMAIN s
    PROVE  s[i] \in Range(s) /\ Range(RemoveAt(s, i)) \subseteq Range(s)
BY IsSeqRemoveAt DEF Range

LEMMA RemoveAtTypes ==
    ASSUME NEW S, NEW s \in Seq(S), NEW i \in DOMAIN s
    PROVE  RemoveAt(s, i) \in Seq(S)
<1>1. /\ IsSeq(RemoveAt(s, i))
      /\ \A k \in DOMAIN RemoveAt(s, i) :
             IF k < i THEN k \in DOMAIN s /\ RemoveAt(s, i)[k] = s[k]
             ELSE k + 1 \in DOMAIN s /\ RemoveAt(s, i)[k] = s[k + 1]
    BY IsSeqRemoveAt DEF IsSeq
<1>2. \A k \in DOMAIN RemoveAt(s, i) : RemoveAt(s, i)[k] \in S
    BY <1>1, SeqFacts
<1> DEFINE t == RemoveAt(s, i)
<1>3. IsSeq(t) /\ \A k \in DOMAIN t : t[k] \in S
    BY <1>1, <1>2
<1> HIDE DEF t
<1>4. PICK T : t \in Seq(T)
    BY <1>3 DEF IsSeq
<1>5. Len(t) \in Nat /\ t \in [1..Len(t) -> T] /\ DOMAIN t = 1..Len(t)
    BY <1>4, LenProperties
<1>6. t \in [1..Len(t) -> S]
    BY <1>3, <1>5
<1>7. t \in Seq(S)
    BY <1>5, <1>6, IsASeq
<1> QED
    BY <1>7 DEF t

-----------------------------------------------------------------------------
(* The line in which the commands of a slot stand. *)

\* Commands of one slot, the first of which was posted first.
Before(c, d) == c.kind = "key" /\ d.kind = "key" /\ c.slot = d.slot => c.id < d.id
After(d, ids, slots) == \A j \in DOMAIN ids : d.kind = "key" /\ slots[ids[j]] = d.slot => ids[j] < d.id
Genuine(d, slots) == d.kind = "key" => d.id \in DOMAIN slots /\ d.slot = slots[d.id]
Fresh(d) == Genuine(d, submitted) /\ After(d, answered, submitted)

Added == {k \in DOMAIN inbox : inbox[k].type = "add"}

Sequences ==
    /\ submitted \in Seq(Slots) /\ IsSeq(contexts) /\ IsSeq(inbox) /\ IsSeq(answered)
    /\ IsSeq(commands) /\ IsSeq(internalCommands) /\ IsSeq(runningCommands) /\ IsSeq(requests)

\* Every request has a command that waits for its reply.
RequestsHaveCommands == Len(requests) <= Len(runningCommands)

\* A user's command runs beside no other.
OneKeyRuns ==
    \A j, k \in DOMAIN runningCommands :
        runningCommands[j].kind = "key" /\ runningCommands[k].kind = "key" => j = k
NoKeyInside == \A k \in DOMAIN internalCommands : internalCommands[k].kind # "key"

RunningInLine ==
    \A k \in DOMAIN runningCommands : Fresh(runningCommands[k])
CommandsInLine ==
    \A k \in DOMAIN commands :
        /\ Fresh(commands[k])
        /\ \A j \in DOMAIN commands : j < k => Before(commands[j], commands[k])
        /\ \A j \in DOMAIN runningCommands : Before(runningCommands[j], commands[k])
InboxInLine ==
    \A k \in Added :
        /\ Fresh(inbox[k].cmd)
        /\ \A j \in Added : j < k => Before(inbox[j].cmd, inbox[k].cmd)
        /\ \A j \in DOMAIN runningCommands : Before(runningCommands[j], inbox[k].cmd)
        /\ \A j \in DOMAIN commands : Before(commands[j], inbox[k].cmd)
AnsweredGenuine == \A j \in DOMAIN answered : answered[j] \in DOMAIN submitted

LineInvariant ==
    /\ Sequences /\ RequestsHaveCommands
    /\ OneKeyRuns /\ NoKeyInside
    /\ RunningInLine /\ CommandsInLine /\ InboxInLine
    /\ AnsweredGenuine /\ SlotOrder

LEMMA LineSeqs ==
    ASSUME LineInvariant
    PROVE  /\ Len(submitted) \in Nat /\ DOMAIN submitted = 1..Len(submitted)
           /\ Len(inbox) \in Nat /\ DOMAIN inbox = 1..Len(inbox)
           /\ Len(answered) \in Nat /\ DOMAIN answered = 1..Len(answered)
           /\ Len(commands) \in Nat /\ DOMAIN commands = 1..Len(commands)
           /\ Len(internalCommands) \in Nat /\ DOMAIN internalCommands = 1..Len(internalCommands)
           /\ Len(runningCommands) \in Nat /\ DOMAIN runningCommands = 1..Len(runningCommands)
           /\ Len(requests) \in Nat /\ DOMAIN requests = 1..Len(requests)
BY IsSeqFacts, SeqFacts DEF LineInvariant, Sequences

LEMMA InitLine == Init => LineInvariant
<1> SUFFICES ASSUME Init PROVE LineInvariant
    OBVIOUS
<1>1. IsSeq(<<>>) /\ <<>> \in Seq(Slots) /\ Len(<<>>) = 0
    <2>1. <<>> \in Seq({})
        OBVIOUS
    <2> QED
        BY <2>1 DEF IsSeq
<1> QED
    BY <1>1 DEF Init, LineInvariant, Sequences, RequestsHaveCommands, OneKeyRuns, NoKeyInside, RunningInLine,
                CommandsInLine, InboxInLine, Added, AnsweredGenuine, SlotOrder

\* Posting the calls of more, which are no user's commands.
NoKey(call) == call.type = "add" => call.cmd.kind # "key"
Posts(box, next) ==
    /\ IsSeq(next)
    /\ \A k \in DOMAIN next : (k \in DOMAIN box /\ next[k] = box[k]) \/ NoKey(next[k])

LEMMA PostsMore ==
    ASSUME NEW box, NEW next, NEW more, Posts(box, next), IsSeq(more),
           \A k \in DOMAIN more : NoKey(more[k])
    PROVE  Posts(box, next \o more)
<1> DEFINE all == next \o more
<1>1. IsSeq(next) /\ \A k \in DOMAIN next : (k \in DOMAIN box /\ next[k] = box[k]) \/ NoKey(next[k])
    BY DEF Posts
<1>2. Len(next) \in Nat
    BY <1>1, IsSeqFacts
<1>3. /\ IsSeq(all) /\ DOMAIN all = 1..(Len(next) + Len(more))
      /\ \A k \in DOMAIN next : all[k] = next[k]
      /\ \A k \in DOMAIN more : all[Len(next) + k] = more[k]
      /\ \A k \in DOMAIN all : k \in DOMAIN next \/ k - Len(next) \in DOMAIN more
    BY <1>1, IsSeqConcat
<1>4. Len(more) \in Nat
    BY IsSeqFacts
<1> HIDE DEF all
<1>5. \A k \in DOMAIN all : Len(next) + (k - Len(next)) = k
    BY <1>2, <1>3, <1>4
<1>6. \A k \in DOMAIN all : (k \in DOMAIN next /\ all[k] = next[k]) \/ NoKey(all[k])
    BY <1>3, <1>5
<1>7. Posts(box, all)
    BY <1>1, <1>3, <1>6 DEF Posts
<1> QED
    BY <1>7 DEF all

\* Commands of the library are posted, or nothing is.
LEMMA PostsLine ==
    ASSUME LineInvariant, Posts(inbox, inbox'), IsSeq(contexts'),
           UNCHANGED <<submitted, answered, queueVars, requests>>
    PROVE  LineInvariant'
<1>1. UNCHANGED <<submitted, answered, commands, internalCommands, runningCommands, requests>>
    BY DEF queueVars
<1>2. IsSeq(inbox')
    BY DEF Posts
<1>3. \A k \in Added' : \/ k \in Added /\ inbox'[k] = inbox[k]
                        \/ inbox'[k].cmd.kind # "key"
    BY DEF Added, Posts, NoKey
<1>4. Sequences' /\ RequestsHaveCommands' /\ OneKeyRuns' /\ NoKeyInside' /\ AnsweredGenuine' /\ SlotOrder'
    BY <1>1, <1>2 DEF LineInvariant, Sequences, RequestsHaveCommands, OneKeyRuns, NoKeyInside,
                      AnsweredGenuine, SlotOrder
<1>5. RunningInLine' /\ CommandsInLine'
    BY <1>1 DEF LineInvariant, RunningInLine, CommandsInLine, Fresh
<1>6. InboxInLine'
    <2>1. ASSUME NEW k \in Added, inbox'[k] = inbox[k], NEW j \in Added', j < k
          PROVE  Before(inbox'[j].cmd, inbox[k].cmd)
        BY <1>3, <2>1 DEF LineInvariant, InboxInLine, Before
    <2>2. ASSUME NEW k \in Added, inbox'[k] = inbox[k]
          PROVE  /\ Fresh(inbox[k].cmd)
                 /\ \A j \in DOMAIN runningCommands : Before(runningCommands[j], inbox[k].cmd)
                 /\ \A j \in DOMAIN commands : Before(commands[j], inbox[k].cmd)
        BY DEF LineInvariant, InboxInLine
    <2>3. ASSUME NEW k \in Added', inbox'[k].cmd.kind # "key"
          PROVE  /\ Genuine(inbox'[k].cmd, submitted) /\ After(inbox'[k].cmd, answered, submitted)
                 /\ \A c : Before(c, inbox'[k].cmd)
        BY <2>3 DEF Genuine, After, Before
    <2> QED
        BY <1>1, <1>3, <2>1, <2>2, <2>3 DEF InboxInLine, Fresh
<1> QED
    BY <1>4, <1>5, <1>6 DEF LineInvariant

\* A call is taken out of the inbox that is no command.
LEMMA TakesLine ==
    ASSUME LineInvariant, inbox # <<>>, inbox' = Tail(inbox)
    PROVE  /\ IsSeq(inbox') /\ 1 \in DOMAIN inbox /\ Head(inbox) = inbox[1]
           /\ \A k \in Added' : k + 1 \in Added /\ inbox'[k] = inbox[k + 1] /\ k \in Nat \ {0}
<1>1. IsSeq(inbox)
    BY DEF LineInvariant, Sequences
<1>2. /\ IsSeq(inbox') /\ 1 \in DOMAIN inbox /\ Head(inbox) = inbox[1] /\ Len(inbox) \in Nat
      /\ DOMAIN inbox' = 1..(Len(inbox) - 1)
      /\ \A k \in DOMAIN inbox' : k + 1 \in DOMAIN inbox /\ inbox'[k] = inbox[k + 1]
    BY <1>1, IsSeqFacts
<1> QED
    BY <1>2 DEF Added

\* Replies are read and calls are taken; the commands that still run or wait are those
\* that were there.
LEMMA LeavesLine ==
    ASSUME LineInvariant, inbox' = inbox \/ (inbox # <<>> /\ inbox' = Tail(inbox)),
           \/ runningCommands' = runningCommands /\ requests' = requests
           \/ runningCommands' \in {<<>>, runningCommands} /\ requests' = <<>>
           \/ requests # <<>> /\ runningCommands' = Tail(runningCommands) /\ requests' = Tail(requests),
           UNCHANGED <<submitted, answered, commands, internalCommands>>, IsSeq(contexts')
    PROVE  LineInvariant'
<1>1. /\ IsSeq(runningCommands) /\ IsSeq(requests) /\ IsSeq(inbox) /\ Len(<<>>) = 0
      /\ Len(runningCommands) \in Nat /\ Len(requests) \in Nat /\ Len(requests) <= Len(runningCommands)
      /\ (requests # <<>> => runningCommands # <<>>)
    BY LineSeqs, EmptySeq DEF LineInvariant, Sequences, RequestsHaveCommands
<1>2. IsSeq(<<>>)
    <2>1. <<>> \in Seq({})
        OBVIOUS
    <2> QED
        BY <2>1 DEF IsSeq
<1>3. /\ IsSeq(runningCommands') /\ IsSeq(requests') /\ Len(requests') <= Len(runningCommands')
      /\ \/ \A k \in DOMAIN runningCommands' :
                k \in DOMAIN runningCommands /\ runningCommands'[k] = runningCommands[k]
         \/ \A k \in DOMAIN runningCommands' :
                k \in Int /\ k + 1 \in DOMAIN runningCommands /\ runningCommands'[k] = runningCommands[k + 1]
    <2>1. CASE runningCommands' = runningCommands /\ requests' = requests
        BY <1>1, <2>1
    <2>2. CASE runningCommands' \in {<<>>, runningCommands} /\ requests' = <<>>
        BY <1>1, <1>2, <2>2
    <2>3. CASE requests # <<>> /\ runningCommands' = Tail(runningCommands) /\ requests' = Tail(requests)
        <3>1. /\ IsSeq(runningCommands') /\ Len(runningCommands') = Len(runningCommands) - 1
              /\ DOMAIN runningCommands' = 1..(Len(runningCommands) - 1)
              /\ \A k \in DOMAIN runningCommands' :
                     k + 1 \in DOMAIN runningCommands /\ runningCommands'[k] = runningCommands[k + 1]
            BY <1>1, <2>3, IsSeqFacts
        <3>2. IsSeq(requests') /\ Len(requests') = Len(requests) - 1
            BY <1>1, <2>3, IsSeqFacts
        <3> QED
            BY <1>1, <3>1, <3>2
    <2> QED
        BY <2>1, <2>2, <2>3
<1>4. /\ IsSeq(inbox')
      /\ \/ \A k \in Added' : k \in Added /\ inbox'[k] = inbox[k]
         \/ \A k \in Added' : k \in Int /\ k + 1 \in Added /\ inbox'[k] = inbox[k + 1]
    BY <1>1, TakesLine DEF Added
<1>5. \A j \in DOMAIN runningCommands' : \E k \in DOMAIN runningCommands :
          runningCommands'[j] = runningCommands[k]
    BY <1>3
<1>6. Sequences' /\ RequestsHaveCommands' /\ NoKeyInside' /\ AnsweredGenuine' /\ SlotOrder'
    BY <1>3, <1>4 DEF LineInvariant, Sequences, RequestsHaveCommands, NoKeyInside, AnsweredGenuine, SlotOrder
<1>7. OneKeyRuns'
    BY <1>3 DEF LineInvariant, OneKeyRuns
<1>8. RunningInLine' /\ CommandsInLine'
    BY <1>5 DEF LineInvariant, RunningInLine, CommandsInLine, Fresh
<1>9. InboxInLine'
    <2> SUFFICES ASSUME NEW k \in Added' PROVE
                    /\ Genuine(inbox'[k].cmd, submitted') /\ After(inbox'[k].cmd, answered', submitted')
                    /\ \A j \in Added' : j < k => Before(inbox'[j].cmd, inbox'[k].cmd)
                    /\ \A j \in DOMAIN runningCommands' : Before(runningCommands'[j], inbox'[k].cmd)
                    /\ \A j \in DOMAIN commands' : Before(commands'[j], inbox'[k].cmd)
        BY DEF InboxInLine, Fresh
    <2>1. PICK i \in Added : /\ inbox'[k] = inbox[i]
                             /\ \A j \in Added' : j < k => \E h \in Added : h < i /\ inbox'[j] = inbox[h]
        <3>1. \A j \in Added : j \in Int
            BY LineSeqs DEF Added
        <3>2. CASE \A j \in Added' : j \in Added /\ inbox'[j] = inbox[j]
            BY <3>2
        <3>3. CASE \A j \in Added' : j \in Int /\ j + 1 \in Added /\ inbox'[j] = inbox[j + 1]
            <4>1. \A j \in Added' : j < k => j + 1 < k + 1
                BY <3>3
            <4> QED
                BY <3>3, <4>1
        <3> QED
            BY <1>4, <3>2, <3>3
    <2>2. i \in Added /\ Fresh(inbox[i].cmd) /\ (\A j \in Added : j < i => Before(inbox[j].cmd, inbox[i].cmd))
          /\ (\A j \in DOMAIN runningCommands : Before(runningCommands[j], inbox[i].cmd))
          /\ \A j \in DOMAIN commands : Before(commands[j], inbox[i].cmd)
        BY <2>1 DEF LineInvariant, InboxInLine
    <2> QED
        BY <1>5, <2>1, <2>2 DEF Fresh
<1> QED
    BY <1>6, <1>7, <1>8, <1>9 DEF LineInvariant

\* A command is posted behind all the others.
LEMMA SubmitLine ==
    ASSUME LineInvariant, NEW slot \in Slots, Submit(slot)
    PROVE  LineInvariant'
<1> DEFINE cmd == [kind |-> "key", id |-> Len(submitted) + 1, slot |-> slot]
<1>1. /\ inbox' = Append(inbox, Add(cmd)) /\ submitted' = Append(submitted, slot)
      /\ UNCHANGED <<contexts, answered, commands, internalCommands, runningCommands, requests>>
    BY DEF Submit, queueVars, netVars
<1>2. IsSeq(inbox) /\ submitted \in Seq(Slots)
    BY DEF LineInvariant, Sequences
<1>3. /\ IsSeq(inbox') /\ Len(inbox) \in Nat /\ DOMAIN inbox = 1..Len(inbox)
      /\ DOMAIN inbox' = 1..(Len(inbox) + 1)
      /\ \A k \in DOMAIN inbox : inbox'[k] = inbox[k]
      /\ inbox'[Len(inbox) + 1] = Add(cmd)
    BY <1>1, <1>2, IsSeqAppend, IsSeqFacts
<1>4. /\ submitted' \in Seq(Slots) /\ Len(submitted) \in Nat /\ DOMAIN submitted = 1..Len(submitted)
      /\ DOMAIN submitted' = 1..(Len(submitted) + 1)
      /\ \A k \in DOMAIN submitted : submitted'[k] = submitted[k]
      /\ submitted'[Len(submitted) + 1] = slot
    BY <1>1, <1>2, AppendFacts
<1>5. \A d : Fresh(d) => Genuine(d, submitted') /\ After(d, answered, submitted')
    BY <1>4 DEF Fresh, Genuine, After, LineInvariant, AnsweredGenuine
<1>6. \A d : Genuine(d, submitted) => Before(d, cmd)
    BY <1>4 DEF Genuine, Before
<1>7. Genuine(cmd, submitted') /\ After(cmd, answered, submitted')
    BY <1>4 DEF Genuine, After, LineInvariant, AnsweredGenuine
<1>8. Add(cmd).type = "add" /\ Add(cmd).cmd = cmd
    BY DEF Add
<1> HIDE DEF cmd
<1>9. \A k \in Added' : \/ k \in Added /\ inbox'[k] = inbox[k] /\ k < Len(inbox) + 1
                        \/ k = Len(inbox) + 1 /\ inbox'[k].cmd = cmd
    BY <1>3, <1>8 DEF Added
<1>10. Sequences' /\ RequestsHaveCommands' /\ OneKeyRuns' /\ NoKeyInside' /\ AnsweredGenuine' /\ SlotOrder'
    BY <1>1, <1>3, <1>4 DEF LineInvariant, Sequences, RequestsHaveCommands, OneKeyRuns, NoKeyInside,
                            AnsweredGenuine, SlotOrder
<1>11. RunningInLine' /\ CommandsInLine'
    BY <1>1, <1>5 DEF LineInvariant, RunningInLine, CommandsInLine, Fresh
<1>12. InboxInLine'
    <2> SUFFICES ASSUME NEW k \in Added' PROVE
                    /\ Genuine(inbox'[k].cmd, submitted') /\ After(inbox'[k].cmd, answered, submitted')
                    /\ \A j \in Added' : j < k => Before(inbox'[j].cmd, inbox'[k].cmd)
                    /\ \A j \in DOMAIN runningCommands : Before(runningCommands[j], inbox'[k].cmd)
                    /\ \A j \in DOMAIN commands : Before(commands[j], inbox'[k].cmd)
        BY <1>1 DEF InboxInLine, Fresh
    <2>1. CASE k \in Added /\ inbox'[k] = inbox[k] /\ k < Len(inbox) + 1
        <3>1. \A j \in Added' : j < k => j \in Added /\ inbox'[j] = inbox[j]
            BY <1>3, <1>9, <2>1 DEF Added
        <3> QED
            BY <1>5, <2>1, <3>1 DEF LineInvariant, InboxInLine
    <2>2. CASE k = Len(inbox) + 1 /\ inbox'[k].cmd = cmd
        <3>1. \A j \in Added' : j < k => Genuine(inbox'[j].cmd, submitted)
            BY <1>3, <1>9, <2>2 DEF LineInvariant, InboxInLine, Fresh
        <3>2. /\ \A j \in DOMAIN runningCommands : Genuine(runningCommands[j], submitted)
              /\ \A j \in DOMAIN commands : Genuine(commands[j], submitted)
            BY DEF LineInvariant, RunningInLine, CommandsInLine, Fresh
        <3> QED
            BY <1>6, <1>7, <2>2, <3>1, <3>2
    <2> QED
        BY <1>9, <2>1, <2>2
<1> QED
    BY <1>10, <1>11, <1>12 DEF LineInvariant

\* A command comes to the end of its queue.
LEMMA AddLine ==
    ASSUME LineInvariant, AddCommands
    PROVE  LineInvariant'
<1> DEFINE cmd == Head(inbox).cmd
<1>1. /\ inbox # <<>> /\ inbox' = Tail(inbox) /\ Head(inbox).type = "add"
      /\ \/ cmd.kind # "key" /\ internalCommands' = Append(internalCommands, cmd) /\ commands' = commands
         \/ commands' = Append(commands, cmd) /\ internalCommands' = internalCommands
      /\ UNCHANGED <<contexts, submitted, answered, runningCommands, requests>>
    BY DEF AddCommands, Receive, HiPriority, callerVars, netVars, historyVars
<1>2. /\ IsSeq(inbox') /\ 1 \in Added /\ cmd = inbox[1].cmd
      /\ \A k \in Added' : k + 1 \in Added /\ 1 < k + 1 /\ inbox'[k] = inbox[k + 1] /\ k \in Int
    BY <1>1, TakesLine DEF Added
<1> HIDE DEF cmd
<1>3. /\ IsSeq(internalCommands) /\ IsSeq(commands)
      /\ DOMAIN internalCommands = 1..Len(internalCommands) /\ DOMAIN commands = 1..Len(commands)
      /\ Len(internalCommands) \in Nat /\ Len(commands) \in Nat
    BY LineSeqs DEF LineInvariant, Sequences
<1>4. IsSeq(internalCommands') /\ NoKeyInside'
    <2>1. CASE internalCommands' = internalCommands
        BY <1>3, <2>1 DEF LineInvariant, NoKeyInside
    <2>2. CASE cmd.kind # "key" /\ internalCommands' = Append(internalCommands, cmd)
        <3>1. /\ IsSeq(internalCommands') /\ DOMAIN internalCommands' = 1..(Len(internalCommands) + 1)
              /\ \A k \in DOMAIN internalCommands : internalCommands'[k] = internalCommands[k]
              /\ internalCommands'[Len(internalCommands) + 1] = cmd
            BY <1>3, <2>2, IsSeqAppend
        <3> QED
            BY <1>3, <2>2, <3>1 DEF LineInvariant, NoKeyInside
    <2> QED
        BY <1>1, <2>1, <2>2
<1>5. /\ IsSeq(commands')
      /\ \A k \in DOMAIN commands' : \/ k \in DOMAIN commands /\ commands'[k] = commands[k]
                                     \/ k = Len(commands) + 1 /\ commands'[k] = cmd
    <2>1. CASE commands' = commands
        BY <1>3, <2>1
    <2>2. CASE commands' = Append(commands, cmd)
        BY <1>3, <2>2, IsSeqAppend
    <2> QED
        BY <1>1, <2>1, <2>2
<1>6. /\ Fresh(cmd) /\ \A j \in DOMAIN runningCommands : Before(runningCommands[j], cmd)
      /\ \A j \in DOMAIN commands : Before(commands[j], cmd)
      /\ \A j \in Added : 1 < j => Before(cmd, inbox[j].cmd)
    BY <1>2 DEF LineInvariant, InboxInLine
<1>7. Sequences' /\ RequestsHaveCommands' /\ OneKeyRuns' /\ AnsweredGenuine' /\ SlotOrder' /\ RunningInLine'
    BY <1>1, <1>2, <1>4, <1>5 DEF LineInvariant, Sequences, RequestsHaveCommands, OneKeyRuns,
                                  AnsweredGenuine, SlotOrder, RunningInLine, Fresh
<1>8. CommandsInLine'
    <2> SUFFICES ASSUME NEW k \in DOMAIN commands' PROVE
                    /\ Fresh(commands'[k])
                    /\ \A j \in DOMAIN commands' : j < k => Before(commands'[j], commands'[k])
                    /\ \A j \in DOMAIN runningCommands : Before(runningCommands[j], commands'[k])
        BY <1>1 DEF CommandsInLine, Fresh
    <2>1. CASE k \in DOMAIN commands /\ commands'[k] = commands[k]
        <3>1. \A j \in DOMAIN commands' : j < k => j \in DOMAIN commands /\ commands'[j] = commands[j]
            BY <1>3, <1>5, <2>1
        <3> QED
            BY <2>1, <3>1 DEF LineInvariant, CommandsInLine
    <2>2. CASE k = Len(commands) + 1 /\ commands'[k] = cmd
        <3>1. \A j \in DOMAIN commands' : j < k => j \in DOMAIN commands /\ commands'[j] = commands[j]
            BY <1>3, <1>5, <2>2
        <3> QED
            BY <1>6, <2>2, <3>1
    <2> QED
        BY <1>5, <2>1, <2>2
<1>9. InboxInLine'
    <2> SUFFICES ASSUME NEW k \in Added' PROVE
                    /\ Fresh(inbox'[k].cmd)
                    /\ \A j \in Added' : j < k => Before(inbox'[j].cmd, inbox'[k].cmd)
                    /\ \A j \in DOMAIN runningCommands : Before(runningCommands[j], inbox'[k].cmd)
                    /\ \A j \in DOMAIN commands' : Before(commands'[j], inbox'[k].cmd)
        BY <1>1 DEF InboxInLine, Fresh
    <2>1. \A j \in Added' : j < k => j + 1 < k + 1
        BY <1>2
    <2>2. \A j \in Added' : j < k => Before(inbox'[j].cmd, inbox'[k].cmd)
        BY <1>2, <2>1 DEF LineInvariant, InboxInLine
    <2>3. /\ Fresh(inbox'[k].cmd) /\ Before(cmd, inbox'[k].cmd)
          /\ \A j \in DOMAIN runningCommands : Before(runningCommands[j], inbox'[k].cmd)
          /\ \A j \in DOMAIN commands : Before(commands[j], inbox'[k].cmd)
        BY <1>2, <1>6 DEF LineInvariant, InboxInLine
    <2> QED
        BY <1>5, <2>2, <2>3
<1> QED
    BY <1>4, <1>7, <1>8, <1>9 DEF LineInvariant

LEMMA RunInternalLine ==
    ASSUME LineInvariant, RunInternalCommand
    PROVE  LineInvariant'
<1> DEFINE cmd == Head(internalCommands)
<1>1. /\ internalCommands # <<>> /\ internalCommands' = Tail(internalCommands)
      /\ runningCommands' = Append(runningCommands, cmd) /\ requests' = Append(requests, cmd)
      /\ UNCHANGED <<contexts, inbox, commands, submitted, answered>>
    BY DEF RunInternalCommand, RunCommand, callerVars, historyVars
<1>2. IsSeq(internalCommands) /\ IsSeq(runningCommands) /\ IsSeq(requests)
    BY DEF LineInvariant, Sequences
<1>3. /\ IsSeq(internalCommands') /\ NoKeyInside' /\ cmd.kind # "key"
    <2>1. /\ 1 \in DOMAIN internalCommands /\ cmd = internalCommands[1] /\ IsSeq(internalCommands')
          /\ \A k \in DOMAIN internalCommands' :
                 k + 1 \in DOMAIN internalCommands /\ internalCommands'[k] = internalCommands[k + 1]
        BY <1>1, <1>2, IsSeqFacts
    <2> QED
        BY <2>1 DEF LineInvariant, NoKeyInside
<1> HIDE DEF cmd
<1>4. /\ IsSeq(runningCommands') /\ Len(runningCommands') = Len(runningCommands) + 1
      /\ \A k \in DOMAIN runningCommands' :
             (k \in DOMAIN runningCommands /\ runningCommands'[k] = runningCommands[k])
             \/ runningCommands'[k].kind # "key"
    <2>1. /\ IsSeq(runningCommands') /\ Len(runningCommands') = Len(runningCommands) + 1
          /\ DOMAIN runningCommands' = 1..(Len(runningCommands) + 1)
          /\ \A k \in DOMAIN runningCommands : runningCommands'[k] = runningCommands[k]
          /\ runningCommands'[Len(runningCommands) + 1] = cmd
        BY <1>1, <1>2, IsSeqAppend
    <2>2. Len(runningCommands) \in Nat /\ DOMAIN runningCommands = 1..Len(runningCommands)
        BY LineSeqs
    <2> QED
        BY <1>3, <2>1, <2>2
<1>5. IsSeq(requests') /\ Len(requests') <= Len(runningCommands')
    <2>1. IsSeq(requests') /\ Len(requests') = Len(requests) + 1
        BY <1>1, <1>2, IsSeqAppend
    <2> QED
        BY <1>4, <2>1, LineSeqs DEF LineInvariant, RequestsHaveCommands
<1>6. Sequences' /\ RequestsHaveCommands' /\ AnsweredGenuine' /\ SlotOrder'
    BY <1>1, <1>3, <1>4, <1>5 DEF LineInvariant, Sequences, RequestsHaveCommands, AnsweredGenuine, SlotOrder
<1>7. OneKeyRuns'
    BY <1>4 DEF LineInvariant, OneKeyRuns
<1>8. ASSUME NEW k \in DOMAIN runningCommands', runningCommands'[k].kind # "key"
      PROVE  /\ Genuine(runningCommands'[k], submitted) /\ After(runningCommands'[k], answered, submitted)
             /\ \A d : Before(runningCommands'[k], d)
    BY <1>8 DEF Genuine, After, Before
<1>9. RunningInLine'
    BY <1>1, <1>4, <1>8 DEF LineInvariant, RunningInLine, Fresh
<1>10. CommandsInLine'
    BY <1>1, <1>4, <1>8 DEF LineInvariant, CommandsInLine, Fresh
<1>11. InboxInLine'
    BY <1>1, <1>4, <1>8 DEF LineInvariant, InboxInLine, Fresh, Added
<1> QED
    BY <1>3, <1>6, <1>7, <1>9, <1>10, <1>11 DEF LineInvariant

\* The first command for the current node is taken out of the queue: those of its slot
\* are all behind it, for what node a command is for is a matter of its slot.
LEMMA RunPickedLine ==
    ASSUME LineInvariant, RunPickedCommand
    PROVE  LineInvariant'
<1>1. PICK i \in DOMAIN commands : /\ Pick(i) /\ commands' = RemoveAt(commands, i)
                                   /\ RunCommand(commands[i])
    BY DEF RunPickedCommand
<1> DEFINE cmd == commands[i]
<1>2. /\ runningCommands = <<>> /\ runningCommands' = Append(runningCommands, cmd)
      /\ requests' = Append(requests, cmd)
      /\ UNCHANGED <<contexts, inbox, internalCommands, submitted, answered>>
    BY <1>1 DEF RunPickedCommand, Choosing, RunCommand, callerVars, historyVars
<1>3. /\ IsSeq(commands) /\ IsSeq(runningCommands) /\ IsSeq(requests)
      /\ Len(commands) \in Nat /\ DOMAIN commands = 1..Len(commands)
      /\ Len(requests) \in Nat /\ Len(requests) <= Len(runningCommands) /\ Len(runningCommands) = 0
    BY <1>2, LineSeqs, EmptySeq DEF LineInvariant, Sequences, RequestsHaveCommands
<1>4. \A j \in DOMAIN commands : j < i => ~ForCurrentNode(commands[j])
    BY <1>1 DEF Pick
<1>5. ForCurrentNode(cmd)
    BY <1>1 DEF Pick
<1>6. ASSUME NEW j \in DOMAIN commands, j # i
      PROVE  Fresh(commands[j]) /\ Before(cmd, commands[j])
    <2>1. CASE j < i
        BY <1>4, <1>5, <2>1 DEF LineInvariant, CommandsInLine, ForCurrentNode, Before
    <2>2. CASE i < j
        BY <2>2 DEF LineInvariant, CommandsInLine
    <2> QED
        BY <1>3, <1>6, <2>1, <2>2
<1>7. Fresh(cmd) /\ \A k \in Added : Before(cmd, inbox[k].cmd)
    BY DEF LineInvariant, CommandsInLine, InboxInLine
<1> HIDE DEF cmd
<1>8. /\ IsSeq(runningCommands') /\ DOMAIN runningCommands' = {1} /\ runningCommands'[1] = cmd
      /\ Len(runningCommands') = 1 /\ IsSeq(requests') /\ Len(requests') <= 1
    <2>1. /\ IsSeq(runningCommands') /\ DOMAIN runningCommands' = 1..(0 + 1)
          /\ Len(runningCommands') = 0 + 1 /\ runningCommands'[0 + 1] = cmd
        BY <1>2, <1>3, IsSeqAppend
    <2>2. IsSeq(requests') /\ Len(requests') = Len(requests) + 1
        BY <1>2, <1>3, IsSeqAppend
    <2> QED
        BY <1>3, <2>1, <2>2
<1>9. /\ IsSeq(commands')
      /\ \A k \in DOMAIN commands' : k \in Int
      /\ \A k \in DOMAIN commands' :
             IF k < i THEN k \in DOMAIN commands /\ commands'[k] = commands[k]
             ELSE k + 1 \in DOMAIN commands /\ commands'[k] = commands[k + 1]
    <2>1. /\ IsSeq(commands') /\ DOMAIN commands' = 1..(Len(commands) - 1)
          /\ \A k \in DOMAIN commands' :
                 IF k < i THEN k \in DOMAIN commands /\ commands'[k] = commands[k]
                 ELSE k + 1 \in DOMAIN commands /\ commands'[k] = commands[k + 1]
        BY <1>1, <1>3, IsSeqRemoveAt
    <2> QED
        BY <2>1
<1>10. ASSUME NEW k \in DOMAIN commands'
       PROVE  \E j \in DOMAIN commands :
                  /\ j # i /\ commands'[k] = commands[j]
                  /\ \A h \in DOMAIN commands' : h < k =>
                         \E g \in DOMAIN commands : g < j /\ commands'[h] = commands[g]
    <2>1. CASE k < i
        <3>1. \A h \in DOMAIN commands' : h < k => h < i
            BY <1>3, <1>9, <2>1
        <3>2. k \in DOMAIN commands /\ k # i /\ commands'[k] = commands[k]
            BY <1>3, <1>9, <2>1
        <3> QED
            BY <1>9, <3>1, <3>2
    <2>2. CASE ~(k < i)
        <3>1. k + 1 \in DOMAIN commands /\ k + 1 # i /\ commands'[k] = commands[k + 1]
            BY <1>3, <1>9, <2>2
        <3>2. ASSUME NEW h \in DOMAIN commands', h < k
              PROVE  \E g \in DOMAIN commands : g < k + 1 /\ commands'[h] = commands[g]
            <4>1. h < k + 1 /\ h + 1 < k + 1
                BY <1>9, <3>2
            <4> QED
                BY <1>9, <4>1
        <3> QED
            BY <3>1, <3>2
    <2> QED
        BY <2>1, <2>2
<1>11. Sequences' /\ RequestsHaveCommands' /\ NoKeyInside' /\ AnsweredGenuine' /\ SlotOrder'
    BY <1>2, <1>8, <1>9 DEF LineInvariant, Sequences, RequestsHaveCommands, NoKeyInside, AnsweredGenuine,
                            SlotOrder
<1>12. OneKeyRuns' /\ RunningInLine'
    BY <1>2, <1>7, <1>8 DEF OneKeyRuns, RunningInLine, Fresh
<1>13. CommandsInLine'
    <2> SUFFICES ASSUME NEW k \in DOMAIN commands' PROVE
                    /\ Fresh(commands'[k])
                    /\ \A h \in DOMAIN commands' : h < k => Before(commands'[h], commands'[k])
                    /\ Before(cmd, commands'[k])
        BY <1>2, <1>8 DEF CommandsInLine, Fresh
    <2>1. PICK j \in DOMAIN commands :
                  /\ j # i /\ commands'[k] = commands[j]
                  /\ \A h \in DOMAIN commands' : h < k =>
                         \E g \in DOMAIN commands : g < j /\ commands'[h] = commands[g]
        BY <1>10
    <2>2. Fresh(commands[j]) /\ Before(cmd, commands[j])
        BY <1>6, <2>1
    <2>3. \A g \in DOMAIN commands : g < j => Before(commands[g], commands[j])
        BY DEF LineInvariant, CommandsInLine
    <2> QED
        BY <2>1, <2>2, <2>3
<1>14. InboxInLine'
    <2>1. \A k \in DOMAIN commands' : \E j \in DOMAIN commands : commands'[k] = commands[j]
        BY <1>10
    <2> QED
        BY <1>2, <1>7, <1>8, <2>1 DEF LineInvariant, InboxInLine, Added, Fresh
<1> QED
    BY <1>11, <1>12, <1>13, <1>14 DEF LineInvariant

\* The command that a reply is read for, and those that go on running.
LEMMA ReadsLine ==
    ASSUME LineInvariant, ReadReply
    PROVE  /\ 1 \in DOMAIN runningCommands /\ Head(runningCommands) = runningCommands[1]
           /\ IsSeq(runningCommands') /\ IsSeq(requests') /\ RequestsHaveCommands'
           /\ \A k \in DOMAIN runningCommands' :
                  /\ k \in Int /\ k + 1 \in DOMAIN runningCommands /\ k + 1 # 1
                  /\ runningCommands'[k] = runningCommands[k + 1]
<1>1. /\ IsSeq(runningCommands) /\ IsSeq(requests) /\ Len(requests) \in Nat
      /\ Len(runningCommands) \in Nat /\ Len(requests) <= Len(runningCommands)
      /\ requests # <<>> /\ requests' = Tail(requests) /\ runningCommands' = Tail(runningCommands)
    BY LineSeqs DEF LineInvariant, Sequences, RequestsHaveCommands, ReadReply
<1>2. IsSeq(requests') /\ Len(requests') = Len(requests) - 1 /\ 1 \in 1..Len(requests)
    BY <1>1, IsSeqFacts
<1>3. runningCommands # <<>>
    <2>1. Len(runningCommands) # 0
        BY <1>1, <1>2
    <2> QED
        BY <2>1, EmptySeq
<1>4. /\ 1 \in DOMAIN runningCommands /\ Head(runningCommands) = runningCommands[1]
      /\ IsSeq(runningCommands') /\ Len(runningCommands') = Len(runningCommands) - 1
      /\ DOMAIN runningCommands' = 1..(Len(runningCommands) - 1)
      /\ \A k \in DOMAIN runningCommands' :
             k + 1 \in DOMAIN runningCommands /\ runningCommands'[k] = runningCommands[k + 1]
    BY <1>1, <1>3, IsSeqFacts
<1>5. \A k \in DOMAIN runningCommands' : k \in Int /\ k + 1 # 1
    BY <1>4
<1>6. RequestsHaveCommands'
    BY <1>1, <1>2, <1>4 DEF RequestsHaveCommands
<1> QED
    BY <1>2, <1>4, <1>5, <1>6

\* A redirected command comes before all those in the queue.
LEMMA FollowLine ==
    ASSUME LineInvariant, FollowRedirect
    PROVE  LineInvariant'
<1> DEFINE cmd == Head(runningCommands)
<1>1. /\ ReadReply /\ commands' = <<cmd>> \o commands
      /\ UNCHANGED <<contexts, inbox, internalCommands, submitted, answered>>
    BY DEF FollowRedirect, historyVars
<1>2. /\ 1 \in DOMAIN runningCommands /\ cmd = runningCommands[1]
      /\ IsSeq(runningCommands') /\ IsSeq(requests') /\ RequestsHaveCommands'
      /\ \A k \in DOMAIN runningCommands' :
             /\ k \in Int /\ k + 1 \in DOMAIN runningCommands /\ k + 1 # 1
             /\ runningCommands'[k] = runningCommands[k + 1]
    BY <1>1, ReadsLine
<1> HIDE DEF cmd
<1>3. /\ Fresh(cmd)
      /\ \A j \in DOMAIN commands : Before(cmd, commands[j])
      /\ \A k \in Added : Before(cmd, inbox[k].cmd)
    BY <1>2 DEF LineInvariant, RunningInLine, CommandsInLine, InboxInLine
<1>4. \A k \in DOMAIN runningCommands' : Before(runningCommands'[k], cmd)
    BY <1>2 DEF LineInvariant, OneKeyRuns, Before
<1>5. /\ IsSeq(commands') /\ \A k \in DOMAIN commands' : k \in Int
      /\ \A k \in DOMAIN commands' : \/ k = 1 /\ commands'[k] = cmd
                                     \/ k - 1 \in DOMAIN commands /\ commands'[k] = commands[k - 1]
    <2>1. IsSeq(<<cmd>>) /\ Len(<<cmd>>) = 1 /\ DOMAIN <<cmd>> = {1} /\ <<cmd>>[1] = cmd
        <3>1. <<cmd>> \in Seq({cmd})
            OBVIOUS
        <3>2. IsSeq(<<cmd>>)
            BY <3>1 DEF IsSeq
        <3>3. Len(<<cmd>>) = 1 /\ <<cmd>>[1] = cmd
            OBVIOUS
        <3>4. DOMAIN <<cmd>> = {1}
            BY <3>1, <3>3, SeqFacts
        <3> QED
            BY <3>2, <3>3, <3>4
    <2>2. IsSeq(commands) /\ Len(commands) \in Nat /\ DOMAIN commands = 1..Len(commands)
        BY LineSeqs DEF LineInvariant, Sequences
    <2>3. /\ IsSeq(commands') /\ DOMAIN commands' = 1..(1 + Len(commands))
          /\ \A k \in DOMAIN <<cmd>> : commands'[k] = <<cmd>>[k]
          /\ \A k \in DOMAIN commands : commands'[1 + k] = commands[k]
          /\ \A k \in DOMAIN commands' : k \in DOMAIN <<cmd>> \/ k - 1 \in DOMAIN commands
        BY <1>1, <2>1, <2>2, IsSeqConcat
    <2>4. \A k \in DOMAIN commands' : k \in Int /\ 1 + (k - 1) = k
        BY <2>2, <2>3
    <2> QED
        BY <2>1, <2>3, <2>4
<1>6. Sequences' /\ NoKeyInside' /\ AnsweredGenuine' /\ SlotOrder'
    BY <1>1, <1>2, <1>5 DEF LineInvariant, Sequences, NoKeyInside, AnsweredGenuine, SlotOrder
<1>7. OneKeyRuns'
    BY <1>2 DEF LineInvariant, OneKeyRuns
<1>8. RunningInLine'
    BY <1>1, <1>2 DEF LineInvariant, RunningInLine, Fresh
<1>9. CommandsInLine'
    <2> SUFFICES ASSUME NEW k \in DOMAIN commands' PROVE
                    /\ Fresh(commands'[k])
                    /\ \A j \in DOMAIN commands' : j < k => Before(commands'[j], commands'[k])
                    /\ \A j \in DOMAIN runningCommands' : Before(runningCommands'[j], commands'[k])
        BY <1>1 DEF CommandsInLine, Fresh
    <2>1. CASE k = 1 /\ commands'[k] = cmd
        <3>1. \A j \in DOMAIN commands' : ~(j < k)
            <4>1. Len(commands) \in Nat /\ DOMAIN commands = 1..Len(commands)
                BY LineSeqs
            <4> QED
                BY <1>5, <2>1, <4>1
        <3> QED
            BY <1>3, <1>4, <2>1, <3>1
    <2>2. CASE k - 1 \in DOMAIN commands /\ commands'[k] = commands[k - 1]
        <3>1. /\ Fresh(commands[k - 1])
              /\ \A j \in DOMAIN commands : j < k - 1 => Before(commands[j], commands[k - 1])
              /\ \A j \in DOMAIN runningCommands : Before(runningCommands[j], commands[k - 1])
              /\ Before(cmd, commands[k - 1])
            BY <1>3, <2>2 DEF LineInvariant, CommandsInLine
        <3>2. ASSUME NEW j \in DOMAIN commands', j < k
              PROVE  Before(commands'[j], commands[k - 1])
            <4>1. CASE commands'[j] = cmd
                BY <3>1, <4>1
            <4>2. CASE j - 1 \in DOMAIN commands /\ commands'[j] = commands[j - 1]
                <5>1. j - 1 < k - 1
                    BY <1>5, <3>2
                <5> QED
                    BY <3>1, <4>2, <5>1
            <4> QED
                BY <1>5, <4>1, <4>2
        <3> QED
            BY <1>2, <2>2, <3>1, <3>2
    <2> QED
        BY <1>5, <2>1, <2>2
<1>10. InboxInLine'
    BY <1>1, <1>2, <1>3, <1>5 DEF LineInvariant, InboxInLine, Added, Fresh
<1> QED
    BY <1>2, <1>6, <1>7, <1>8, <1>9, <1>10 DEF LineInvariant

\* A command is answered: all that have its slot and are not answered come after it.
LEMMA CompleteLine ==
    ASSUME LineInvariant, CompleteCommand
    PROVE  LineInvariant'
<1> DEFINE cmd == Head(runningCommands)
<1>1. /\ ReadReply
      /\ UNCHANGED <<contexts, inbox, commands, internalCommands, submitted>>
      /\ \/ cmd.kind = "key" /\ answered' = Append(answered, cmd.id)
         \/ answered' = answered
    BY DEF CompleteCommand, callerVars
<1>2. CASE answered' = answered
    <2>1. /\ requests # <<>> /\ runningCommands' = Tail(runningCommands) /\ requests' = Tail(requests)
        BY <1>1 DEF ReadReply
    <2>2. IsSeq(contexts')
        BY <1>1 DEF LineInvariant, Sequences
    <2> QED
        BY <1>1, <1>2, <2>1, <2>2, LeavesLine
<1>3. CASE cmd.kind = "key" /\ answered' = Append(answered, cmd.id)
    <2>1. /\ 1 \in DOMAIN runningCommands /\ cmd = runningCommands[1]
          /\ IsSeq(runningCommands') /\ IsSeq(requests') /\ RequestsHaveCommands'
          /\ \A k \in DOMAIN runningCommands' :
                 /\ k \in Int /\ k + 1 \in DOMAIN runningCommands /\ k + 1 # 1
                 /\ runningCommands'[k] = runningCommands[k + 1]
        BY <1>1, ReadsLine
    <2> HIDE DEF cmd
    <2>2. /\ Fresh(cmd)
          /\ \A j \in DOMAIN commands : Before(cmd, commands[j])
          /\ \A k \in Added : Before(cmd, inbox[k].cmd)
        BY <2>1 DEF LineInvariant, RunningInLine, CommandsInLine, InboxInLine
    <2>3. /\ Len(answered) \in Nat /\ DOMAIN answered = 1..Len(answered)
          /\ IsSeq(answered') /\ DOMAIN answered' = 1..(Len(answered) + 1)
          /\ \A k \in DOMAIN answered : answered'[k] = answered[k]
          /\ answered'[Len(answered) + 1] = cmd.id
        <3>1. IsSeq(answered)
            BY DEF LineInvariant, Sequences
        <3> QED
            BY <1>3, <3>1, IsSeqAppend, IsSeqFacts
    <2>4. cmd.id \in DOMAIN submitted /\ submitted[cmd.id] = cmd.slot
        BY <1>3, <2>2 DEF Fresh, Genuine
    <2>5. \A k \in DOMAIN answered' : \/ k \in DOMAIN answered /\ answered'[k] = answered[k]
                                      \/ k = Len(answered) + 1 /\ answered'[k] = cmd.id
        BY <2>3
    <2>6. ASSUME NEW d, After(d, answered, submitted), Before(cmd, d)
          PROVE  After(d, answered', submitted)
        BY <1>3, <2>4, <2>5, <2>6 DEF After, Before
    <2>7. \A k \in DOMAIN runningCommands' : runningCommands'[k].kind # "key"
        BY <1>3, <2>1 DEF LineInvariant, OneKeyRuns
    <2>8. Sequences' /\ NoKeyInside'
        BY <1>1, <2>1, <2>3 DEF LineInvariant, Sequences, NoKeyInside
    <2>9. OneKeyRuns' /\ RunningInLine'
        BY <2>7 DEF OneKeyRuns, RunningInLine, Fresh, Genuine, After
    <2>10. CommandsInLine'
        <3>1. \A k \in DOMAIN commands : Genuine(commands[k], submitted) /\ After(commands[k], answered', submitted)
            BY <2>2, <2>6 DEF LineInvariant, CommandsInLine, Fresh
        <3> QED
            BY <1>1, <2>1, <3>1 DEF LineInvariant, CommandsInLine, Fresh
    <2>11. InboxInLine'
        <3>1. \A k \in Added : Genuine(inbox[k].cmd, submitted) /\ After(inbox[k].cmd, answered', submitted)
            BY <2>2, <2>6 DEF LineInvariant, InboxInLine, Fresh
        <3> QED
            BY <1>1, <2>1, <3>1 DEF LineInvariant, InboxInLine, Added, Fresh
    <2>12. AnsweredGenuine'
        BY <1>1, <2>4, <2>5 DEF LineInvariant, AnsweredGenuine
    <2>13. SlotOrder'
        <3> SUFFICES ASSUME NEW j \in DOMAIN answered', NEW k \in DOMAIN answered', j < k,
                            submitted[answered'[j]] = submitted[answered'[k]]
                     PROVE  answered'[j] < answered'[k]
            BY <1>1 DEF SlotOrder
        <3>1. CASE k \in DOMAIN answered /\ answered'[k] = answered[k]
            <4>1. j \in DOMAIN answered /\ answered'[j] = answered[j]
                BY <2>3, <2>5, <3>1
            <4> QED
                BY <3>1, <4>1 DEF LineInvariant, SlotOrder
        <3>2. CASE k = Len(answered) + 1 /\ answered'[k] = cmd.id
            <4>1. j \in DOMAIN answered /\ answered'[j] = answered[j]
                BY <2>3, <2>5, <3>2
            <4> QED
                BY <1>3, <2>2, <2>4, <3>2, <4>1 DEF Fresh, After
        <3> QED
            BY <2>5, <3>1, <3>2
    <2> QED
        BY <2>1, <2>8, <2>9, <2>10, <2>11, <2>12, <2>13 DEF LineInvariant
<1> QED
    BY <1>1, <1>2, <1>3

-----------------------------------------------------------------------------

\* A signal makes the Connection post nothing but its own commands.
LEMMA ReceiveLine ==
    ASSUME LineInvariant, ReceiveSignal
    PROVE  LineInvariant'
<1>1. UNCHANGED <<submitted, answered, queueVars, requests>>
    BY DEF ReceiveSignal, netVars
<1>2. IsSeq(contexts) /\ IsSeq(inbox)
    BY DEF LineInvariant, Sequences
<1>3. Posts(inbox, inbox)
    BY <1>2 DEF Posts
<1>4. IsSeq(contexts')
    <2>1. \/ contexts' = contexts
          \/ \E e : contexts' = Append(contexts, e)
          \/ \E t : contexts' = Subsequence(contexts, {k \in DOMAIN contexts : contexts[k].no > t})
        BY DEF ReceiveSignal, Continue, Handshake, EmitAuthOk, WalkGoesOn, ConnectToNextMasterNode
    <2>2. ASSUME NEW t, contexts' = Subsequence(contexts, {k \in DOMAIN contexts : contexts[k].no > t})
          PROVE  IsSeq(contexts')
        <3>1. PICK S : contexts \in Seq(S)
            BY <1>2 DEF IsSeq
        <3>2. {k \in DOMAIN contexts : contexts[k].no > t} \subseteq DOMAIN contexts
            OBVIOUS
        <3>3. contexts' \in Seq(S)
            BY <2>2, <3>1, <3>2, SubsequenceElements
        <3> QED
            BY <3>3 DEF IsSeq
    <2>3. ASSUME NEW e, contexts' = Append(contexts, e)
          PROVE  IsSeq(contexts')
        <3>1. IsSeq(Append(contexts, e))
            BY <1>2, IsSeqAppend
        <3> QED
            BY <2>3, <3>1
    <2> QED
        BY <1>2, <2>1, <2>2, <2>3
<1>5. ASSUME NEW call, NoKey(call)
      PROVE  Posts(inbox, inbox \o <<call>>)
    <2>1. IsSeq(<<call>>) /\ \A k \in DOMAIN <<call>> : <<call>>[k] = call
        <3>1. <<call>> \in Seq({call})
            OBVIOUS
        <3>2. IsSeq(<<call>>)
            BY <3>1 DEF IsSeq
        <3>3. DOMAIN <<call>> = 1..1 /\ <<call>>[1] = call
            BY <3>1, SeqFacts
        <3>4. \A k \in DOMAIN <<call>> : <<call>>[k] = call
            BY <3>3
        <3> QED
            BY <3>2, <3>4
    <2> QED
        BY <1>3, <1>5, <2>1, PostsMore
<1>6. ASSUME NEW call, NoKey(call)
      PROVE  Posts(inbox, Append(inbox, call))
    <2>1. /\ IsSeq(Append(inbox, call)) /\ DOMAIN Append(inbox, call) = 1..(Len(inbox) + 1)
          /\ \A k \in DOMAIN inbox : Append(inbox, call)[k] = inbox[k]
          /\ Append(inbox, call)[Len(inbox) + 1] = call
        BY <1>2, IsSeqAppend
    <2>2. Len(inbox) \in Nat /\ DOMAIN inbox = 1..Len(inbox)
        BY LineSeqs
    <2>3. \A k \in DOMAIN Append(inbox, call) : k \in DOMAIN inbox \/ k = Len(inbox) + 1
        BY <2>1, <2>2
    <2> QED
        BY <1>6, <2>1, <2>3 DEF Posts
<1>7. NoKey([type |-> "authOk"]) /\ \A node : NoKey(ReconnectCall(node))
    BY DEF NoKey, ReconnectCall
<1>8. /\ NoKey(Add([kind |-> "ping"])) /\ NoKey(Add([kind |-> "info"])) /\ NoKey(Add([kind |-> "slots"]))
      /\ \A w : NoKey(Add([kind |-> "visit", walk |-> w]))
    BY DEF NoKey, Add
<1>9. EmitAuthOk => Posts(inbox, inbox')
    <2> SUFFICES ASSUME EmitAuthOk PROVE Posts(inbox, inbox')
        OBVIOUS
    <2> DEFINE more == [k \in DOMAIN contexts |-> Add([kind |-> "visit", walk |-> contexts[k].walk])]
               first == inbox \o <<[type |-> "authOk"]>>
    <2>1. inbox' = first \o more
        BY DEF EmitAuthOk
    <2>2. Posts(inbox, first)
        BY <1>5, <1>7
    <2>3. \A k \in DOMAIN more : NoKey(more[k])
        BY <1>8
    <2>4. IsSeq(more)
        <3>1. Len(contexts) \in Nat /\ DOMAIN contexts = 1..Len(contexts)
            BY <1>2, IsSeqFacts
        <3>2. more \in Seq({Add([kind |-> "visit", walk |-> contexts[k].walk]) : k \in DOMAIN contexts})
            BY <3>1
        <3> QED
            BY <3>2 DEF IsSeq
    <2> HIDE DEF more, first
    <2> QED
        BY <2>1, <2>2, <2>3, <2>4, PostsMore
<1>10. Continue("ping") \/ Continue("info") \/ Continue("slots") => Posts(inbox, inbox')
    BY <1>6, <1>8 DEF Continue
<1>11. ASSUME NEW w, NEW hosts, ConnectToNextMasterNode(w, hosts)
       PROVE  Posts(inbox, inbox')
    BY <1>3, <1>6, <1>7, <1>11 DEF ConnectToNextMasterNode
<1>12. ASSUME NEW w, NEW cmd, NEW reply, WalkGoesOn(w, cmd, reply)
       PROVE  Posts(inbox, inbox')
    BY <1>11, <1>12 DEF WalkGoesOn
<1>13. ASSUME NEW kind, NEW reply, Handshake(kind, reply)
       PROVE  Posts(inbox, inbox')
    <2>1. \/ inbox' = inbox
          \/ Continue("info") \/ Continue("slots")
          \/ EmitAuthOk
        BY <1>13 DEF Handshake
    <2> QED
        BY <1>3, <1>9, <1>10, <2>1
<1>14. Posts(inbox, inbox')
    <2>1. \/ Continue("ping")
          \/ inbox' = inbox
          \/ \E kind, reply : Handshake(kind, reply)
          \/ \E w, cmd, reply : WalkGoesOn(w, cmd, reply)
        BY DEF ReceiveSignal
    <2> QED
        BY <1>3, <1>10, <1>12, <1>13, <2>1
<1> QED
    BY <1>1, <1>4, <1>14, PostsLine

LEMMA StartWalkLine ==
    ASSUME LineInvariant, NEW w \in Walks, StartWalk(w)
    PROVE  LineInvariant'
<1> DEFINE call == Add([kind |-> "masters", walk |-> w])
<1>1. /\ inbox' = Append(inbox, call)
      /\ UNCHANGED <<contexts, submitted, answered, queueVars, requests>>
    BY DEF StartWalk, callerVars, netVars
<1>2. NoKey(call)
    BY DEF NoKey, Add
<1> HIDE DEF call
<1>3. IsSeq(inbox) /\ IsSeq(contexts) /\ Len(inbox) \in Nat /\ DOMAIN inbox = 1..Len(inbox)
    BY LineSeqs DEF LineInvariant, Sequences
<1>4. /\ IsSeq(inbox') /\ DOMAIN inbox' = 1..(Len(inbox) + 1)
      /\ \A k \in DOMAIN inbox : inbox'[k] = inbox[k]
      /\ inbox'[Len(inbox) + 1] = call
    BY <1>1, <1>3, IsSeqAppend
<1>5. \A k \in DOMAIN inbox' : k \in DOMAIN inbox \/ k = Len(inbox) + 1
    BY <1>3, <1>4
<1>6. Posts(inbox, inbox')
    BY <1>2, <1>4, <1>5 DEF Posts
<1> QED
    BY <1>1, <1>3, <1>6, PostsLine

\* Steps that neither post, answer nor reorder a command.
LEMMA OtherLine ==
    ASSUME LineInvariant,
           \/ WalkReconnects \/ AuthOk \/ RedirectTimer \/ ConnectSucceeds
           \/ QueueIsEmpty \/ PickClusterNode \/ AbortRedirects
           \/ \E slot \in Slots, node \in Nodes : MoveSlot(slot, node)
           \/ UNCHANGED vars
    PROVE  LineInvariant'
<1>1. UNCHANGED <<contexts, submitted, answered, commands, internalCommands>>
    BY DEF WalkReconnects, AuthOk, RedirectTimer, ConnectSucceeds, QueueIsEmpty, PickClusterNode,
           AbortRedirects, MoveSlot, vars, callerVars, queueVars, historyVars
<1>2. inbox' = inbox \/ (inbox # <<>> /\ inbox' = Tail(inbox))
    BY DEF WalkReconnects, AuthOk, Receive, RedirectTimer, ConnectSucceeds, QueueIsEmpty,
           PickClusterNode, AbortRedirects, MoveSlot, vars
<1>3. \/ runningCommands' = runningCommands /\ requests' = requests
      \/ runningCommands' \in {<<>>, runningCommands} /\ requests' = <<>>
      \/ requests # <<>> /\ runningCommands' = Tail(runningCommands) /\ requests' = Tail(requests)
    <2>1. CASE WalkReconnects \/ RedirectTimer
        BY <2>1 DEF WalkReconnects, RedirectTimer, ReconnectTo
    <2>2. CASE AbortRedirects
        BY <2>2 DEF AbortRedirects, ReadReply
    <2>3. CASE \/ AuthOk \/ ConnectSucceeds \/ QueueIsEmpty \/ PickClusterNode
               \/ (\E slot \in Slots, node \in Nodes : MoveSlot(slot, node))
               \/ UNCHANGED vars
        BY <2>3 DEF AuthOk, ConnectSucceeds, QueueIsEmpty, PickClusterNode, MoveSlot, vars, queueVars,
                    netVars
    <2> QED
        BY <2>1, <2>2, <2>3
<1>4. IsSeq(contexts')
    BY <1>1 DEF LineInvariant, Sequences
<1> QED
    BY <1>1, <1>2, <1>3, <1>4, LeavesLine

LEMMA LineStep == LineInvariant /\ [Next]_vars => LineInvariant'
<1> SUFFICES ASSUME LineInvariant, [Next]_vars PROVE LineInvariant'
    OBVIOUS
<1>1. CASE \E slot \in Slots : Submit(slot)
    BY <1>1, SubmitLine
<1>2. CASE \E w \in Walks : StartWalk(w)
    BY <1>2, StartWalkLine
<1>3. CASE ReceiveSignal
    BY <1>3, ReceiveLine
<1>4. CASE AddCommands
    BY <1>4, AddLine
<1>5. CASE RunInternalCommand
    BY <1>5, RunInternalLine
<1>6. CASE RunPickedCommand
    BY <1>6, RunPickedLine
<1>7. CASE FollowRedirect
    BY <1>7, FollowLine
<1>8. CASE CompleteCommand
    BY <1>8, CompleteLine
<1>9. CASE \/ WalkReconnects \/ AuthOk \/ RedirectTimer \/ ConnectSucceeds
           \/ QueueIsEmpty \/ PickClusterNode \/ AbortRedirects
           \/ (\E slot \in Slots, node \in Nodes : MoveSlot(slot, node))
           \/ UNCHANGED vars
    BY <1>9, OtherLine
<1> QED
    BY <1>1, <1>2, <1>3, <1>4, <1>5, <1>6, <1>7, <1>8, <1>9
    DEF Next, CallerNext, InboxNext, QueueNext, ReplyNext

\* The commands of a slot are answered in the order they were posted, through redirects
\* (processClusterRedirect puts the command back at the head of the queue), reconnects,
\* which drop what runs, and the choice of the commands of other slots before it
\* (pickNextCommandForCurrentNode): for whatever nodes and slots, moves of the slots
\* between the nodes and walks over them.
THEOREM SlotsInOrder == Spec => []SlotOrder
<1>1. LineInvariant => SlotOrder
    BY DEF LineInvariant
<1> QED
    BY InitLine, LineStep, <1>1, PTL DEF Spec

-----------------------------------------------------------------------------
(* The types of the variables, and the redirect that is under way. *)

WalkRecord == [masters : SUBSET Nodes, visited : Seq(Nodes), calls : Nat,
               started : BOOLEAN, alone : BOOLEAN]
Context == [walk : Walks, no : Nat]
Started == {w \in Walks : walk[w].started}

\* One redirect at most is under way, from its timer to the end of its nested loop, and
\* only while it is pending; none that is followed is one too many.
OneRedirect ==
    /\ redirectTimer # <<>> =>
           pendingClusterRedirect /\ \A k \in DOMAIN nested : nested[k] = "walk"
    /\ \A k \in DOMAIN nested : nested[k] # "walk" =>
           pendingClusterRedirect /\ \A j \in DOMAIN nested : nested[j] # "walk" => j = k
    /\ redirectTimer # <<>> /\ Head(redirectTimer).reason = "redirect" =>
           followedClusterRedirects < MaxRedirects
    /\ \A k \in DOMAIN nested : nested[k] = "redirect" => followedClusterRedirects < MaxRedirects

\* The walks that have started are counted, so that they must be finitely many.
Types == TypeOK /\ OneRedirect /\ IsFiniteSet(Started)

LEMMA FirstAndRest ==
    ASSUME NEW S, NEW s \in Seq(S), s # <<>>
    PROVE  Head(s) \in S /\ Tail(s) \in Seq(S)
BY TailFacts, SeqFacts

LEMMA MastersAreFinite ==
    ASSUME NEW reply \in Reply
    PROVE  IsFiniteSet(Range(SlotsIn(reply))) /\ Range(SlotsIn(reply)) \subseteq Nodes
<1> DEFINE slots == SlotsIn(reply)
<1>1. CASE slots = NoSlots
    BY <1>1, RangeEmpty, FS_EmptySet DEF NoSlots
<1>2. CASE slots \in Topology
    <2>1. slots \in Surjection(Slots, Range(slots)) /\ Range(slots) \subseteq Nodes
        BY <1>2 DEF Surjection, Range, Topology
    <2> QED
        BY <2>1, SlotsAssumption, FS_Surjection
<1> QED
    BY <1>1, <1>2 DEF SlotsIn, Reply

LEMMA InitTypes == Init => Types
<1> SUFFICES ASSUME Init PROVE Types
    OBVIOUS
<1>1. DOMAIN <<>> = {} /\ \A S : <<>> \in Seq(S)
    BY IsSeqFacts, RangeEmpty
<1>2. walk \in [Walks -> WalkRecord] /\ Started = {}
    BY <1>1 DEF Init, WalkRecord, Started
<1>3. MaxRedirects \in Nat
    BY BoundsAssumption
<1>4. /\ owner \in Topology /\ clusterSlots \in Topology /\ config \in Nodes
      /\ followedClusterRedirects \in 0..MaxRedirects /\ contextCount \in Nat
    BY <1>3, FirstAssumption DEF Init, Topology
<1>5. /\ submitted \in Seq(Slots) /\ outbox \in Seq(Signal) /\ notVisitedMasterNodes \in Seq(Nodes)
      /\ contexts \in Seq([walk : Walks, no : Nat]) /\ inbox \in Seq(Call)
      /\ commands \in Seq(Command) /\ internalCommands \in Seq(Command)
      /\ runningCommands \in Seq(Command) /\ requests \in Seq(Command)
      /\ nested \in Seq(Reason) /\ answered \in Seq(1..MaxCalls)
    BY <1>1 DEF Init
<1>6. TypeOK
    BY <1>2, <1>4, <1>5 DEF Init, TypeOK, WalkRecord
<1>7. OneRedirect
    BY <1>1 DEF Init, OneRedirect
<1> QED
    BY <1>2, <1>6, <1>7, FS_EmptySet DEF Types

\* What a step disturbs starts no walk.
LEMMA DisturbedTypes ==
    ASSUME walk \in [Walks -> WalkRecord], NEW W
    PROVE  /\ Disturbed(W) \in [Walks -> WalkRecord]
           /\ \A w \in Walks : Disturbed(W)[w].started = walk[w].started
<1>1. ASSUME NEW w \in Walks
      PROVE  Disturbed(W)[w] \in WalkRecord /\ Disturbed(W)[w].started = walk[w].started
    <2> DEFINE r == [walk[w] EXCEPT !["alone"] = walk[w].alone /\ ~Active(w)]
    <2>1. Disturbed(W)[w] \in {walk[w], r}
        BY DEF Disturbed
    <2>2. walk[w] \in WalkRecord /\ (walk[w].alone /\ ~Active(w)) \in BOOLEAN
        OBVIOUS
    <2>3. r \in WalkRecord /\ r.started = walk[w].started
        BY <2>2 DEF WalkRecord
    <2> QED
        BY <2>1, <2>2, <2>3
<1> QED
    BY <1>1 DEF Disturbed

\* There is a call left to make: the number of a command is within the bound.
LEMMA NextId ==
    ASSUME Types, Calls < MaxCalls
    PROVE  Len(submitted) + 1 \in 1..MaxCalls
<1>1. Len(submitted) \in Nat
    BY SeqFacts DEF Types, TypeOK
<1>2. Cardinality(Started) \in Nat
    BY FS_CardinalityType DEF Types
<1>3. Len(submitted) + Cardinality(Started) < MaxCalls /\ MaxCalls \in Nat
    BY BoundsAssumption DEF Calls, Started
<1> QED
    BY <1>1, <1>2, <1>3

LEMMA SubmitTypes ==
    ASSUME Types, NEW slot \in Slots, Submit(slot)
    PROVE  Types'
<1> DEFINE cmd == [kind |-> "key", id |-> Len(submitted) + 1, slot |-> slot]
<1>1. /\ inbox' = Append(inbox, Add(cmd)) /\ submitted' = Append(submitted, slot)
      /\ walk' = Disturbed({}) /\ Calls < MaxCalls
      /\ UNCHANGED <<session, serverInfo, clusterSlots, notVisitedMasterNodes, contexts,
                     contextCount, outbox, commands, internalCommands, runningCommands, wakeup,
                     pendingClusterRedirect, redirectTimer, followedClusterRedirects, nested,
                     config, socket, requests, owner, moved, answered>>
    BY DEF Submit, queueVars, redirectVars, netVars, clusterVars
<1>2. cmd \in KeyCommand
    BY <1>1, NextId DEF KeyCommand
<1> HIDE DEF cmd
<1>3. Add(cmd) \in Call
    BY <1>2 DEF Add, Call, Command
<1>4. TypeOK
    BY DEF Types
<1>5. inbox' \in Seq(Call) /\ submitted' \in Seq(Slots)
    BY <1>1, <1>3, <1>4, AppendFacts DEF TypeOK
<1>6. walk' \in [Walks -> WalkRecord] /\ Started' = Started
    BY <1>1, <1>4, DisturbedTypes DEF TypeOK, WalkRecord, Started
<1>7. TypeOK'
    BY <1>1, <1>4, <1>5, <1>6 DEF TypeOK, WalkRecord
<1> QED
    BY <1>1, <1>6, <1>7 DEF Types, OneRedirect

LEMMA StartWalkTypes ==
    ASSUME Types, NEW w \in Walks, StartWalk(w)
    PROVE  Types'
<1> DEFINE call == Add([kind |-> "masters", walk |-> w])
           r == [[walk[w] EXCEPT !["started"] = TRUE] EXCEPT !["alone"] = Idle]
<1>1. /\ inbox' = Append(inbox, call)
      /\ UNCHANGED <<session, submitted, serverInfo, clusterSlots, notVisitedMasterNodes, contexts,
                     contextCount, outbox, commands, internalCommands, runningCommands, wakeup,
                     pendingClusterRedirect, redirectTimer, followedClusterRedirects, nested,
                     config, socket, requests, owner, moved, answered>>
    BY DEF StartWalk, callerVars, queueVars, redirectVars, netVars, clusterVars
<1>2. TypeOK
    BY DEF Types
<1>3. call \in Call
    BY DEF Add, Call, Command, MastersCommand
<1> HIDE DEF call
<1>4. inbox' \in Seq(Call)
    BY <1>1, <1>2, <1>3, AppendFacts DEF TypeOK
<1>5. walk \in [Walks -> WalkRecord]
    BY <1>2 DEF TypeOK, WalkRecord
<1>6. walk' = [Disturbed({w}) EXCEPT ![w] = r]
    <2>1. Disturbed({w})[w] = walk[w] /\ DOMAIN Disturbed({w}) = Walks
        BY DEF Disturbed
    <2> QED
        BY <2>1 DEF StartWalk
<1>7. r \in WalkRecord /\ r.started
    <2>1. walk[w] \in WalkRecord /\ Idle \in BOOLEAN
        BY <1>5 DEF Idle
    <2> QED
        BY <2>1 DEF WalkRecord
<1> HIDE DEF r
<1>8. walk' \in [Walks -> WalkRecord] /\ Started' = Started \union {w}
    BY <1>5, <1>6, <1>7, DisturbedTypes DEF Started
<1>9. IsFiniteSet(Started')
    BY <1>8, FS_AddElement DEF Types
<1>10. TypeOK'
    BY <1>1, <1>2, <1>4, <1>8 DEF TypeOK, WalkRecord
<1> QED
    BY <1>1, <1>9, <1>10 DEF Types, OneRedirect

\* What a signal changes.
CallerTypes ==
    /\ session \in {"up", "lost", "aborted"}
    /\ serverInfo \in BOOLEAN
    /\ clusterSlots \in Topology \union {NoSlots}
    /\ notVisitedMasterNodes \in Seq(Nodes)
    /\ contexts \in Seq(Context) /\ contextCount \in Nat
    /\ inbox \in Seq(Call) /\ outbox \in Seq(Signal)
    /\ walk \in [Walks -> WalkRecord]

LEMMA ContinueTypes ==
    ASSUME CallerTypes, outbox # <<>>, NEW kind \in {"ping", "info", "slots"}, Continue(kind)
    PROVE  /\ inbox' \in Seq(Call) /\ outbox' \in Seq(Signal) /\ walk' = walk
           /\ UNCHANGED <<notVisitedMasterNodes, contexts, contextCount>>
<1>1. Add([kind |-> kind]) \in Call
    BY DEF Add, Call, Command, HandshakeCommand
<1> QED
    BY <1>1, AppendFacts, FirstAndRest DEF Continue, CallerTypes

LEMMA EmitTypes ==
    ASSUME CallerTypes, outbox # <<>>, EmitAuthOk
    PROVE  /\ inbox' \in Seq(Call) /\ outbox' \in Seq(Signal) /\ walk' = walk
           /\ UNCHANGED <<notVisitedMasterNodes, contexts, contextCount>>
<1> DEFINE visits == [k \in DOMAIN contexts |-> Add([kind |-> "visit", walk |-> contexts[k].walk])]
           posted == <<[type |-> "authOk"]>>
           deletion == [type |-> "deleteLater", upTo |-> contextCount]
<1>1. /\ inbox' = (inbox \o posted) \o visits
      /\ outbox' = Tail(outbox) \/ outbox' = Append(Tail(outbox), deletion)
      /\ walk' = walk /\ UNCHANGED <<notVisitedMasterNodes, contexts, contextCount>>
    BY DEF EmitAuthOk
<1>2. /\ contexts \in Seq(Context) /\ Len(contexts) \in Nat /\ DOMAIN contexts = 1..Len(contexts)
      /\ \A k \in DOMAIN contexts : contexts[k] \in Context
    BY SeqFacts DEF CallerTypes
<1>3. visits \in Seq(Call)
    <2>1. ASSUME NEW k \in DOMAIN contexts
          PROVE  Add([kind |-> "visit", walk |-> contexts[k].walk]) \in Call
        <3>1. contexts[k].walk \in Walks
            BY <1>2 DEF Context
        <3> QED
            BY <3>1 DEF Add, Call, Command, VisitCommand
    <2>2. visits \in [1..Len(contexts) -> Call]
        BY <1>2, <2>1
    <2> QED
        BY <1>2, <2>2, IsASeq
<1>4. posted \in Seq(Call)
    <2>1. [type |-> "authOk"] \in Call
        BY DEF Call
    <2> QED
        BY <2>1
<1>5. deletion \in Signal
    BY DEF CallerTypes, Signal
<1> HIDE DEF visits, posted, deletion
<1>6. inbox \in Seq(Call) /\ outbox \in Seq(Signal)
    BY DEF CallerTypes
<1>7. (inbox \o posted) \o visits \in Seq(Call)
    BY <1>3, <1>4, <1>6, ConcatFacts
<1>8. Tail(outbox) \in Seq(Signal)
    BY <1>6, FirstAndRest
<1>9. Append(Tail(outbox), deletion) \in Seq(Signal)
    BY <1>5, <1>8, AppendFacts
<1> QED
    BY <1>1, <1>7, <1>8, <1>9

LEMMA NextMasterTypes ==
    ASSUME CallerTypes, outbox # <<>>, NEW w \in Walks, NEW hosts \in Seq(Nodes),
           ConnectToNextMasterNode(w, hosts)
    PROVE  /\ notVisitedMasterNodes' \in Seq(Nodes) /\ contexts' \in Seq(Context)
           /\ contextCount' \in Nat /\ inbox' \in Seq(Call) /\ outbox' \in Seq(Signal)
<1>1. /\ contexts \in Seq(Context) /\ contextCount \in Nat /\ inbox \in Seq(Call)
      /\ outbox \in Seq(Signal)
    BY DEF CallerTypes
<1>2. outbox' \in Seq(Signal)
    BY <1>1, FirstAndRest DEF ConnectToNextMasterNode
<1>3. CASE hosts = <<>>
    BY <1>1, <1>2, <1>3 DEF ConnectToNextMasterNode
<1>4. CASE hosts # <<>>
    <2> DEFINE context == [walk |-> w, no |-> contextCount + 1]
               call == ReconnectCall(Head(hosts))
    <2>1. /\ notVisitedMasterNodes' = Tail(hosts) /\ contexts' = Append(contexts, context)
          /\ contextCount' = contextCount + 1 /\ inbox' = Append(inbox, call)
        BY <1>4 DEF ConnectToNextMasterNode, RemoveFirstHost
    <2>2. Head(hosts) \in Nodes /\ Tail(hosts) \in Seq(Nodes)
        BY <1>4, FirstAndRest
    <2>3. context \in Context /\ contextCount + 1 \in Nat
        BY <1>1 DEF Context
    <2>4. call \in Call
        BY <2>2 DEF ReconnectCall, Call
    <2> HIDE DEF context, call
    <2>5. Append(contexts, context) \in Seq(Context) /\ Append(inbox, call) \in Seq(Call)
        BY <1>1, <2>3, <2>4, AppendFacts
    <2> QED
        BY <1>2, <2>1, <2>2, <2>3, <2>5
<1> QED
    BY <1>3, <1>4

\* The masters are visited in whatever order they are in the list.
LEMMA HostsAreNodes ==
    ASSUME NEW reply \in Reply, NEW hosts \in SetToSeqs(Range(SlotsIn(reply)))
    PROVE  hosts \in Seq(Nodes)
<1> DEFINE masters == Range(SlotsIn(reply))
<1>1. IsFiniteSet(masters) /\ masters \subseteq Nodes
    BY MastersAreFinite
<1> HIDE DEF masters
<1>2. Cardinality(masters) \in Nat
    BY <1>1, FS_CardinalityType
<1>3. hosts \in [1..Cardinality(masters) -> masters]
    BY DEF SetToSeqs, masters
<1>4. hosts \in [1..Cardinality(masters) -> Nodes]
    BY <1>1, <1>3
<1> QED
    BY <1>2, <1>4, IsASeq

LEMMA WalkGoesOnTypes ==
    ASSUME CallerTypes, outbox # <<>>, NEW cmd \in Command, NEW reply \in Reply,
           cmd.kind \in {"masters", "visit"}, WalkGoesOn(cmd.walk, cmd, reply)
    PROVE  /\ notVisitedMasterNodes' \in Seq(Nodes) /\ contexts' \in Seq(Context)
           /\ contextCount' \in Nat /\ inbox' \in Seq(Call) /\ outbox' \in Seq(Signal)
           /\ walk' \in [Walks -> WalkRecord] /\ Started' = Started
<1> DEFINE w == cmd.walk
<1>1. w \in Walks
    BY DEF Command, KeyCommand, VisitCommand, MastersCommand, HandshakeCommand
<1>2. walk \in [Walks -> WalkRecord] /\ walk[w] \in WalkRecord
    BY <1>1 DEF CallerTypes
<1>3. \E r \in WalkRecord : walk' = [walk EXCEPT ![w] = r] /\ r.started = walk[w].started
    <2>1. CASE cmd.kind = "masters"
        <3> DEFINE r == [walk[w] EXCEPT !["masters"] = Range(SlotsIn(reply))]
        <3>1. walk' = [walk EXCEPT ![w] = r]
            BY <1>1, <1>2, <2>1 DEF WalkGoesOn
        <3>2. r \in WalkRecord /\ r.started = walk[w].started
            BY <1>2, MastersAreFinite DEF WalkRecord
        <3> QED
            BY <3>1, <3>2
    <2>2. CASE cmd.kind = "visit"
        <3> DEFINE visited == Append(walk[w].visited, reply.node)
                   calls == IF notVisitedMasterNodes = <<>> THEN walk[w].calls + 1 ELSE walk[w].calls
                   r == [[walk[w] EXCEPT !["visited"] = visited] EXCEPT !["calls"] = calls]
        <3>1. walk' = [walk EXCEPT ![w] = r]
            BY <1>1, <1>2, <2>2 DEF WalkGoesOn
        <3>2. reply.node \in Nodes /\ walk[w].visited \in Seq(Nodes) /\ walk[w].calls \in Nat
            BY <1>2 DEF Reply, WalkRecord
        <3>3. visited \in Seq(Nodes) /\ calls \in Nat
            BY <3>2, AppendFacts
        <3> HIDE DEF visited, calls
        <3>4. r \in WalkRecord /\ r.started = walk[w].started
            BY <1>2, <3>3 DEF WalkRecord
        <3> QED
            BY <3>1, <3>4
    <2> QED
        BY <2>1, <2>2
<1>4. \E hosts \in Seq(Nodes) : ConnectToNextMasterNode(w, hosts)
    <2>1. notVisitedMasterNodes \in Seq(Nodes)
        BY DEF CallerTypes
    <2> QED
        BY <2>1, HostsAreNodes DEF WalkGoesOn
<1> HIDE DEF w
<1>5. walk' \in [Walks -> WalkRecord] /\ Started' = Started
    BY <1>1, <1>2, <1>3 DEF Started
<1> QED
    BY <1>1, <1>4, <1>5, NextMasterTypes

LEMMA HandshakeTypes ==
    ASSUME CallerTypes, outbox # <<>>, NEW kind, NEW reply \in Reply, Handshake(kind, reply)
    PROVE  CallerTypes' /\ walk' = walk
<1>1. \/ Continue("info") \/ Continue("slots") \/ EmitAuthOk
      \/ /\ outbox' = Tail(outbox)
         /\ UNCHANGED <<inbox, notVisitedMasterNodes, contexts, contextCount, walk>>
    BY DEF Handshake
<1>2. /\ inbox' \in Seq(Call) /\ outbox' \in Seq(Signal) /\ walk' = walk
      /\ UNCHANGED <<notVisitedMasterNodes, contexts, contextCount>>
    <2>1. Tail(outbox) \in Seq(Signal)
        BY FirstAndRest DEF CallerTypes
    <2> QED
        BY <1>1, <2>1, ContinueTypes, EmitTypes DEF CallerTypes
<1>3. SlotsIn(reply) \in Topology \union {NoSlots}
    BY DEF SlotsIn, Reply
<1>4. /\ session' \in {session, "lost"} /\ serverInfo' \in {serverInfo, TRUE, FALSE}
      /\ clusterSlots' \in {clusterSlots, SlotsIn(reply)}
    BY DEF Handshake
<1> QED
    BY <1>2, <1>3, <1>4 DEF CallerTypes

LEMMA ReceiveTypes ==
    ASSUME Types, ReceiveSignal
    PROVE  Types'
<1>1. /\ outbox # <<>>
      /\ UNCHANGED <<submitted, commands, internalCommands, runningCommands, wakeup,
                     pendingClusterRedirect, redirectTimer, followedClusterRedirects, nested,
                     config, socket, requests, owner, moved, answered>>
    BY DEF ReceiveSignal, queueVars, redirectVars, netVars, clusterVars
<1>2. TypeOK /\ CallerTypes
    BY DEF Types, TypeOK, CallerTypes, WalkRecord, Context
<1> DEFINE signal == Head(outbox)
<1>3. signal \in Signal /\ Tail(outbox) \in Seq(Signal)
    BY <1>1, <1>2, FirstAndRest DEF CallerTypes
<1>4. ASSUME signal.type = "connected"
      PROVE  CallerTypes' /\ Started' = Started
    <2>1. Continue("ping") /\ UNCHANGED <<session, serverInfo, clusterSlots>>
        BY <1>4 DEF ReceiveSignal
    <2>2. /\ inbox' \in Seq(Call) /\ outbox' \in Seq(Signal) /\ walk' = walk
          /\ UNCHANGED <<notVisitedMasterNodes, contexts, contextCount>>
        BY <1>1, <1>2, <2>1, ContinueTypes
    <2>3. CallerTypes' /\ Started' = Started
        BY <1>2, <2>1, <2>2 DEF CallerTypes, Started
    <2> QED
        BY <2>3
<1>5. ASSUME signal.type = "deleteLater"
      PROVE  CallerTypes' /\ Started' = Started
    <2>1. /\ contexts' = Subsequence(contexts, {k \in DOMAIN contexts : contexts[k].no > signal.upTo})
          /\ outbox' = Tail(outbox)
          /\ UNCHANGED <<session, inbox, serverInfo, clusterSlots, notVisitedMasterNodes,
                         contextCount, walk>>
        BY <1>5 DEF ReceiveSignal
    <2>2. contexts' \in Seq(Context)
        <3>1. {k \in DOMAIN contexts : contexts[k].no > signal.upTo} \subseteq DOMAIN contexts
            OBVIOUS
        <3>2. contexts \in Seq(Context)
            BY <1>2 DEF CallerTypes
        <3> QED
            BY <2>1, <3>1, <3>2, SubsequenceElements
    <2> QED
        BY <1>2, <1>3, <2>1, <2>2 DEF CallerTypes, Started
<1>6. ASSUME signal.type = "reply" /\ signal.cmd.kind \in {"ping", "info", "slots"}
      PROVE  CallerTypes' /\ Started' = Started
    <2>1. Handshake(signal.cmd.kind, signal.reply)
        BY <1>6 DEF ReceiveSignal
    <2>2. signal.reply \in Reply
        BY <1>3, <1>6 DEF Signal
    <2>3. CallerTypes' /\ walk' = walk
        BY <1>1, <1>2, <2>1, <2>2, HandshakeTypes
    <2> QED
        BY <2>3 DEF Started
<1>7. ASSUME signal.type = "reply" /\ signal.cmd.kind \in {"masters", "visit"}
      PROVE  CallerTypes' /\ Started' = Started
    <2>1. /\ WalkGoesOn(signal.cmd.walk, signal.cmd, signal.reply)
          /\ UNCHANGED <<session, serverInfo, clusterSlots>>
        BY <1>7 DEF ReceiveSignal
    <2>2. signal.reply \in Reply /\ signal.cmd \in Command
        BY <1>3, <1>7 DEF Signal
    <2>3. /\ notVisitedMasterNodes' \in Seq(Nodes) /\ contexts' \in Seq(Context)
          /\ contextCount' \in Nat /\ inbox' \in Seq(Call) /\ outbox' \in Seq(Signal)
          /\ walk' \in [Walks -> WalkRecord] /\ Started' = Started
        BY <1>1, <1>2, <1>7, <2>1, <2>2, WalkGoesOnTypes
    <2> QED
        BY <1>2, <2>1, <2>3 DEF CallerTypes
<1>8. CallerTypes' /\ Started' = Started
    BY <1>4, <1>5, <1>6, <1>7 DEF ReceiveSignal
<1>9. TypeOK'
    BY <1>1, <1>2, <1>8 DEF TypeOK, CallerTypes, WalkRecord, Context
<1> QED
    BY <1>1, <1>8, <1>9 DEF Types, OneRedirect

\* reconnectTo, for a walk or when the timer of a redirect has fired.
LEMMA WalkReconnectsTypes ==
    ASSUME Types, WalkReconnects
    PROVE  Types'
<1>1. TypeOK /\ OneRedirect
    BY DEF Types
<1>2. /\ inbox # <<>> /\ Head(inbox).type = "reconnectTo" /\ inbox' = Tail(inbox)
      /\ config' = Head(inbox).node /\ socket' = "connecting" /\ requests' = <<>>
      /\ nested' = Append(nested, "walk")
      /\ session' \in {session, "lost"} /\ runningCommands' \in {runningCommands, <<>>}
      /\ UNCHANGED <<submitted, serverInfo, clusterSlots, notVisitedMasterNodes, contexts,
                     contextCount, outbox, commands, internalCommands, wakeup,
                     pendingClusterRedirect, redirectTimer, followedClusterRedirects,
                     owner, moved, answered, walk>>
    BY DEF WalkReconnects, ReconnectTo, Receive, callerVars, clusterVars, historyVars
<1>3. Head(inbox) \in Call /\ inbox' \in Seq(Call)
    BY <1>1, <1>2, FirstAndRest DEF TypeOK
<1>4. config' \in Nodes
    BY <1>2, <1>3 DEF Call
<1>5. /\ nested' \in Seq(Reason) /\ Len(nested) \in Nat /\ DOMAIN nested = 1..Len(nested)
      /\ DOMAIN nested' = 1..(Len(nested) + 1) /\ nested'[Len(nested) + 1] = "walk"
      /\ \A k \in DOMAIN nested : nested'[k] = nested[k]
    <2>1. nested \in Seq(Reason) /\ "walk" \in Reason
        BY <1>1 DEF TypeOK, Reason
    <2> QED
        BY <1>2, <2>1, AppendFacts
<1>6. \A k \in DOMAIN nested' : nested'[k] = "walk" \/ (k \in DOMAIN nested /\ nested'[k] = nested[k])
    BY <1>5
<1>7. TypeOK'
    <2>1. runningCommands' \in Seq(Command) /\ requests' \in Seq(Command)
        <3>1. <<>> \in Seq(Command) /\ runningCommands \in Seq(Command)
            BY <1>1 DEF TypeOK
        <3> QED
            BY <1>2, <3>1
    <2>2. nested' \in Seq(Reason) /\ session' \in {"up", "lost", "aborted"}
        BY <1>1, <1>2, <1>5 DEF TypeOK
    <2> QED
        BY <1>1, <1>2, <1>3, <1>4, <2>1, <2>2 DEF TypeOK
<1>8. OneRedirect'
    BY <1>1, <1>2, <1>6 DEF OneRedirect
<1> QED
    BY <1>2, <1>7, <1>8 DEF Types, Started

LEMMA RedirectTimerTypes ==
    ASSUME Types, RedirectTimer
    PROVE  Types'
<1>1. TypeOK /\ OneRedirect
    BY DEF Types
<1> DEFINE reason == Head(redirectTimer).reason
<1>2. /\ redirectTimer # <<>> /\ redirectTimer' = <<>>
      /\ config' = Head(redirectTimer).node /\ socket' = "connecting" /\ requests' = <<>>
      /\ nested' = Append(nested, reason)
      /\ session' \in {session, "lost"} /\ runningCommands' \in {runningCommands, <<>>}
      /\ UNCHANGED <<submitted, serverInfo, clusterSlots, notVisitedMasterNodes, contexts,
                     contextCount, inbox, outbox, commands, internalCommands, wakeup,
                     pendingClusterRedirect, followedClusterRedirects,
                     owner, moved, answered, walk>>
    BY DEF RedirectTimer, ReconnectTo, callerVars, clusterVars, historyVars
<1>3. config' \in Nodes /\ reason \in Reason
    BY <1>1, <1>2 DEF TypeOK
<1>4. reason = "redirect" => followedClusterRedirects < MaxRedirects
    BY <1>1, <1>2 DEF OneRedirect
<1> HIDE DEF reason
<1>5. /\ nested' \in Seq(Reason) /\ Len(nested) \in Nat /\ DOMAIN nested = 1..Len(nested)
      /\ DOMAIN nested' = 1..(Len(nested) + 1) /\ nested'[Len(nested) + 1] = reason
      /\ \A k \in DOMAIN nested : nested'[k] = nested[k]
    BY <1>1, <1>2, <1>3, AppendFacts DEF TypeOK
<1>6. \A k \in DOMAIN nested' : \/ k = Len(nested) + 1
                                \/ k \in DOMAIN nested /\ nested'[k] = nested[k]
    BY <1>5
<1>7. pendingClusterRedirect /\ \A k \in DOMAIN nested : nested[k] = "walk"
    BY <1>1, <1>2 DEF OneRedirect
<1>8. \A k \in DOMAIN nested' : nested'[k] # "walk" => k = Len(nested) + 1
    BY <1>6, <1>7
<1>9. TypeOK'
    <2>1. runningCommands' \in Seq(Command) /\ requests' \in Seq(Command)
        <3>1. <<>> \in Seq(Command) /\ runningCommands \in Seq(Command)
            BY <1>1 DEF TypeOK
        <3> QED
            BY <1>2, <3>1
    <2>2. nested' \in Seq(Reason) /\ session' \in {"up", "lost", "aborted"}
        BY <1>1, <1>2, <1>5 DEF TypeOK
    <2> QED
        BY <1>1, <1>2, <1>3, <2>1, <2>2 DEF TypeOK
<1>10. OneRedirect'
    BY <1>2, <1>4, <1>5, <1>7, <1>8 DEF OneRedirect
<1> QED
    BY <1>2, <1>9, <1>10 DEF Types, Started

\* A redirect that ends is counted once, and there was one left.
LEMMA ConnectTypes ==
    ASSUME Types, ConnectSucceeds
    PROVE  Types'
<1> DEFINE emitted == [k \in DOMAIN nested |-> [type |-> "connected"]]
           Ends == {k \in DOMAIN nested : nested[k] = "redirect"}
<1>1. TypeOK /\ OneRedirect
    BY DEF Types
<1>2. /\ socket' = "connected" /\ nested' = <<>> /\ outbox' = outbox \o emitted
      /\ pendingClusterRedirect' = StillPending
      /\ followedClusterRedirects' = followedClusterRedirects + Cardinality(Ends)
      /\ UNCHANGED <<session, submitted, serverInfo, clusterSlots, notVisitedMasterNodes, contexts,
                     contextCount, inbox, commands, internalCommands, runningCommands, wakeup,
                     redirectTimer, config, requests, owner, moved, answered, walk>>
    BY DEF ConnectSucceeds, Counted, callerVars, queueVars, clusterVars, historyVars
<1>3. outbox' \in Seq(Signal)
    <2>1. Len(nested) \in Nat /\ DOMAIN nested = 1..Len(nested)
        BY <1>1, SeqFacts DEF TypeOK
    <2>2. emitted \in [1..Len(nested) -> Signal]
        BY <2>1 DEF Signal
    <2>3. emitted \in Seq(Signal)
        BY <2>1, <2>2, IsASeq
    <2> HIDE DEF emitted
    <2> QED
        BY <1>1, <1>2, <2>3, ConcatFacts DEF TypeOK
<1>4. followedClusterRedirects' \in 0..MaxRedirects
    <2>1. MaxRedirects \in Nat /\ followedClusterRedirects \in 0..MaxRedirects
        BY <1>1, BoundsAssumption DEF TypeOK
    <2>2. CASE Ends = {}
        <3>1. Cardinality(Ends) = 0
            BY <2>2, FS_EmptySet
        <3> QED
            BY <1>2, <2>1, <3>1
    <2>3. CASE Ends # {}
        <3>1. PICK k \in DOMAIN nested : nested[k] = "redirect"
            BY <2>3
        <3>2. Ends = {k}
            BY <1>1, <3>1 DEF OneRedirect
        <3>3. Cardinality(Ends) = 1
            BY <3>2, FS_Singleton
        <3>4. followedClusterRedirects < MaxRedirects
            BY <1>1, <3>1 DEF OneRedirect
        <3> QED
            BY <1>2, <2>1, <3>3, <3>4
    <2> QED
        BY <2>2, <2>3
<1>5. DOMAIN <<>> = {} /\ <<>> \in Seq(Reason)
    BY IsSeqFacts, RangeEmpty
<1>6. pendingClusterRedirect' \in BOOLEAN
    BY <1>2 DEF StillPending
<1>7. TypeOK'
    BY <1>1, <1>2, <1>3, <1>4, <1>5, <1>6 DEF TypeOK
<1>8. OneRedirect'
    <2>1. ASSUME redirectTimer # <<>>
          PROVE  /\ pendingClusterRedirect'
                 /\ Head(redirectTimer).reason = "redirect" => followedClusterRedirects' < MaxRedirects
        <3>1. pendingClusterRedirect /\ \A k \in DOMAIN nested : nested[k] = "walk"
            BY <1>1, <2>1 DEF OneRedirect
        <3>2. Ends = {}
            BY <3>1
        <3>3. Cardinality(Ends) = 0
            BY <3>2, FS_EmptySet
        <3>4. followedClusterRedirects' = followedClusterRedirects
            BY <1>1, <1>2, <3>3 DEF TypeOK
        <3>5. Head(redirectTimer).reason = "redirect" => followedClusterRedirects < MaxRedirects
            BY <1>1, <2>1 DEF OneRedirect
        <3> QED
            BY <1>2, <3>1, <3>4, <3>5 DEF StillPending
    <2> QED
        BY <1>2, <1>5, <2>1 DEF OneRedirect
<1> QED
    BY <1>2, <1>7, <1>8 DEF Types, Started

LEMMA InboxTypes ==
    ASSUME Types, AddCommands \/ AuthOk
    PROVE  Types'
<1>1. TypeOK
    BY DEF Types
<1>2. /\ inbox # <<>> /\ inbox' = Tail(inbox) /\ wakeup' = TRUE
      /\ UNCHANGED <<session, submitted, serverInfo, clusterSlots, notVisitedMasterNodes, contexts,
                     contextCount, outbox, runningCommands, pendingClusterRedirect, redirectTimer,
                     followedClusterRedirects, nested, config, socket, requests, owner, moved,
                     answered, walk>>
    BY DEF AddCommands, AuthOk, Receive, callerVars, queueVars, redirectVars, netVars, clusterVars,
           historyVars
<1>3. Head(inbox) \in Call /\ inbox' \in Seq(Call)
    BY <1>1, <1>2, FirstAndRest DEF TypeOK
<1>4. commands' \in Seq(Command) /\ internalCommands' \in Seq(Command)
    <2>1. commands \in Seq(Command) /\ internalCommands \in Seq(Command)
        BY <1>1 DEF TypeOK
    <2>2. CASE AddCommands
        <3>1. Head(inbox).cmd \in Command
            BY <1>3, <2>2 DEF AddCommands, Receive, Call
        <3> QED
            BY <2>1, <2>2, <3>1, AppendFacts DEF AddCommands
    <2>3. CASE AuthOk
        BY <2>1, <2>3 DEF AuthOk, queueVars
    <2> QED
        BY <2>2, <2>3
<1>5. TypeOK'
    BY <1>1, <1>2, <1>3, <1>4 DEF TypeOK
<1> QED
    BY <1>2, <1>5 DEF Types, OneRedirect, Started

\* A command runs that waited.
LEMMA RunTypes ==
    ASSUME Types, NEW cmd \in Command, RunCommand(cmd),
           commands' \in Seq(Command), internalCommands' \in Seq(Command)
    PROVE  Types'
<1>1. TypeOK
    BY DEF Types
<1>2. /\ runningCommands' = Append(runningCommands, cmd) /\ requests' = Append(requests, cmd)
      /\ UNCHANGED <<session, submitted, serverInfo, clusterSlots, notVisitedMasterNodes, contexts,
                     contextCount, outbox, inbox, wakeup, pendingClusterRedirect, redirectTimer,
                     followedClusterRedirects, nested, config, socket, owner, moved,
                     answered, walk>>
    BY DEF RunCommand, callerVars, redirectVars, clusterVars, historyVars
<1>3. runningCommands' \in Seq(Command) /\ requests' \in Seq(Command)
    BY <1>1, <1>2, AppendFacts DEF TypeOK
<1>4. TypeOK'
    BY <1>1, <1>2, <1>3 DEF TypeOK
<1> QED
    BY <1>2, <1>4 DEF Types, OneRedirect, Started

LEMMA QueueTypes ==
    ASSUME Types, QueueNext
    PROVE  Types'
<1>1. TypeOK
    BY DEF Types
<1>2. CASE QueueIsEmpty
    <2>1. wakeup' = FALSE
          /\ UNCHANGED <<session, submitted, serverInfo, clusterSlots, notVisitedMasterNodes, contexts,
                         contextCount, outbox, inbox, commands, internalCommands, runningCommands,
                         pendingClusterRedirect, redirectTimer, followedClusterRedirects, nested,
                         config, socket, requests, owner, moved, answered, walk>>
        BY <1>2 DEF QueueIsEmpty, callerVars, queueVars, redirectVars, netVars, clusterVars, historyVars
    <2>2. TypeOK'
        BY <1>1, <2>1 DEF TypeOK
    <2> QED
        BY <2>1, <2>2 DEF Types, OneRedirect, Started
<1>3. CASE RunInternalCommand
    <2>1. /\ internalCommands # <<>> /\ internalCommands' = Tail(internalCommands)
          /\ commands' = commands /\ RunCommand(Head(internalCommands))
        BY <1>3 DEF RunInternalCommand
    <2>2. Head(internalCommands) \in Command /\ internalCommands' \in Seq(Command)
        BY <1>1, <2>1, FirstAndRest DEF TypeOK
    <2>3. commands' \in Seq(Command)
        BY <1>1, <2>1 DEF TypeOK
    <2> QED
        BY <2>1, <2>2, <2>3, RunTypes
<1>4. CASE RunPickedCommand
    <2>1. PICK k \in DOMAIN commands : commands' = RemoveAt(commands, k) /\ RunCommand(commands[k])
        BY <1>4 DEF RunPickedCommand
    <2>2. commands \in Seq(Command) /\ internalCommands' \in Seq(Command)
        BY <1>1, <1>4 DEF TypeOK, RunPickedCommand
    <2>3. commands[k] \in Command
        BY <2>2, SeqFacts
    <2>4. commands' \in Seq(Command)
        BY <2>1, <2>2, RemoveAtTypes
    <2> QED
        BY <2>1, <2>2, <2>3, <2>4, RunTypes
<1>5. CASE PickClusterNode
    <2> DEFINE t == [node |-> clusterSlots[Head(commands).slot], reason |-> "pick"]
    <2>1. /\ ~pendingClusterRedirect /\ commands # <<>> /\ clusterSlots # NoSlots
          /\ \A k \in DOMAIN commands : ~ForCurrentNode(commands[k])
          /\ pendingClusterRedirect' = TRUE /\ redirectTimer' = <<t>> /\ wakeup' \in BOOLEAN
          /\ UNCHANGED <<session, submitted, serverInfo, clusterSlots, notVisitedMasterNodes, contexts,
                         contextCount, outbox, inbox, commands, internalCommands, runningCommands,
                         followedClusterRedirects, nested,
                         config, socket, requests, owner, moved, answered, walk>>
        BY <1>5 DEF PickClusterNode, Choosing, ProcessingQueue, callerVars, queueVars, netVars,
                    clusterVars, historyVars
    <2>2. 1 \in DOMAIN commands /\ Head(commands) = commands[1] /\ Head(commands) \in Command
        BY <1>1, <2>1, TailFacts, FirstAndRest DEF TypeOK
    <2>3. Head(commands).slot \in Slots
        <3>1. Head(commands).kind = "key"
            BY <2>1, <2>2 DEF ForCurrentNode
        <3> QED
            BY <2>2, <3>1 DEF Command, KeyCommand, VisitCommand, MastersCommand, HandshakeCommand
    <2>4. t \in [node : Nodes, reason : Reason] /\ t.reason = "pick"
        BY <1>1, <2>1, <2>3 DEF TypeOK, Topology, Reason
    <2> HIDE DEF t
    <2>5. TypeOK'
        BY <1>1, <2>1, <2>4 DEF TypeOK
    <2>6. Head(<<t>>) = t
        OBVIOUS
    <2>7. OneRedirect'
        BY <2>1, <2>4, <2>6 DEF Types, OneRedirect
    <2> QED
        BY <2>1, <2>5, <2>7 DEF Types, Started
<1> QED
    BY <1>2, <1>3, <1>4, <1>5 DEF QueueNext

\* What a node answers.
LEMMA AnswerTypes ==
    ASSUME TypeOK, NEW cmd \in Command
    PROVE  Answer(cmd) \in Reply
<1>1. config \in Nodes /\ owner \in [Slots -> Nodes]
    BY DEF TypeOK, Topology
<1>2. CASE cmd.kind \in {"slots", "masters"}
    BY <1>1, <1>2 DEF Answer, Reply, Topology
<1>3. CASE cmd.kind \in {"ping", "info", "visit"}
    BY <1>1, <1>3 DEF Answer, Reply
<1>4. CASE cmd.kind = "key"
    <2>1. cmd.slot \in Slots
        BY <1>4 DEF Command, KeyCommand, VisitCommand, MastersCommand, HandshakeCommand
    <2>2. owner[cmd.slot] \in Nodes /\ (cmd.slot \in DOMAIN Importing => Importing[cmd.slot] \in Nodes)
        BY <1>1, <2>1, ImportingAssumption
    <2>3. \/ Answer(cmd) = [type |-> "moved", node |-> owner[cmd.slot]]
          \/ cmd.slot \in DOMAIN Importing /\ Answer(cmd) = [type |-> "ask", node |-> Importing[cmd.slot]]
          \/ Answer(cmd) = [type |-> "value", node |-> config]
        BY <1>4 DEF Answer
    <2> QED
        BY <1>1, <2>2, <2>3 DEF Reply
<1> QED
    BY <1>2, <1>3, <1>4 DEF Command, KeyCommand, VisitCommand, MastersCommand, HandshakeCommand

LEMMA ReplyTypes ==
    ASSUME Types, RequestsHaveCommands, ReplyNext
    PROVE  Types'
<1>1. TypeOK
    BY DEF Types
<1> DEFINE cmd == Head(runningCommands)
           reply == Answer(Head(requests))
<1>2. /\ requests # <<>> /\ requests' = Tail(requests) /\ runningCommands' = Tail(runningCommands)
      /\ UNCHANGED <<submitted, notVisitedMasterNodes, contexts, contextCount, inbox,
                     internalCommands, wakeup, nested, config, socket, owner, moved, walk>>
    BY DEF ReplyNext, AbortRedirects, FollowRedirect, CompleteCommand, ReadReply, callerVars,
           redirectVars, clusterVars, historyVars
<1>3. runningCommands # <<>>
    <2>1. Len(requests) \in Nat \ {0} /\ Len(runningCommands) \in Nat
        BY <1>1, <1>2, TailFacts, SeqFacts DEF TypeOK
    <2>2. Len(runningCommands) # 0
        BY <2>1 DEF RequestsHaveCommands
    <2> QED
        BY <2>2, RangeEmpty
<1>4. /\ cmd \in Command /\ runningCommands' \in Seq(Command)
      /\ Head(requests) \in Command /\ requests' \in Seq(Command)
    BY <1>1, <1>2, <1>3, FirstAndRest DEF TypeOK
<1>5. reply \in Reply
    BY <1>1, <1>4, AnswerTypes
<1>6. Started' = Started
    BY <1>2 DEF Started
<1>7. CASE AbortRedirects
    <2>1. session' = "aborted"
          /\ UNCHANGED <<serverInfo, clusterSlots, outbox, commands, pendingClusterRedirect,
                         redirectTimer, followedClusterRedirects, answered>>
        BY <1>7 DEF AbortRedirects, callerVars, redirectVars, historyVars
    <2>2. TypeOK'
        BY <1>1, <1>2, <1>4, <2>1 DEF TypeOK
    <2> QED
        BY <1>2, <1>6, <2>1, <2>2 DEF Types, OneRedirect
<1>8. CASE FollowRedirect
    <2> DEFINE t == [node |-> reply.node, reason |-> "redirect"]
    <2>1. /\ commands' = <<cmd>> \o commands /\ ~(followedClusterRedirects >= MaxRedirects)
          /\ UNCHANGED <<session, outbox, followedClusterRedirects, answered>>
          /\ \/ UNCHANGED <<pendingClusterRedirect, redirectTimer, serverInfo, clusterSlots>>
             \/ /\ ~pendingClusterRedirect /\ pendingClusterRedirect' = TRUE
                /\ redirectTimer' = <<t>> /\ serverInfo' = FALSE /\ clusterSlots' = NoSlots
        BY <1>8 DEF FollowRedirect, Exhausted, historyVars
    <2>2. t \in [node : Nodes, reason : Reason] /\ t.reason = "redirect"
        <3>1. reply.node \in Nodes
            BY <1>5 DEF Reply
        <3> QED
            BY <3>1 DEF Reason
    <2>3. commands' \in Seq(Command)
        <3>1. <<cmd>> \in Seq(Command) /\ commands \in Seq(Command)
            BY <1>1, <1>4 DEF TypeOK
        <3> QED
            BY <2>1, <3>1, ConcatFacts
    <2>4. followedClusterRedirects < MaxRedirects
        BY <1>1, <2>1, BoundsAssumption DEF TypeOK
    <2> HIDE DEF t, cmd, reply
    <2>5. TypeOK'
        BY <1>1, <1>2, <1>4, <2>1, <2>2, <2>3 DEF TypeOK
    <2>6. Head(<<t>>) = t
        OBVIOUS
    <2>7. OneRedirect'
        BY <1>2, <2>1, <2>2, <2>4, <2>6 DEF Types, OneRedirect
    <2> QED
        BY <1>6, <2>5, <2>7 DEF Types
<1>9. CASE CompleteCommand
    <2> DEFINE signal == [type |-> "reply", cmd |-> cmd, reply |-> reply]
    <2>1. /\ UNCHANGED <<session, serverInfo, clusterSlots, commands, pendingClusterRedirect,
                         redirectTimer>>
          /\ \/ /\ cmd.kind = "key" /\ answered' = Append(answered, cmd.id)
                /\ followedClusterRedirects' = 0 /\ outbox' = outbox
             \/ /\ outbox' = Append(outbox, signal)
                /\ UNCHANGED <<answered, followedClusterRedirects>>
        BY <1>9 DEF CompleteCommand, ResetCounter, callerVars
    <2>2. signal \in Signal
        BY <1>4, <1>5 DEF Signal
    <2>3. cmd.kind = "key" => cmd.id \in 1..MaxCalls
        BY <1>4 DEF Command, KeyCommand, VisitCommand, MastersCommand, HandshakeCommand
    <2> HIDE DEF signal, cmd, reply
    <2>4. outbox' \in Seq(Signal) /\ answered' \in Seq(1..MaxCalls)
        <3>1. outbox \in Seq(Signal) /\ answered \in Seq(1..MaxCalls)
            BY <1>1 DEF TypeOK
        <3>2. Append(outbox, signal) \in Seq(Signal)
            BY <2>2, <3>1, AppendFacts
        <3>3. cmd.kind = "key" => Append(answered, cmd.id) \in Seq(1..MaxCalls)
            BY <2>3, <3>1, AppendFacts
        <3> QED
            BY <2>1, <3>1, <3>2, <3>3
    <2>5. /\ followedClusterRedirects' \in 0..MaxRedirects
          /\ followedClusterRedirects < MaxRedirects => followedClusterRedirects' < MaxRedirects
        BY <1>1, <2>1, BoundsAssumption DEF TypeOK
    <2>6. TypeOK'
        BY <1>1, <1>2, <1>4, <2>1, <2>4, <2>5 DEF TypeOK
    <2>7. OneRedirect'
        BY <1>2, <2>1, <2>5 DEF Types, OneRedirect
    <2> QED
        BY <1>6, <2>6, <2>7 DEF Types
<1> QED
    BY <1>7, <1>8, <1>9 DEF ReplyNext

LEMMA MoveTypes ==
    ASSUME Types, NEW slot \in Slots, NEW node \in Nodes, MoveSlot(slot, node)
    PROVE  Types'
<1>1. TypeOK
    BY DEF Types
<1>2. /\ <<slot, node>> \in Moves /\ owner' = [owner EXCEPT ![slot] = node]
      /\ moved' = moved \union {<<slot, node>>}
      /\ UNCHANGED <<session, submitted, serverInfo, clusterSlots, notVisitedMasterNodes, contexts,
                     contextCount, outbox, inbox, commands, internalCommands, runningCommands, wakeup,
                     pendingClusterRedirect, redirectTimer, followedClusterRedirects, nested,
                     config, socket, requests, answered, walk>>
    BY DEF MoveSlot, callerVars, queueVars, redirectVars, netVars, historyVars
<1>3. owner' \in Topology /\ moved' \subseteq Moves
    BY <1>1, <1>2 DEF TypeOK, Topology
<1>4. TypeOK'
    BY <1>1, <1>2, <1>3 DEF TypeOK
<1> QED
    BY <1>2, <1>4 DEF Types, OneRedirect, Started

LEMMA TypesStep ==
    ASSUME Types, RequestsHaveCommands, [Next]_vars
    PROVE  Types'
<1>1. CASE UNCHANGED vars
    BY <1>1 DEF vars, callerVars, queueVars, redirectVars, netVars, clusterVars, historyVars,
                Types, TypeOK, OneRedirect, Started
<1> QED
    BY <1>1, SubmitTypes, StartWalkTypes, ReceiveTypes, WalkReconnectsTypes, InboxTypes,
       RedirectTimerTypes, ConnectTypes, QueueTypes, ReplyTypes, MoveTypes
    DEF Next, CallerNext, InboxNext

LEMMA TypesInvariant == Spec => [](LineInvariant /\ Types)
<1>1. Init => LineInvariant /\ Types
    BY InitLine, InitTypes
<1>2. LineInvariant /\ Types /\ [Next]_vars => (LineInvariant /\ Types)'
    BY LineStep, TypesStep DEF LineInvariant
<1> QED
    BY <1>1, <1>2, PTL DEF Spec

\* Every variable of a cluster session stays in its type, whatever replies are out of
\* step after a redirect: the counter of redirects (m_followedClusterRedirects) stays
\* within MAX_CLUSTER_REDIRECTS, one redirect at most waits for its timer, and the nodes
\* and slots that the connection takes from a reply are nodes and slots.
THEOREM ClusterTypes == Spec => []TypeOK
<1>1. LineInvariant /\ Types => TypeOK
    BY DEF Types
<1> QED
    BY <1>1, TypesInvariant, PTL

-----------------------------------------------------------------------------
(* While the slots stay where they are and nobody walks over the nodes. *)

Quiet ==
    moved = {} /\ Range(submitted) \intersect DOMAIN Importing = {}
    /\ \A w \in Walks : ~walk[w].started
WalksAreRecords ==
    DOMAIN walk = Walks /\ \A w \in Walks : "started" \in DOMAIN walk[w]

LoneCommand == KeyCommand \union HandshakeCommand
LoneCall == [type : {"add"}, cmd : LoneCommand] \union [type : {"authOk"}]
LoneSignal ==
    [type : {"connected"}]
    \union [type : {"reply"}, cmd : [kind : {"ping"}], reply : [type : {"pong"}, node : Nodes]]
    \union [type : {"reply"}, cmd : [kind : {"info"}], reply : [type : {"info"}, node : Nodes]]
    \union [type : {"reply"}, cmd : [kind : {"slots"}],
            reply : [type : {"slots"}, node : Nodes, slots : {owner}]]

\* There are the commands for keys and those of the handshake, and the slots that are
\* known are the true ones.
NobodyWalks ==
    /\ contexts = <<>>
    /\ inbox \in Seq(LoneCall) /\ outbox \in Seq(LoneSignal)
    /\ commands \in Seq(KeyCommand) /\ internalCommands \in Seq(HandshakeCommand)
    /\ runningCommands \in Seq(LoneCommand)
    /\ owner \in Topology /\ config \in Nodes /\ clusterSlots \in {owner, NoSlots}

\* A user's command that runs on its node, and none that runs.
KeyRuns(node) ==
    \E k \in DOMAIN runningCommands :
        runningCommands[k].kind = "key" /\ owner[runningCommands[k].slot] = node
NoKeyRuns == \A k \in DOMAIN runningCommands : runningCommands[k].kind # "key"

\* One reconnect is under way while a redirect is pending, and none otherwise.
OneReconnect ==
    /\ requests = runningCommands
    /\ pendingClusterRedirect <=> redirectTimer # <<>> \/ nested # <<>>
    /\ redirectTimer = <<>> \/ nested = <<>>
    /\ redirectTimer \in {<<>>} \union {<<t>> : t \in [node : Nodes, reason : {"redirect", "pick"}]}
    /\ nested \in {<<>>, <<"redirect">>, <<"pick">>}
    /\ socket \in {"connecting", "connected"} /\ (socket = "connecting" <=> nested # <<>>)
    /\ nested # <<>> => runningCommands = <<>>
    /\ pendingClusterRedirect => NoKeyRuns

\* The command that was redirected is the first, and goes to its node.
AtHome(node) == commands # <<>> /\ owner[Head(commands).slot] = node /\ NoKeyRuns
Homing ==
    /\ redirectTimer # <<>> /\ Head(redirectTimer).reason = "redirect" =>
           AtHome(Head(redirectTimer).node) /\ followedClusterRedirects = 0
    /\ nested = <<"redirect">> => AtHome(config) /\ followedClusterRedirects = 0
    /\ followedClusterRedirects # 0 =>
           ~pendingClusterRedirect /\ (AtHome(config) \/ KeyRuns(config))
    /\ followedClusterRedirects \in {0, 1}

InService == NobodyWalks /\ OneReconnect /\ Homing
Serves ==
    /\ WalksAreRecords
    /\ Quiet => session # "aborted" /\ (session = "up" => InService)

LEMMA InitServes == Init => Serves
<1> SUFFICES ASSUME Init PROVE Serves
    OBVIOUS
<1>1. WalksAreRecords
    BY DEF Init, WalksAreRecords
<1>2. /\ <<>> \in Seq(LoneCall) /\ <<>> \in Seq(LoneSignal) /\ <<>> \in Seq(KeyCommand)
      /\ <<>> \in Seq(HandshakeCommand) /\ <<>> \in Seq(LoneCommand)
    OBVIOUS
<1>3. NobodyWalks
    BY <1>2, FirstAssumption DEF Init, NobodyWalks, Topology
<1>4. OneReconnect
    BY DEF Init, OneReconnect
<1>5. Homing
    BY DEF Init, Homing
<1> QED
    BY <1>1, <1>3, <1>4, <1>5 DEF Init, Serves, InService

\* What disturbs the quiet.
LEMMA QuietEnds ==
    ASSUME WalksAreRecords,
           \/ \E w \in Walks : StartWalk(w)
           \/ \E slot \in Slots, node \in Nodes : MoveSlot(slot, node)
    PROVE  ~Quiet' /\ WalksAreRecords'
<1>1. CASE \E w \in Walks : StartWalk(w)
    <2>1. PICK w \in Walks : StartWalk(w)
        BY <1>1
    <2>2. walk' = [Disturbed({w}) EXCEPT ![w].started = TRUE, ![w].alone = Idle]
        BY <2>1 DEF StartWalk
    <2>3. /\ DOMAIN Disturbed({w}) = Walks
          /\ \A v \in Walks : "started" \in DOMAIN Disturbed({w})[v]
        BY DEF Disturbed, WalksAreRecords
    <2>4. DOMAIN walk' = Walks /\ \A v \in Walks : "started" \in DOMAIN walk'[v]
        BY <2>2, <2>3
    <2>5. walk'[w].started
        BY <2>2, <2>3
    <2> QED
        BY <2>4, <2>5 DEF WalksAreRecords, Quiet
<1>2. CASE \E slot \in Slots, node \in Nodes : MoveSlot(slot, node)
    BY <1>2 DEF MoveSlot, historyVars, WalksAreRecords, Quiet
<1> QED
    BY <1>1, <1>2

\* It does not come back.
LEMMA QuietBefore ==
    ASSUME LineInvariant, WalksAreRecords, Next
    PROVE  WalksAreRecords' /\ (Quiet' => Quiet)
<1>1. CASE \E slot \in Slots : Submit(slot)
    <2>1. PICK slot \in Slots : Submit(slot)
        BY <1>1
    <2>2. walk' = Disturbed({}) /\ submitted' = Append(submitted, slot) /\ moved' = moved
        BY <2>1 DEF Submit, clusterVars
    <2>3. DOMAIN walk' = Walks
        BY <2>2 DEF Disturbed
    <2>4. ASSUME NEW w \in Walks
          PROVE  "started" \in DOMAIN walk'[w] /\ walk'[w].started = walk[w].started
        BY <2>2 DEF Disturbed, WalksAreRecords
    <2>5. Range(submitted) \subseteq Range(submitted')
        <3>1. submitted \in Seq(Slots)
            BY DEF LineInvariant, Sequences
        <3>2. \A k \in DOMAIN submitted : k \in DOMAIN submitted' /\ submitted'[k] = submitted[k]
            BY <2>2, <3>1, AppendFacts
        <3> QED
            BY <3>2 DEF Range
    <2> QED
        BY <2>2, <2>3, <2>4, <2>5 DEF WalksAreRecords, Quiet
<1>2. CASE ReceiveSignal
    <2>1. UNCHANGED <<submitted, moved>>
        BY <1>2 DEF ReceiveSignal, clusterVars
    <2>2. \/ walk' = walk
          \/ \E w, cmd, reply : WalkGoesOn(w, cmd, reply)
        BY <1>2 DEF ReceiveSignal, Continue, Handshake, EmitAuthOk
    <2>3. ASSUME NEW w, NEW cmd, NEW reply, WalkGoesOn(w, cmd, reply)
          PROVE  /\ DOMAIN walk' = Walks
                 /\ \A v \in Walks : "started" \in DOMAIN walk'[v] /\ walk'[v].started = walk[v].started
        BY <2>3 DEF WalkGoesOn, WalksAreRecords
    <2> QED
        BY <2>1, <2>2, <2>3 DEF WalksAreRecords, Quiet
<1>3. CASE InboxNext \/ RedirectTimer \/ ConnectSucceeds \/ QueueNext \/ ReplyNext
    <2>1. UNCHANGED <<submitted, moved, walk>>
        <3>1. CASE InboxNext
            BY <3>1 DEF InboxNext, WalkReconnects, AddCommands, AuthOk, callerVars, clusterVars, historyVars
        <3>2. CASE RedirectTimer \/ ConnectSucceeds
            BY <3>2 DEF RedirectTimer, ConnectSucceeds, callerVars, clusterVars, historyVars
        <3>3. CASE QueueNext
            BY <3>3 DEF QueueNext, QueueIsEmpty, RunInternalCommand, RunPickedCommand, RunCommand,
                        PickClusterNode, callerVars, clusterVars, historyVars
        <3>4. CASE ReplyNext
            BY <3>4 DEF ReplyNext, AbortRedirects, FollowRedirect, CompleteCommand, callerVars,
                        clusterVars, historyVars
        <3> QED
            BY <1>3, <3>1, <3>2, <3>3, <3>4
    <2> QED
        BY <2>1 DEF WalksAreRecords, Quiet
<1>4. CASE \/ \E w \in Walks : StartWalk(w)
           \/ \E slot \in Slots, node \in Nodes : MoveSlot(slot, node)
    BY <1>4, QuietEnds
<1> QED
    BY <1>1, <1>2, <1>3, <1>4 DEF Next, CallerNext

\* A command for a key is posted.
LEMMA SubmitServes ==
    ASSUME LineInvariant, Quiet, InService, NEW slot \in Slots, Submit(slot)
    PROVE  session' = session /\ InService'
<1> DEFINE cmd == [kind |-> "key", id |-> Len(submitted) + 1, slot |-> slot]
<1>1. /\ Calls < MaxCalls /\ inbox' = Append(inbox, Add(cmd))
      /\ UNCHANGED <<session, contexts, outbox, clusterSlots, commands, internalCommands,
                     runningCommands, requests, config, socket, owner>>
      /\ UNCHANGED redirectVars
    BY DEF Submit, queueVars, netVars, clusterVars
<1>2. Add(cmd) \in LoneCall
    <2>1. Calls = Len(submitted) /\ Len(submitted) \in Nat
        <3>1. {w \in Walks : walk[w].started} = {}
            BY DEF Quiet
        <3>2. Cardinality({}) = 0
            BY FS_EmptySet
        <3>3. Len(submitted) \in Nat
            BY LineSeqs
        <3>4. Calls = Len(submitted) + 0
            BY <3>1, <3>2 DEF Calls
        <3> QED
            BY <3>3, <3>4
    <2>2. Len(submitted) + 1 \in 1..MaxCalls
        BY <1>1, <2>1, BoundsAssumption
    <2> QED
        BY <2>2 DEF Add, LoneCall, LoneCommand, KeyCommand
<1> HIDE DEF cmd
<1>3. inbox' \in Seq(LoneCall)
    BY <1>1, <1>2, AppendFacts DEF InService, NobodyWalks
<1>4. NobodyWalks'
    BY <1>1, <1>3 DEF InService, NobodyWalks, LoneSignal
<1>5. OneReconnect'
    BY <1>1 DEF InService, OneReconnect, redirectVars, NoKeyRuns
<1>6. Homing'
    BY <1>1 DEF InService, Homing, redirectVars, NoKeyRuns, KeyRuns, AtHome
<1> QED
    BY <1>1, <1>4, <1>5, <1>6 DEF InService

\* A signal or a reply to the handshake.
LEMMA ReceiveServes ==
    ASSUME LineInvariant, Quiet, InService, ReceiveSignal
    PROVE  session' = session /\ InService'
<1>1. /\ outbox # <<>>
      /\ UNCHANGED <<commands, internalCommands, runningCommands, requests, config, socket, owner>>
      /\ UNCHANGED redirectVars
    BY DEF ReceiveSignal, queueVars, netVars, clusterVars
<1>2. OneReconnect'
    BY <1>1 DEF InService, OneReconnect, redirectVars, NoKeyRuns
<1>3. Homing'
    BY <1>1 DEF InService, Homing, redirectVars, NoKeyRuns, KeyRuns, AtHome
<1>4. /\ Head(outbox) \in LoneSignal /\ Tail(outbox) \in Seq(LoneSignal)
      /\ contexts = <<>> /\ inbox \in Seq(LoneCall)
    <2>1. outbox \in Seq(LoneSignal)
        BY DEF InService, NobodyWalks
    <2>2. 1 \in DOMAIN outbox /\ Head(outbox) = outbox[1] /\ Tail(outbox) \in Seq(LoneSignal)
        BY <1>1, <2>1, TailFacts
    <2>3. outbox[1] \in LoneSignal
        BY <2>1, <2>2, SeqFacts
    <2> QED
        BY <2>2, <2>3 DEF InService, NobodyWalks
<1>5. /\ Add([kind |-> "ping"]) \in LoneCall /\ Add([kind |-> "info"]) \in LoneCall
      /\ Add([kind |-> "slots"]) \in LoneCall /\ [type |-> "authOk"] \in LoneCall
    BY DEF Add, LoneCall, LoneCommand, HandshakeCommand
<1>6. ASSUME NEW kind \in {"ping", "info", "slots"}, Continue(kind)
      PROVE  inbox' \in Seq(LoneCall) /\ outbox' \in Seq(LoneSignal) /\ contexts' = <<>>
    BY <1>4, <1>5, <1>6, AppendFacts DEF Continue
<1>7. ASSUME EmitAuthOk
      PROVE  inbox' \in Seq(LoneCall) /\ outbox' \in Seq(LoneSignal) /\ contexts' = <<>>
    <2>1. inbox' = (inbox \o <<[type |-> "authOk"]>>)
                     \o [k \in DOMAIN <<>> |-> Add([kind |-> "visit", walk |-> <<>>[k].walk])]
        BY <1>4, <1>7 DEF EmitAuthOk
    <2> DEFINE nobody == [k \in DOMAIN <<>> |-> Add([kind |-> "visit", walk |-> <<>>[k].walk])]
               posted == <<[type |-> "authOk"]>>
    <2>2. nobody \in Seq(LoneCall)
        <3>1. <<>> \in Seq({}) /\ Len(<<>>) = 0
            OBVIOUS
        <3>2. DOMAIN <<>> = 1..0
            BY <3>1, SeqFacts
        <3>3. 0 \in Nat /\ nobody \in [1..0 -> LoneCall]
            BY <3>2
        <3> QED
            BY <3>3, IsASeq
    <2>3. posted \in Seq(LoneCall)
        BY <1>5
    <2> HIDE DEF nobody, posted
    <2>4. (inbox \o posted) \o nobody \in Seq(LoneCall)
        BY <1>4, <2>2, <2>3, ConcatFacts
    <2> QED
        BY <1>4, <1>7, <2>1, <2>4 DEF EmitAuthOk, nobody, posted
<1>8. /\ inbox' \in Seq(LoneCall) /\ outbox' \in Seq(LoneSignal) /\ contexts' = <<>>
      /\ clusterSlots' \in {owner, NoSlots} /\ session' = session
    <2>1. CASE /\ Head(outbox).type = "connected"
               /\ Continue("ping") /\ UNCHANGED <<session, serverInfo, clusterSlots>>
        BY <1>6, <2>1 DEF InService, NobodyWalks
    <2>2. CASE Head(outbox).type = "reply" /\ Handshake(Head(outbox).cmd.kind, Head(outbox).reply)
        <3>1. /\ Head(outbox).cmd.kind = "slots" => SlotsIn(Head(outbox).reply) = owner
              /\ Head(outbox).cmd.kind = "ping" => Head(outbox).reply.type = "pong"
            BY <1>4, <2>2 DEF LoneSignal, SlotsIn
        <3>2. clusterSlots \in {owner, NoSlots}
            BY DEF InService, NobodyWalks
        <3>3. Continue("info") \/ Continue("slots") \/ EmitAuthOk
            BY <2>2, <3>1 DEF Handshake
        <3>4. clusterSlots' \in {clusterSlots, owner} /\ session' = session
            BY <2>2, <3>1 DEF Handshake
        <3> QED
            BY <1>6, <1>7, <3>2, <3>3, <3>4
    <2>3. /\ Head(outbox).type \in {"connected", "reply"}
          /\ Head(outbox).type = "reply" => Head(outbox).cmd.kind \in {"ping", "info", "slots"}
        BY <1>4 DEF LoneSignal
    <2> QED
        BY <2>1, <2>2, <2>3 DEF ReceiveSignal
<1>9. NobodyWalks'
    BY <1>1, <1>8 DEF InService, NobodyWalks, LoneSignal
<1> QED
    BY <1>2, <1>3, <1>8, <1>9 DEF InService

\* Nothing but commands and authOk comes to the transporter.
LEMMA InboxServes ==
    ASSUME LineInvariant, Quiet, InService, InboxNext
    PROVE  session' = session /\ InService'
<1>1. /\ inbox # <<>> /\ inbox' = Tail(inbox) /\ inbox \in Seq(LoneCall)
    BY DEF InboxNext, WalkReconnects, AddCommands, AuthOk, Receive, InService, NobodyWalks
<1>2. inbox' \in Seq(LoneCall) /\ Head(inbox) \in LoneCall
    <2>1. 1 \in DOMAIN inbox /\ Head(inbox) = inbox[1] /\ inbox' \in Seq(LoneCall)
        BY <1>1, TailFacts
    <2> QED
        BY <1>1, <2>1, SeqFacts
<1>3. CASE AuthOk
    <2>1. UNCHANGED <<session, contexts, outbox, clusterSlots, commands, internalCommands,
                      runningCommands, requests, config, socket, owner>> /\ UNCHANGED redirectVars
        BY <1>3 DEF AuthOk, callerVars, queueVars, netVars, clusterVars
    <2>2. NobodyWalks'
        BY <1>2, <2>1 DEF InService, NobodyWalks, LoneSignal
    <2>3. OneReconnect'
        BY <2>1 DEF InService, OneReconnect, redirectVars, NoKeyRuns
    <2>4. Homing'
        BY <2>1 DEF InService, Homing, redirectVars, NoKeyRuns, KeyRuns, AtHome
    <2> QED
        BY <2>1, <2>2, <2>3, <2>4 DEF InService
<1>4. CASE AddCommands
    <2> DEFINE cmd == Head(inbox).cmd
    <2>1. /\ Head(inbox).type = "add"
          /\ \/ HiPriority(cmd) /\ internalCommands' = Append(internalCommands, cmd) /\ commands' = commands
             \/ ~HiPriority(cmd) /\ commands' = Append(commands, cmd) /\ internalCommands' = internalCommands
          /\ UNCHANGED <<session, contexts, outbox, clusterSlots,
                         runningCommands, requests, config, socket, owner>> /\ UNCHANGED redirectVars
        BY <1>4 DEF AddCommands, Receive, callerVars, netVars, clusterVars
    <2>2. cmd \in LoneCommand
        BY <1>2, <2>1 DEF LoneCall
    <2>3. (HiPriority(cmd) => cmd \in HandshakeCommand) /\ (~HiPriority(cmd) => cmd \in KeyCommand)
        BY <2>2 DEF LoneCommand, HiPriority, KeyCommand, HandshakeCommand
    <2> HIDE DEF cmd
    <2>4. commands \in Seq(KeyCommand) /\ internalCommands \in Seq(HandshakeCommand)
        BY DEF InService, NobodyWalks
    <2>5. commands' \in Seq(KeyCommand) /\ internalCommands' \in Seq(HandshakeCommand)
        <3>1. CASE HiPriority(cmd)
            <4>1. Append(internalCommands, cmd) \in Seq(HandshakeCommand)
                BY <2>3, <2>4, <3>1, AppendFacts
            <4> QED
                BY <2>1, <2>4, <3>1, <4>1
        <3>2. CASE ~HiPriority(cmd)
            <4>1. Append(commands, cmd) \in Seq(KeyCommand)
                BY <2>3, <2>4, <3>2, AppendFacts
            <4> QED
                BY <2>1, <2>4, <3>2, <4>1
        <3> QED
            BY <3>1, <3>2
    <2>6. commands # <<>> => commands' # <<>> /\ Head(commands') = Head(commands)
        <3>1. CASE commands' = commands
            BY <3>1
        <3>2. CASE commands # <<>> /\ commands' = Append(commands, cmd) /\ cmd \in KeyCommand
            <4>1. 1 \in DOMAIN commands /\ Head(commands) = commands[1]
                BY <2>4, <3>2, TailFacts
            <4>2. /\ Len(commands) \in Nat /\ Len(commands') = Len(commands) + 1
                  /\ \A k \in DOMAIN commands : commands'[k] = commands[k]
                BY <2>4, <3>2, AppendFacts
            <4>3. commands' # <<>>
                BY <4>2, EmptySeq
            <4>4. Head(commands') = commands'[1]
                BY <2>5, <4>3, TailFacts
            <4> QED
                BY <4>1, <4>2, <4>3, <4>4
        <3> QED
            BY <2>1, <2>3, <3>1, <3>2
    <2>7. NobodyWalks'
        BY <1>2, <2>1, <2>5 DEF InService, NobodyWalks, LoneSignal
    <2>8. OneReconnect'
        BY <2>1 DEF InService, OneReconnect, redirectVars, NoKeyRuns
    <2>9. Homing'
        BY <2>1, <2>6 DEF InService, Homing, redirectVars, NoKeyRuns, KeyRuns, AtHome
    <2> QED
        BY <2>1, <2>7, <2>8, <2>9 DEF InService
<1>5. ~WalkReconnects
    BY <1>2 DEF WalkReconnects, Receive, LoneCall
<1> QED
    BY <1>3, <1>4, <1>5 DEF InboxNext

\* The timer of a redirect reconnects, to the node of the command that was redirected
\* if there was one; nothing may be running.
LEMMA TimerServes ==
    ASSUME LineInvariant, Quiet, InService, session = "up", RedirectTimer
    PROVE  session' # "aborted" /\ (session' = "up" => InService')
<1> DEFINE t == Head(redirectTimer)
<1>1. /\ redirectTimer # <<>> /\ redirectTimer' = <<>>
      /\ config' = t.node /\ socket' = "connecting" /\ requests' = <<>>
      /\ nested' = Append(nested, t.reason)
      /\ \/ socket = "connected" /\ runningCommands # <<>> /\ session' = "lost"
         \/ /\ ~(socket = "connected" /\ runningCommands # <<>>)
            /\ session' = session /\ runningCommands' = runningCommands
      /\ UNCHANGED <<contexts, inbox, outbox, clusterSlots, commands, internalCommands, owner,
                     pendingClusterRedirect, followedClusterRedirects>>
    BY DEF RedirectTimer, ReconnectTo, callerVars, clusterVars
<1>2. /\ nested = <<>> /\ t \in [node : Nodes, reason : {"redirect", "pick"}]
      /\ pendingClusterRedirect /\ socket # "connecting"
    <2>1. PICK u \in [node : Nodes, reason : {"redirect", "pick"}] : redirectTimer = <<u>>
        BY <1>1 DEF InService, OneReconnect
    <2>2. t = u
        BY <2>1
    <2> QED
        BY <1>1, <2>1, <2>2 DEF InService, OneReconnect
<1> HIDE DEF t
<1>3. nested' = <<t.reason>> /\ t.node \in Nodes /\ t.reason \in {"redirect", "pick"}
    BY <1>1, <1>2
<1>4. SUFFICES ASSUME session' = "up" PROVE InService'
    BY <1>1
<1>5. UNCHANGED <<session, runningCommands>> /\ ~(socket = "connected" /\ runningCommands # <<>>)
    BY <1>1, <1>4
<1>6. requests' = <<>> /\ runningCommands' = <<>> /\ runningCommands = <<>>
    BY <1>1, <1>2, <1>5 DEF InService, OneReconnect
<1>7. DOMAIN <<>> = {}
    <2>1. <<>> \in Seq({}) /\ Len(<<>>) = 0
        OBVIOUS
    <2> QED
        BY <2>1, SeqFacts
<1>8. NobodyWalks'
    BY <1>1, <1>3, <1>5 DEF InService, NobodyWalks, LoneSignal
<1>9. OneReconnect'
    BY <1>1, <1>2, <1>3, <1>6, <1>7 DEF OneReconnect, NoKeyRuns
<1>10. Homing'
    <2>1. followedClusterRedirects = 0
        BY <1>2 DEF InService, Homing
    <2>2. t.reason = "redirect" => commands # <<>> /\ owner[Head(commands).slot] = t.node
        BY <1>1 DEF InService, Homing, AtHome, t
    <2>3. nested' = <<"redirect">> => t.reason = "redirect"
        BY <1>3
    <2>4. nested' = <<"redirect">> => AtHome(config)'
        BY <1>1, <1>6, <1>7, <2>2, <2>3 DEF AtHome, NoKeyRuns
    <2> QED
        BY <1>1, <2>1, <2>4 DEF Homing
<1> QED
    BY <1>8, <1>9, <1>10 DEF InService

\* The node accepts, and the redirect is over.
LEMMA ConnectServes ==
    ASSUME LineInvariant, Quiet, InService, ConnectSucceeds
    PROVE  session' = session /\ InService'
<1>1. /\ socket = "connecting" /\ socket' = "connected" /\ nested' = <<>>
      /\ outbox' = outbox \o [k \in DOMAIN nested |-> [type |-> "connected"]]
      /\ pendingClusterRedirect' = StillPending /\ followedClusterRedirects' = Counted
      /\ UNCHANGED <<session, contexts, inbox, clusterSlots, commands, internalCommands, runningCommands,
                     requests, redirectTimer, owner, config>>
    BY DEF ConnectSucceeds, callerVars, queueVars, clusterVars
<1>2. /\ nested \in {<<"redirect">>, <<"pick">>} /\ nested # <<>> /\ redirectTimer = <<>>
      /\ pendingClusterRedirect
    BY <1>1 DEF InService, OneReconnect
<1>3. DOMAIN nested = {1} /\ nested[1] \in {"redirect", "pick"}
    <2>1. ASSUME NEW reason \in {"redirect", "pick"}
          PROVE  DOMAIN <<reason>> = {1} /\ <<reason>>[1] = reason
        <3>1. <<reason>> \in Seq({reason}) /\ Len(<<reason>>) = 1 /\ <<reason>>[1] = reason
            OBVIOUS
        <3>2. DOMAIN <<reason>> = 1..1
            BY <3>1, SeqFacts
        <3> QED
            BY <3>1, <3>2
    <2> QED
        BY <1>2, <2>1
<1>4. outbox' \in Seq(LoneSignal)
    <2> DEFINE emitted == [k \in DOMAIN nested |-> [type |-> "connected"]]
    <2>1. emitted \in Seq(LoneSignal)
        <3>1. [type |-> "connected"] \in LoneSignal
            BY DEF LoneSignal
        <3>2. emitted \in [1..1 -> LoneSignal] /\ 1 \in Nat
            BY <1>3, <3>1
        <3> QED
            BY <3>2, IsASeq
    <2> HIDE DEF emitted
    <2>2. outbox \in Seq(LoneSignal)
        BY DEF InService, NobodyWalks
    <2>3. outbox \o emitted \in Seq(LoneSignal)
        BY <2>1, <2>2, ConcatFacts
    <2> QED
        BY <1>1, <2>3 DEF emitted
<1>5. NobodyWalks'
    BY <1>1, <1>4 DEF InService, NobodyWalks, LoneSignal
<1>6. ~pendingClusterRedirect'
    BY <1>1, <1>3 DEF StillPending
<1>7. OneReconnect'
    BY <1>1, <1>2, <1>6 DEF InService, OneReconnect
<1>8. followedClusterRedirects' = IF nested = <<"redirect">> THEN 1 ELSE 0
    <2>1. followedClusterRedirects = 0
        BY <1>2 DEF InService, Homing
    <2>2. {k \in DOMAIN nested : nested[k] = "redirect"} = IF nested = <<"redirect">> THEN {1} ELSE {}
        BY <1>2, <1>3
    <2>3. Cardinality({1}) = 1 /\ Cardinality({}) = 0
        BY FS_EmptySet, FS_Singleton
    <2>4. Cardinality({k \in DOMAIN nested : nested[k] = "redirect"}) = IF nested = <<"redirect">> THEN 1 ELSE 0
        BY <2>2, <2>3
    <2> QED
        BY <1>1, <2>1, <2>4 DEF Counted
<1>9. nested = <<"redirect">> => AtHome(config)'
    BY <1>1 DEF InService, Homing, AtHome, NoKeyRuns
<1>10. Homing'
    BY <1>1, <1>2, <1>6, <1>8, <1>9 DEF Homing
<1> QED
    BY <1>1, <1>5, <1>7, <1>10 DEF InService

\* A command of the handshake runs.
LEMMA InternalServes ==
    ASSUME LineInvariant, Quiet, InService, RunInternalCommand
    PROVE  session' = session /\ InService'
<1> DEFINE cmd == Head(internalCommands)
<1>1. /\ ~pendingClusterRedirect /\ internalCommands # <<>> /\ internalCommands' = Tail(internalCommands)
      /\ runningCommands' = Append(runningCommands, cmd) /\ requests' = Append(requests, cmd)
      /\ UNCHANGED <<session, contexts, inbox, outbox, clusterSlots, commands, config, socket, owner>>
      /\ UNCHANGED redirectVars
    BY DEF RunInternalCommand, RunCommand, ProcessingQueue, callerVars, clusterVars
<1>2. cmd \in HandshakeCommand /\ internalCommands' \in Seq(HandshakeCommand)
    <2>1. internalCommands \in Seq(HandshakeCommand)
        BY DEF InService, NobodyWalks
    <2>2. 1 \in DOMAIN internalCommands /\ cmd = internalCommands[1] /\ internalCommands' \in Seq(HandshakeCommand)
        BY <1>1, <2>1, TailFacts
    <2> QED
        BY <2>1, <2>2, SeqFacts
<1> HIDE DEF cmd
<1>3. cmd \in LoneCommand /\ cmd.kind # "key"
    BY <1>2 DEF LoneCommand, HandshakeCommand
<1>4. /\ runningCommands' \in Seq(LoneCommand)
      /\ \A k \in DOMAIN runningCommands : k \in DOMAIN runningCommands' /\ runningCommands'[k] = runningCommands[k]
      /\ \A k \in DOMAIN runningCommands' : \/ k \in DOMAIN runningCommands /\ runningCommands'[k] = runningCommands[k]
                                            \/ runningCommands'[k] = cmd
    <2>1. runningCommands \in Seq(LoneCommand)
        BY DEF InService, NobodyWalks
    <2>2. /\ runningCommands' \in Seq(LoneCommand) /\ Len(runningCommands) \in Nat
          /\ DOMAIN runningCommands = 1..Len(runningCommands)
          /\ DOMAIN runningCommands' = 1..(Len(runningCommands) + 1)
          /\ \A k \in DOMAIN runningCommands : k \in DOMAIN runningCommands' /\ runningCommands'[k] = runningCommands[k]
          /\ runningCommands'[Len(runningCommands) + 1] = cmd
        BY <1>1, <1>3, <2>1, AppendFacts
    <2>3. \A k \in DOMAIN runningCommands' : k \in DOMAIN runningCommands \/ k = Len(runningCommands) + 1
        BY <2>2
    <2> QED
        BY <2>2, <2>3
<1>5. NobodyWalks'
    BY <1>1, <1>2, <1>4 DEF InService, NobodyWalks, LoneSignal
<1>6. /\ NoKeyRuns => NoKeyRuns'
      /\ KeyRuns(config) => KeyRuns(config)'
      /\ AtHome(config) => AtHome(config)'
    BY <1>1, <1>3, <1>4 DEF NoKeyRuns, KeyRuns, AtHome
<1>7. OneReconnect' /\ redirectTimer = <<>> /\ nested = <<>>
    BY <1>1 DEF InService, OneReconnect, redirectVars
<1>8. Homing'
    BY <1>1, <1>6, <1>7 DEF InService, Homing, redirectVars
<1> QED
    BY <1>1, <1>5, <1>7, <1>8 DEF InService

\* A command for a key runs: the first in the queue when that was redirected.
LEMMA PickedServes ==
    ASSUME LineInvariant, Quiet, InService, RunPickedCommand
    PROVE  session' = session /\ InService'
<1>1. PICK i \in DOMAIN commands : /\ Pick(i) /\ commands' = RemoveAt(commands, i)
                                   /\ RunCommand(commands[i])
    BY DEF RunPickedCommand
<1> DEFINE cmd == commands[i]
<1>2. /\ ~pendingClusterRedirect /\ commands # <<>> /\ clusterSlots # NoSlots /\ runningCommands = <<>>
      /\ runningCommands' = Append(runningCommands, cmd) /\ requests' = Append(requests, cmd)
      /\ UNCHANGED <<session, contexts, inbox, outbox, clusterSlots, internalCommands, config, socket, owner>>
      /\ UNCHANGED redirectVars
    BY <1>1 DEF RunPickedCommand, Choosing, RunCommand, ProcessingQueue, callerVars, clusterVars
<1>3. /\ commands \in Seq(KeyCommand) /\ DOMAIN commands = 1..Len(commands) /\ Len(commands) \in Nat
      /\ 1 \in DOMAIN commands /\ Head(commands) = commands[1]
      /\ \A k \in DOMAIN commands : commands[k] \in KeyCommand
    <2>1. commands \in Seq(KeyCommand)
        BY DEF InService, NobodyWalks
    <2> QED
        BY <1>2, <2>1, SeqFacts, TailFacts
<1>4. clusterSlots = owner
    BY <1>2 DEF InService, NobodyWalks
<1>5. AtHome(config) => i = 1 /\ owner[cmd.slot] = config
    <2> SUFFICES ASSUME AtHome(config) PROVE i = 1 /\ owner[commands[i].slot] = config
        OBVIOUS
    <2>1. owner[commands[1].slot] = config
        BY <1>3 DEF AtHome
    <2>2. ForCurrentNode(commands[1])
        BY <1>4, <2>1 DEF ForCurrentNode
    <2>3. i = 1
        BY <1>1, <1>3, <2>2 DEF Pick
    <2> QED
        BY <2>1, <2>3
<1>6. cmd \in LoneCommand /\ cmd.kind = "key"
    BY <1>3 DEF LoneCommand, KeyCommand
<1>7. commands' \in Seq(KeyCommand)
    <2>1. /\ IsSeq(commands') /\ DOMAIN commands' = 1..(Len(commands) - 1)
          /\ \A k \in DOMAIN commands' :
                 IF k < i THEN k \in DOMAIN commands /\ commands'[k] = commands[k]
                 ELSE k + 1 \in DOMAIN commands /\ commands'[k] = commands[k + 1]
        <3>1. IsSeq(commands)
            BY <1>3 DEF IsSeq
        <3> QED
            BY <1>1, <3>1, IsSeqRemoveAt
    <2>2. \A k \in DOMAIN commands' : commands'[k] \in KeyCommand
        BY <1>3, <2>1
    <2>3. PICK S : commands' \in Seq(S)
        BY <2>1 DEF IsSeq
    <2>4. Len(commands') \in Nat /\ commands' \in [1..Len(commands') -> S] /\ DOMAIN commands' = 1..Len(commands')
        BY <2>3, LenProperties
    <2>5. commands' \in [1..Len(commands') -> KeyCommand]
        BY <2>2, <2>4
    <2> QED
        BY <2>4, <2>5, IsASeq
<1> HIDE DEF cmd
<1>8. runningCommands' \in Seq(LoneCommand) /\ DOMAIN runningCommands' = {1} /\ runningCommands'[1] = cmd
    <2>1. runningCommands \in Seq(LoneCommand) /\ Len(runningCommands) = 0
        BY <1>2, EmptySeq DEF InService, NobodyWalks
    <2>2. /\ runningCommands' \in Seq(LoneCommand)
          /\ DOMAIN runningCommands' = 1..(0 + 1) /\ runningCommands'[0 + 1] = cmd
        BY <1>2, <1>6, <2>1, AppendFacts
    <2> QED
        BY <2>2
<1>9. NobodyWalks'
    BY <1>2, <1>7, <1>8 DEF InService, NobodyWalks, LoneSignal
<1>10. OneReconnect' /\ redirectTimer = <<>> /\ nested = <<>>
    BY <1>2 DEF InService, OneReconnect, redirectVars
<1>11. ~KeyRuns(config)
    <2>1. DOMAIN <<>> = {}
        <3>1. <<>> \in Seq({}) /\ Len(<<>>) = 0
            OBVIOUS
        <3> QED
            BY <3>1, SeqFacts
    <2> QED
        BY <1>2, <2>1 DEF KeyRuns
<1>12. AtHome(config) => KeyRuns(config)'
    BY <1>2, <1>5, <1>6, <1>8 DEF KeyRuns
<1>13. Homing'
    BY <1>2, <1>10, <1>11, <1>12 DEF InService, Homing, redirectVars
<1> QED
    BY <1>2, <1>9, <1>10, <1>13 DEF InService

\* A node is chosen only when nothing in the queue is for the current one.
LEMMA ChoiceServes ==
    ASSUME LineInvariant, Quiet, InService, QueueIsEmpty \/ PickClusterNode
    PROVE  session' = session /\ InService'
<1>1. UNCHANGED <<session, contexts, inbox, outbox, clusterSlots, commands, internalCommands,
                  runningCommands, requests, config, socket, owner, followedClusterRedirects, nested>>
    BY DEF QueueIsEmpty, PickClusterNode, callerVars, queueVars, netVars, clusterVars, redirectVars
<1>2. NobodyWalks'
    BY <1>1 DEF InService, NobodyWalks, LoneSignal
<1>3. CASE QueueIsEmpty
    <2>1. UNCHANGED redirectVars
        BY <1>3 DEF QueueIsEmpty
    <2>2. OneReconnect'
        BY <1>1, <2>1 DEF InService, OneReconnect, redirectVars, NoKeyRuns
    <2>3. Homing'
        BY <1>1, <2>1 DEF InService, Homing, redirectVars, NoKeyRuns, KeyRuns, AtHome
    <2> QED
        BY <1>1, <1>2, <2>2, <2>3 DEF InService
<1>4. CASE PickClusterNode
    <2> DEFINE t == [node |-> clusterSlots[Head(commands).slot], reason |-> "pick"]
    <2>1. /\ ~pendingClusterRedirect /\ commands # <<>> /\ clusterSlots # NoSlots /\ runningCommands = <<>>
          /\ \A k \in DOMAIN commands : ~ForCurrentNode(commands[k])
          /\ pendingClusterRedirect' = TRUE /\ redirectTimer' = <<t>>
        BY <1>4 DEF PickClusterNode, Choosing, ProcessingQueue
    <2>2. clusterSlots = owner /\ owner \in Topology
        BY <2>1 DEF InService, NobodyWalks
    <2>3. 1 \in DOMAIN commands /\ Head(commands) = commands[1] /\ commands[1] \in KeyCommand
        <3>1. commands \in Seq(KeyCommand)
            BY DEF InService, NobodyWalks
        <3> QED
            BY <2>1, <3>1, SeqFacts, TailFacts
    <2>4. t \in [node : Nodes, reason : {"redirect", "pick"}] /\ t.reason = "pick"
        BY <2>2, <2>3 DEF Topology, KeyCommand
    <2> HIDE DEF t
    <2>5. ~AtHome(config)
        <3>1. ~ForCurrentNode(commands[1])
            BY <2>1, <2>3
        <3> QED
            BY <2>2, <2>3, <3>1 DEF ForCurrentNode, AtHome
    <2>6. DOMAIN <<>> = {}
        <3>1. <<>> \in Seq({}) /\ Len(<<>>) = 0
            OBVIOUS
        <3> QED
            BY <3>1, SeqFacts
    <2>7. ~KeyRuns(config) /\ NoKeyRuns'
        BY <1>1, <2>1, <2>6 DEF KeyRuns, NoKeyRuns
    <2>8. OneReconnect' /\ nested' = <<>>
        BY <1>1, <2>1, <2>4, <2>7 DEF InService, OneReconnect
    <2>9. followedClusterRedirects = 0 /\ Head(redirectTimer') = t
        BY <2>1, <2>5, <2>7 DEF InService, Homing
    <2>10. Homing'
        BY <1>1, <2>4, <2>8, <2>9 DEF Homing
    <2> QED
        BY <1>1, <1>2, <2>8, <2>10 DEF InService
<1> QED
    BY <1>3, <1>4

\* The command whose reply is read: a key command is redirected when another node has
\* its slot, to that node, and nothing else is.
LEMMA ReplyInService ==
    ASSUME LineInvariant, Quiet, InService, ReadReply
    PROVE  /\ 1 \in DOMAIN runningCommands /\ Head(runningCommands) = runningCommands[1]
           /\ Head(requests) = Head(runningCommands) /\ Head(runningCommands) \in LoneCommand
           /\ requests' = runningCommands' /\ runningCommands' \in Seq(LoneCommand)
           /\ \A k \in DOMAIN runningCommands' :
                  k + 1 \in DOMAIN runningCommands /\ k + 1 # 1
                  /\ runningCommands'[k] = runningCommands[k + 1]
           /\ \A k \in DOMAIN runningCommands : k # 1 => k - 1 \in DOMAIN runningCommands' /\ (k - 1) + 1 = k
           /\ Redirect(Answer(Head(requests))) =>
                  /\ Head(requests) \in KeyCommand /\ owner[Head(requests).slot] # config
                  /\ Answer(Head(requests)).node = owner[Head(requests).slot]
           /\ Head(requests).kind = "ping" =>
                  Answer(Head(requests)) \in [type : {"pong"}, node : Nodes]
           /\ Head(requests).kind = "info" =>
                  Answer(Head(requests)) \in [type : {"info"}, node : Nodes]
           /\ Head(requests).kind = "slots" =>
                  Answer(Head(requests)) \in [type : {"slots"}, node : Nodes, slots : {owner}]
<1> DEFINE cmd == Head(requests)
<1>1. /\ requests = runningCommands /\ runningCommands \in Seq(LoneCommand) /\ runningCommands # <<>>
      /\ requests' = Tail(runningCommands) /\ runningCommands' = Tail(runningCommands)
    BY DEF ReadReply, InService, NobodyWalks, OneReconnect
<1>2. /\ 1 \in DOMAIN runningCommands /\ Head(runningCommands) = runningCommands[1]
      /\ runningCommands' \in Seq(LoneCommand) /\ Len(runningCommands) \in Nat
      /\ DOMAIN runningCommands = 1..Len(runningCommands)
      /\ DOMAIN runningCommands' = 1..(Len(runningCommands) - 1)
      /\ \A k \in DOMAIN runningCommands' :
             k + 1 \in DOMAIN runningCommands /\ runningCommands'[k] = runningCommands[k + 1]
      /\ \A k \in DOMAIN runningCommands : k # 1 => k - 1 \in DOMAIN runningCommands'
    BY <1>1, TailFacts, SeqFacts
<1>3. /\ \A k \in DOMAIN runningCommands' : k + 1 # 1
      /\ \A k \in DOMAIN runningCommands : (k - 1) + 1 = k
    BY <1>2
<1>4. cmd \in LoneCommand /\ cmd = runningCommands[1]
    BY <1>1, <1>2, SeqFacts
<1>5. cmd.kind = "key" => cmd \in KeyCommand /\ cmd.slot \notin DOMAIN Importing
    <2> SUFFICES ASSUME cmd.kind = "key" PROVE cmd \in KeyCommand /\ cmd.slot \notin DOMAIN Importing
        OBVIOUS
    <2>1. cmd \in KeyCommand
        BY <1>4 DEF LoneCommand, HandshakeCommand
    <2>2. cmd.id \in DOMAIN submitted /\ cmd.slot = submitted[cmd.id]
        BY <1>2, <1>4 DEF LineInvariant, RunningInLine, Fresh, Genuine
    <2>3. cmd.slot \in Range(submitted)
        BY <2>2 DEF Range
    <2> QED
        BY <2>1, <2>3 DEF Quiet
<1> HIDE DEF cmd
<1>6. cmd.kind \in {"key", "ping", "info", "slots"}
    BY <1>4 DEF LoneCommand, KeyCommand, HandshakeCommand
<1>7. /\ cmd.kind = "ping" => Answer(cmd) = [type |-> "pong", node |-> config]
      /\ cmd.kind = "info" => Answer(cmd) = [type |-> "info", node |-> config]
    BY DEF Answer
<1>8. cmd.kind = "slots" => Answer(cmd) = [type |-> "slots", node |-> config, slots |-> owner]
    BY DEF Answer
<1>9. cmd.kind = "key" =>
          Answer(cmd) = IF owner[cmd.slot] # config THEN [type |-> "moved", node |-> owner[cmd.slot]]
                        ELSE [type |-> "value", node |-> config]
    BY <1>5 DEF Answer
<1>10. Redirect(Answer(cmd)) =>
           cmd \in KeyCommand /\ owner[cmd.slot] # config /\ Answer(cmd).node = owner[cmd.slot]
    BY <1>5, <1>6, <1>7, <1>8, <1>9 DEF Redirect
<1>11. config \in Nodes
    BY DEF InService, NobodyWalks
<1> QED
    BY <1>1, <1>2, <1>3, <1>4, <1>7, <1>8, <1>10, <1>11 DEF cmd

\* A redirect is followed once at most, and the session is not given up.
LEMMA RedirectServes ==
    ASSUME LineInvariant, Quiet, InService, ReadReply, Redirect(Answer(Head(requests)))
    PROVE  /\ ~pendingClusterRedirect /\ followedClusterRedirects = 0
           /\ \A k \in DOMAIN runningCommands' : runningCommands'[k].kind # "key"
<1>1. /\ 1 \in DOMAIN runningCommands /\ Head(requests) = runningCommands[1]
      /\ Head(requests).kind = "key" /\ owner[Head(requests).slot] # config
      /\ \A k \in DOMAIN runningCommands' :
             k + 1 \in DOMAIN runningCommands /\ k + 1 # 1 /\ runningCommands'[k] = runningCommands[k + 1]
    BY ReplyInService DEF KeyCommand
<1>2. \A k \in DOMAIN runningCommands : runningCommands[k].kind = "key" => k = 1
    BY <1>1 DEF LineInvariant, OneKeyRuns
<1>3. ~NoKeyRuns /\ ~KeyRuns(config)
    BY <1>1, <1>2 DEF NoKeyRuns, KeyRuns
<1>4. ~pendingClusterRedirect
    BY <1>3 DEF InService, OneReconnect
<1>5. followedClusterRedirects = 0
    BY <1>3 DEF InService, Homing, AtHome
<1> QED
    BY <1>1, <1>2, <1>4, <1>5

LEMMA FollowServes ==
    ASSUME LineInvariant, Quiet, InService, FollowRedirect
    PROVE  session' = session /\ InService'
<1> DEFINE cmd == Head(requests)
           t == [node |-> owner[cmd.slot], reason |-> "redirect"]
<1>1. ReadReply /\ Redirect(Answer(cmd))
    BY DEF FollowRedirect
<1>2. /\ Head(runningCommands) = cmd /\ cmd \in KeyCommand /\ Answer(cmd).node = owner[cmd.slot]
      /\ requests' = runningCommands' /\ runningCommands' \in Seq(LoneCommand)
    BY <1>1, ReplyInService
<1>3. ~pendingClusterRedirect /\ followedClusterRedirects = 0 /\ NoKeyRuns'
    BY <1>1, RedirectServes DEF NoKeyRuns
<1>4. /\ commands' = <<cmd>> \o commands /\ pendingClusterRedirect' = TRUE /\ redirectTimer' = <<t>>
      /\ clusterSlots' = NoSlots
      /\ UNCHANGED <<session, contexts, inbox, outbox, internalCommands, followedClusterRedirects, nested,
                     config, socket, owner>>
    BY <1>2, <1>3 DEF FollowRedirect, clusterVars
<1>5. t \in [node : Nodes, reason : {"redirect", "pick"}] /\ t.reason = "redirect" /\ t.node = owner[cmd.slot]
    <2>1. owner \in [Slots -> Nodes] /\ cmd.slot \in Slots
        BY <1>2 DEF InService, NobodyWalks, Topology, KeyCommand
    <2> QED
        BY <2>1
<1> HIDE DEF cmd, t
<1>6. commands' \in Seq(KeyCommand) /\ commands' # <<>> /\ Head(commands') = cmd
    <2>1. commands \in Seq(KeyCommand)
        BY DEF InService, NobodyWalks
    <2>2. <<cmd>> \in Seq(KeyCommand) /\ Len(<<cmd>>) = 1 /\ <<cmd>>[1] = cmd
        BY <1>2
    <2>3. 1 \in DOMAIN <<cmd>>
        BY <2>2, SeqFacts
    <2>4. /\ commands' \in Seq(KeyCommand) /\ 1 \in DOMAIN commands' /\ commands'[1] = cmd
          /\ Len(commands') = 1 + Len(commands) /\ Len(commands) \in Nat
        BY <1>4, <2>1, <2>2, <2>3, ConcatFacts, SeqFacts
    <2>5. commands' # <<>>
        BY <2>4, EmptySeq
    <2>6. Head(commands') = commands'[1]
        BY <2>4, <2>5, TailFacts
    <2> QED
        BY <2>4, <2>5, <2>6
<1>7. NobodyWalks'
    BY <1>2, <1>4, <1>6 DEF InService, NobodyWalks, LoneSignal
<1>8. nested = <<>>
    BY <1>3 DEF InService, OneReconnect
<1>9. OneReconnect'
    BY <1>2, <1>3, <1>4, <1>5, <1>8 DEF InService, OneReconnect
<1>10. Homing'
    <2>1. Head(redirectTimer') = t
        BY <1>4
    <2>2. owner'[Head(commands').slot] = Head(redirectTimer').node
        BY <1>4, <1>5, <1>6, <2>1
    <2> QED
        BY <1>3, <1>4, <1>6, <1>8, <2>2 DEF Homing, AtHome
<1> QED
    BY <1>4, <1>7, <1>9, <1>10 DEF InService

LEMMA CompleteServes ==
    ASSUME LineInvariant, Quiet, InService, CompleteCommand
    PROVE  session' = session /\ InService'
<1> DEFINE cmd == Head(requests)
<1>1. /\ ReadReply /\ ~Redirect(Answer(cmd))
      /\ UNCHANGED <<session, contexts, inbox, clusterSlots, commands, internalCommands,
                     pendingClusterRedirect, redirectTimer, nested, config, socket, owner>>
    BY DEF CompleteCommand, callerVars, clusterVars
<1>2. /\ Head(runningCommands) = cmd /\ cmd = runningCommands[1] /\ 1 \in DOMAIN runningCommands
      /\ cmd \in LoneCommand /\ requests' = runningCommands' /\ runningCommands' \in Seq(LoneCommand)
      /\ \A k \in DOMAIN runningCommands' :
             k + 1 \in DOMAIN runningCommands /\ k + 1 # 1 /\ runningCommands'[k] = runningCommands[k + 1]
      /\ \A k \in DOMAIN runningCommands : k # 1 => k - 1 \in DOMAIN runningCommands' /\ (k - 1) + 1 = k
      /\ cmd.kind = "ping" => Answer(cmd) \in [type : {"pong"}, node : Nodes]
      /\ cmd.kind = "info" => Answer(cmd) \in [type : {"info"}, node : Nodes]
      /\ cmd.kind = "slots" => Answer(cmd) \in [type : {"slots"}, node : Nodes, slots : {owner}]
    BY <1>1, ReplyInService
<1>3. \/ cmd.kind = "key" /\ followedClusterRedirects' = 0 /\ outbox' = outbox
      \/ /\ cmd.kind # "key" /\ followedClusterRedirects' = followedClusterRedirects
         /\ outbox' = Append(outbox, [type |-> "reply", cmd |-> cmd, reply |-> Answer(cmd)])
    BY <1>2 DEF CompleteCommand, ResetCounter
<1>4. cmd.kind # "key" => [type |-> "reply", cmd |-> cmd, reply |-> Answer(cmd)] \in LoneSignal
    <2> SUFFICES ASSUME cmd.kind # "key"
                 PROVE  [type |-> "reply", cmd |-> cmd, reply |-> Answer(cmd)] \in LoneSignal
        OBVIOUS
    <2> HIDE DEF cmd
    <2>1. cmd \in HandshakeCommand
        BY <1>2 DEF LoneCommand, KeyCommand
    <2>2. CASE cmd.kind = "ping"
        <3>1. cmd \in [kind : {"ping"}] /\ Answer(cmd) \in [type : {"pong"}, node : Nodes]
            BY <1>2, <2>1, <2>2 DEF HandshakeCommand
        <3> QED
            BY <3>1 DEF LoneSignal
    <2>3. CASE cmd.kind = "info"
        <3>1. cmd \in [kind : {"info"}] /\ Answer(cmd) \in [type : {"info"}, node : Nodes]
            BY <1>2, <2>1, <2>3 DEF HandshakeCommand
        <3> QED
            BY <3>1 DEF LoneSignal
    <2>4. CASE cmd.kind = "slots"
        <3>1. /\ cmd \in [kind : {"slots"}]
              /\ Answer(cmd) \in [type : {"slots"}, node : Nodes, slots : {owner}]
            BY <1>2, <2>1, <2>4 DEF HandshakeCommand
        <3> QED
            BY <3>1 DEF LoneSignal
    <2> QED
        BY <2>1, <2>2, <2>3, <2>4 DEF HandshakeCommand
<1> HIDE DEF cmd
<1>5. outbox' \in Seq(LoneSignal)
    <2>1. outbox \in Seq(LoneSignal)
        BY DEF InService, NobodyWalks
    <2> DEFINE signal == [type |-> "reply", cmd |-> cmd, reply |-> Answer(cmd)]
    <2>2. cmd.kind # "key" => signal \in LoneSignal
        BY <1>4
    <2>3. outbox' = outbox \/ (cmd.kind # "key" /\ outbox' = Append(outbox, signal))
        BY <1>3
    <2> HIDE DEF signal
    <2>4. cmd.kind # "key" => Append(outbox, signal) \in Seq(LoneSignal)
        BY <2>1, <2>2, AppendFacts
    <2> QED
        BY <2>1, <2>3, <2>4
<1>6. NobodyWalks'
    BY <1>1, <1>2, <1>5 DEF InService, NobodyWalks, LoneSignal
<1>7. NoKeyRuns => NoKeyRuns'
    BY <1>2 DEF NoKeyRuns
<1>8. runningCommands # <<>> /\ nested = <<>>
    <2>1. runningCommands # <<>>
        BY <1>1 DEF ReadReply, InService, OneReconnect
    <2> QED
        BY <2>1 DEF InService, OneReconnect
<1>9. OneReconnect'
    BY <1>1, <1>2, <1>7, <1>8 DEF InService, OneReconnect
<1>10. AtHome(config) => AtHome(config)'
    BY <1>1, <1>7 DEF AtHome
<1>11. cmd.kind # "key" => (KeyRuns(config) => KeyRuns(config)')
    BY <1>1, <1>2 DEF KeyRuns
<1>12. redirectTimer # <<>> /\ Head(redirectTimer).reason = "redirect" =>
           AtHome(Head(redirectTimer).node)' /\ followedClusterRedirects' = 0
    BY <1>1, <1>3, <1>7 DEF InService, Homing, AtHome
<1>13. Homing'
    BY <1>1, <1>3, <1>8, <1>10, <1>11, <1>12 DEF InService, Homing
<1> QED
    BY <1>1, <1>6, <1>9, <1>13 DEF InService

\* MAX_CLUSTER_REDIRECTS is 5: one redirect is enough.
LEMMA ServesStep ==
    ASSUME MaxRedirects >= 1
    PROVE  LineInvariant /\ Serves /\ [Next]_vars => Serves'
<1> SUFFICES ASSUME LineInvariant, Serves, [Next]_vars PROVE Serves'
    OBVIOUS
<1>1. CASE UNCHANGED vars
    <2>1. WalksAreRecords'
        BY <1>1 DEF vars, historyVars, Serves, WalksAreRecords
    <2>2. Quiet' = Quiet
        BY <1>1 DEF vars, callerVars, historyVars, clusterVars, Quiet
    <2>3. InService => InService'
        <3>1. NobodyWalks => NobodyWalks'
            BY <1>1 DEF vars, callerVars, queueVars, netVars, clusterVars, NobodyWalks, LoneSignal
        <3>2. OneReconnect => OneReconnect'
            BY <1>1 DEF vars, queueVars, redirectVars, netVars, OneReconnect, NoKeyRuns
        <3>3. Homing => Homing'
            BY <1>1 DEF vars, queueVars, redirectVars, netVars, clusterVars, Homing, AtHome, NoKeyRuns, KeyRuns
        <3> QED
            BY <3>1, <3>2, <3>3 DEF InService
    <2> QED
        BY <1>1, <2>1, <2>2, <2>3 DEF vars, Serves
<1>2. CASE Next
    <2>1. session = "up" /\ WalksAreRecords' /\ (Quiet' => Quiet)
        BY <1>2, QuietBefore DEF Next, Serves
    <2>2. SUFFICES ASSUME Quiet' PROVE session' # "aborted" /\ (session' = "up" => InService')
        BY <2>1 DEF Serves
    <2>3. Quiet /\ InService
        BY <2>1, <2>2 DEF Serves
    <2>4. ~(\/ \E w \in Walks : StartWalk(w)
            \/ \E slot \in Slots, node \in Nodes : MoveSlot(slot, node))
        BY <2>2, QuietEnds DEF Serves
    <2>5. CASE \E slot \in Slots : Submit(slot)
        BY <2>1, <2>3, <2>5, SubmitServes
    <2>6. CASE ReceiveSignal
        BY <2>1, <2>3, <2>6, ReceiveServes
    <2>7. CASE InboxNext
        BY <2>1, <2>3, <2>7, InboxServes
    <2>8. CASE RedirectTimer
        BY <2>1, <2>3, <2>8, TimerServes
    <2>9. CASE ConnectSucceeds
        BY <2>1, <2>3, <2>9, ConnectServes
    <2>10. CASE QueueNext
        BY <2>1, <2>3, <2>10, ChoiceServes, InternalServes, PickedServes DEF QueueNext
    <2>11. ~AbortRedirects
        <3>1. MaxRedirects \in Nat
            BY BoundsAssumption
        <3> QED
            BY <2>3, <3>1, RedirectServes DEF AbortRedirects, Exhausted
    <2>12. CASE FollowRedirect \/ CompleteCommand
        BY <2>1, <2>3, <2>12, FollowServes, CompleteServes
    <2> QED
        BY <1>2, <2>4, <2>5, <2>6, <2>7, <2>8, <2>9, <2>10, <2>11, <2>12 DEF Next, CallerNext, ReplyNext
<1> QED
    BY <1>1, <1>2

\* While the slots stay where they are, nobody asks for a key of one in migration and
\* nobody walks over the nodes, the session is not given up for redirects
\* (processClusterRedirect), for whatever nodes, ports, slots and commands, provided that
\* one redirect is allowed: a redirected command is the first in the queue, no other runs
\* before it has reached its node, and its reply resets the counter.
THEOREM StableClusterIsServed == ASSUME MaxRedirects >= 1 PROVE Spec => []StableClusterServes
<1>1. Serves => StableClusterServes
    BY DEF Serves, Quiet, StableClusterServes
<1>2. LineInvariant /\ Serves /\ [Next]_vars => Serves'
    BY ServesStep
<1> QED
    BY InitLine, LineStep, InitServes, <1>1, <1>2, PTL DEF Spec

-----------------------------------------------------------------------------
(* A walk that has the connection to itself. *)

\* The nodes in whatever order.
LEMMA HostsAreMasters ==
    ASSUME NEW S, IsFiniteSet(S), NEW hosts \in SetToSeqs(S)
    PROVE  IsSeq(hosts) /\ Range(hosts) = S /\ Len(hosts) = Cardinality(S)
<1> DEFINE n == Cardinality(S)
<1>1. n \in Nat /\ IsFiniteSet(1..n) /\ Cardinality(1..n) = n
    BY FS_CardinalityType, FS_Interval
<1>2. hosts \in [1..n -> S] /\ \A i, j \in 1..n : i # j => hosts[i] # hosts[j]
    BY DEF SetToSeqs
<1>3. hosts \in Injection(1..n, S)
    BY <1>2 DEF Injection, IsInjective
<1>4. hosts \in Surjection(1..n, S)
    BY <1>1, <1>3, FS_Injection
<1>5. Range(hosts) = S
    BY <1>2, <1>4 DEF Surjection, Range
<1>6. hosts \in Seq(S)
    BY <1>1, <1>2, IsASeq
<1>7. Len(hosts) = n
    BY <1>1, <1>2, <1>6, LenProperties
<1> QED
    BY <1>5, <1>6, <1>7 DEF IsSeq

Shape ==
    /\ IsSeq(outbox) /\ IsSeq(nested) /\ contextCount \in Nat
    /\ DOMAIN walk = Walks
    /\ \A w \in Walks : /\ DOMAIN walk[w] = {"masters", "visited", "calls", "started", "alone"}
                        /\ walk[w].calls \in Nat

\* What a step of others leaves of a walk.
SameWalk(w) ==
    /\ walk'[w].visited = walk[w].visited /\ walk'[w].masters = walk[w].masters
    /\ walk'[w].calls = walk[w].calls /\ walk'[w].started = walk[w].started
    /\ walk'[w].alone => walk[w].alone

LEMMA DisturbedWalks ==
    ASSUME Shape, NEW W, walk' = Disturbed(W)
    PROVE  /\ DOMAIN walk' = Walks
           /\ \A w \in Walks : /\ DOMAIN walk'[w] = {"masters", "visited", "calls", "started", "alone"}
                               /\ SameWalk(w)
                               /\ Active(w) /\ w \notin W => ~walk'[w].alone
<1> SUFFICES ASSUME NEW w \in Walks
             PROVE  /\ DOMAIN walk' = Walks
                    /\ DOMAIN walk'[w] = {"masters", "visited", "calls", "started", "alone"}
                    /\ SameWalk(w)
                    /\ Active(w) /\ w \notin W => ~walk'[w].alone
    BY DEF Disturbed
<1>1. DOMAIN walk[w] = {"masters", "visited", "calls", "started", "alone"}
    BY DEF Shape
<1>2. walk'[w] = IF w \in W THEN walk[w] ELSE [walk[w] EXCEPT !.alone = @ /\ ~Active(w)]
    BY DEF Disturbed
<1>3. CASE w \in W
    BY <1>1, <1>2, <1>3 DEF Disturbed, SameWalk
<1>4. CASE w \notin W
    <2>1. walk'[w] = [walk[w] EXCEPT !["alone"] = walk[w].alone /\ ~Active(w)]
        BY <1>2, <1>4
    <2>2. /\ DOMAIN walk'[w] = DOMAIN walk[w]
          /\ walk'[w].visited = walk[w].visited /\ walk'[w].masters = walk[w].masters
          /\ walk'[w].calls = walk[w].calls /\ walk'[w].started = walk[w].started
          /\ walk'[w].alone = (walk[w].alone /\ ~Active(w))
        BY <1>1, <2>1
    <2> QED
        BY <1>1, <2>2 DEF Disturbed, SameWalk
<1> QED
    BY <1>3, <1>4

LEMMA TypesShape ==
    ASSUME TypeOK
    PROVE  Shape
BY DEF TypeOK, Shape, IsSeq

-----------------------------------------------------------------------------

Foreign(cmd, w) == cmd.kind \in {"visit", "masters"} => cmd.walk # w
NothingOf(w) ==
    /\ \A c \in Range(contexts) : c.walk # w
    /\ \A call \in Range(inbox) : call.type = "add" => Foreign(call.cmd, w)
    /\ \A cmd \in Range(commands) : Foreign(cmd, w)
    /\ \A cmd \in Range(internalCommands) : Foreign(cmd, w)
    /\ \A cmd \in Range(runningCommands) : Foreign(cmd, w)
    /\ \A signal \in Range(outbox) : signal.type = "reply" => Foreign(signal.cmd, w)

LEMMA ReadsCommand ==
    ASSUME LineInvariant, ReadReply
    PROVE  runningCommands # <<>>
<1>1. 1 \in DOMAIN runningCommands
    BY ReadsLine
<1>2. Len(runningCommands) # 0
    BY <1>1, LineSeqs
<1> QED
    BY <1>2, RangeEmpty

\* What goes from one queue to the other.
LEMMA QueuesKeepNothing ==
    ASSUME LineInvariant, Shape, NEW w, NothingOf(w),
           InboxNext \/ RedirectTimer \/ QueueNext \/ AbortRedirects \/ FollowRedirect
    PROVE  NothingOf(w)'
<1>1. /\ IsSeq(inbox) /\ IsSeq(commands) /\ IsSeq(internalCommands) /\ IsSeq(runningCommands)
      /\ Range(<<>>) = {}
    BY RangeEmpty DEF LineInvariant, Sequences
<1>2. CASE AddCommands
    <2> DEFINE cmd == Head(inbox).cmd
    <2>1. /\ inbox # <<>> /\ inbox' = Tail(inbox) /\ Head(inbox).type = "add"
          /\ commands' = commands \/ commands' = Append(commands, cmd)
          /\ internalCommands' = internalCommands \/ internalCommands' = Append(internalCommands, cmd)
          /\ UNCHANGED <<contexts, runningCommands, outbox>>
        BY <1>2 DEF AddCommands, Receive, callerVars
    <2>2. Range(inbox') \subseteq Range(inbox) /\ Foreign(cmd, w)
        BY <1>1, <2>1, RangeTail DEF NothingOf
    <2> HIDE DEF cmd
    <2>3. /\ Range(Append(commands, cmd)) = Range(commands) \union {cmd}
          /\ Range(Append(internalCommands, cmd)) = Range(internalCommands) \union {cmd}
        BY <1>1, RangeAppend
    <2>4. /\ Range(commands') \subseteq Range(commands) \union {cmd}
          /\ Range(internalCommands') \subseteq Range(internalCommands) \union {cmd}
        BY <2>1, <2>3
    <2> QED
        BY <2>1, <2>2, <2>4 DEF NothingOf
<1>3. CASE AuthOk
    <2>1. /\ inbox # <<>> /\ inbox' = Tail(inbox)
          /\ UNCHANGED <<contexts, commands, internalCommands, runningCommands, outbox>>
        BY <1>3 DEF AuthOk, Receive, callerVars, queueVars
    <2>2. Range(inbox') \subseteq Range(inbox)
        BY <1>1, <2>1, RangeTail
    <2> QED
        BY <2>1, <2>2 DEF NothingOf
<1>4. CASE WalkReconnects \/ RedirectTimer
    <2>1. /\ inbox' = inbox \/ (inbox # <<>> /\ inbox' = Tail(inbox))
          /\ runningCommands' = runningCommands \/ runningCommands' = <<>>
          /\ UNCHANGED <<contexts, commands, internalCommands, outbox>>
        BY <1>4 DEF WalkReconnects, RedirectTimer, ReconnectTo, Receive, callerVars
    <2>2. Range(inbox') \subseteq Range(inbox) /\ Range(runningCommands') \subseteq Range(runningCommands)
        BY <1>1, <2>1, RangeTail
    <2> QED
        BY <2>1, <2>2 DEF NothingOf
<1>5. CASE QueueIsEmpty \/ PickClusterNode
    BY <1>5 DEF QueueIsEmpty, PickClusterNode, callerVars, queueVars, NothingOf
<1>6. CASE RunInternalCommand
    <2> DEFINE cmd == Head(internalCommands)
    <2>1. /\ internalCommands # <<>> /\ internalCommands' = Tail(internalCommands)
          /\ runningCommands' = Append(runningCommands, cmd)
          /\ UNCHANGED <<contexts, inbox, commands, outbox>>
        BY <1>6 DEF RunInternalCommand, RunCommand, callerVars
    <2>2. Range(internalCommands') \subseteq Range(internalCommands) /\ cmd \in Range(internalCommands)
        BY <1>1, <2>1, RangeTail
    <2> HIDE DEF cmd
    <2>3. Range(runningCommands') = Range(runningCommands) \union {cmd}
        BY <1>1, <2>1, RangeAppend
    <2> QED
        BY <2>1, <2>2, <2>3 DEF NothingOf
<1>7. CASE RunPickedCommand
    <2>1. PICK k \in DOMAIN commands : commands' = RemoveAt(commands, k) /\ RunCommand(commands[k])
        BY <1>7 DEF RunPickedCommand
    <2> DEFINE cmd == commands[k]
    <2>2. /\ runningCommands' = Append(runningCommands, cmd)
          /\ UNCHANGED <<contexts, inbox, internalCommands, outbox>>
        BY <1>7, <2>1 DEF RunPickedCommand, RunCommand, callerVars
    <2>3. Range(commands') \subseteq Range(commands) /\ cmd \in Range(commands)
        BY <1>1, <2>1, RangeRemoveAt
    <2> HIDE DEF cmd
    <2>4. Range(runningCommands') = Range(runningCommands) \union {cmd}
        BY <1>1, <2>2, RangeAppend
    <2> QED
        BY <2>2, <2>3, <2>4 DEF NothingOf
<1>8. CASE AbortRedirects \/ FollowRedirect
    <2> DEFINE cmd == Head(runningCommands)
    <2>1. /\ ReadReply
          /\ commands' = commands \/ commands' = <<cmd>> \o commands
          /\ UNCHANGED <<contexts, inbox, internalCommands, outbox>>
        BY <1>8 DEF AbortRedirects, FollowRedirect, callerVars
    <2>2. runningCommands # <<>> /\ runningCommands' = Tail(runningCommands)
        BY <2>1, ReadsCommand DEF ReadReply
    <2>3. Range(runningCommands') \subseteq Range(runningCommands) /\ cmd \in Range(runningCommands)
        BY <1>1, <2>2, RangeTail
    <2> HIDE DEF cmd
    <2>4. Range(<<cmd>> \o commands) = {cmd} \union Range(commands)
        BY <1>1, RangeOne, RangeConcat
    <2>5. Range(commands') \subseteq {cmd} \union Range(commands)
        BY <2>1, <2>4
    <2> QED
        BY <2>1, <2>3, <2>5 DEF NothingOf
<1> QED
    BY <1>2, <1>3, <1>4, <1>5, <1>6, <1>7, <1>8 DEF InboxNext, QueueNext

\* The calls and signals of others.
LEMMA OthersKeepNothing ==
    ASSUME LineInvariant, Shape, NEW w \in Walks, NothingOf(w),
           \/ \E slot \in Slots : Submit(slot)
           \/ \E v \in Walks : v # w /\ StartWalk(v)
           \/ ConnectSucceeds \/ CompleteCommand
           \/ \E slot \in Slots, node \in Nodes : MoveSlot(slot, node)
    PROVE  NothingOf(w)'
<1>1. IsSeq(inbox) /\ IsSeq(outbox) /\ IsSeq(runningCommands) /\ IsSeq(nested)
    BY DEF LineInvariant, Sequences, Shape
<1>2. CASE \E slot \in Slots : Submit(slot)
    <2>1. PICK slot \in Slots : Submit(slot)
        BY <1>2
    <2> DEFINE call == Add([kind |-> "key", id |-> Len(submitted) + 1, slot |-> slot])
    <2>2. /\ inbox' = Append(inbox, call)
          /\ UNCHANGED <<contexts, commands, internalCommands, runningCommands, outbox>>
        BY <2>1 DEF Submit, queueVars
    <2>3. Foreign(call.cmd, w)
        BY DEF Add, Foreign
    <2> HIDE DEF call
    <2>4. Range(inbox') = Range(inbox) \union {call}
        BY <1>1, <2>2, RangeAppend
    <2> QED
        BY <2>2, <2>3, <2>4 DEF NothingOf
<1>3. CASE \E v \in Walks : v # w /\ StartWalk(v)
    <2>1. PICK v \in Walks : v # w /\ StartWalk(v)
        BY <1>3
    <2> DEFINE call == Add([kind |-> "masters", walk |-> v])
    <2>2. /\ inbox' = Append(inbox, call)
          /\ UNCHANGED <<contexts, commands, internalCommands, runningCommands, outbox>>
        BY <2>1 DEF StartWalk, queueVars, callerVars
    <2>3. Foreign(call.cmd, w)
        BY <2>1 DEF Add, Foreign
    <2> HIDE DEF call
    <2>4. Range(inbox') = Range(inbox) \union {call}
        BY <1>1, <2>2, RangeAppend
    <2> QED
        BY <2>2, <2>3, <2>4 DEF NothingOf
<1>4. CASE ConnectSucceeds
    <2> DEFINE emitted == [k \in DOMAIN nested |-> [type |-> "connected"]]
    <2>1. /\ outbox' = outbox \o emitted
          /\ UNCHANGED <<contexts, inbox, commands, internalCommands, runningCommands>>
        BY <1>4 DEF ConnectSucceeds, callerVars, queueVars
    <2>2. IsSeq(emitted) /\ \A signal \in Range(emitted) : signal.type # "reply"
        <3>1. Len(nested) \in Nat /\ DOMAIN nested = 1..Len(nested)
            BY <1>1, IsSeqFacts
        <3>2. emitted \in Seq({[type |-> "connected"]})
            BY <3>1
        <3>3. \A signal \in Range(emitted) : signal.type # "reply"
            BY DEF Range
        <3> QED
            BY <3>2, <3>3 DEF IsSeq
    <2> HIDE DEF emitted
    <2>3. Range(outbox') = Range(outbox) \union Range(emitted)
        BY <1>1, <2>1, <2>2, RangeConcat
    <2> QED
        BY <2>1, <2>2, <2>3 DEF NothingOf
<1>5. CASE CompleteCommand
    <2> DEFINE cmd == Head(runningCommands)
               signal == [type |-> "reply", cmd |-> cmd, reply |-> Answer(Head(requests))]
    <2>1. /\ ReadReply
          /\ outbox' = outbox \/ outbox' = Append(outbox, signal)
          /\ UNCHANGED <<contexts, inbox, commands, internalCommands>>
        BY <1>5 DEF CompleteCommand, callerVars
    <2>2. runningCommands # <<>> /\ runningCommands' = Tail(runningCommands)
        BY <2>1, ReadsCommand DEF ReadReply
    <2>3. Range(runningCommands') \subseteq Range(runningCommands) /\ cmd \in Range(runningCommands)
        BY <1>1, <2>2, RangeTail
    <2>4. Foreign(cmd, w) /\ signal.cmd = cmd
        BY <2>3 DEF NothingOf
    <2> HIDE DEF cmd, signal
    <2>5. Range(Append(outbox, signal)) = Range(outbox) \union {signal}
        BY <1>1, RangeAppend
    <2>6. Range(outbox') \subseteq Range(outbox) \union {signal}
        BY <2>1, <2>5
    <2> QED
        BY <2>1, <2>3, <2>4, <2>6 DEF NothingOf
<1>6. CASE \E slot \in Slots, node \in Nodes : MoveSlot(slot, node)
    BY <1>6 DEF MoveSlot, callerVars, queueVars, NothingOf
<1> QED
    BY <1>2, <1>3, <1>4, <1>5, <1>6

\* What the Connection does with a signal that is not for the walk.
LEMMA SignalsKeepNothing ==
    ASSUME LineInvariant, Shape, NEW w \in Walks, NothingOf(w), ReceiveSignal
    PROVE  NothingOf(w)' /\ SameWalk(w)
<1>1. /\ outbox # <<>>
      /\ UNCHANGED <<commands, internalCommands, runningCommands>>
    BY DEF ReceiveSignal, queueVars
<1>2. /\ IsSeq(inbox) /\ IsSeq(outbox) /\ IsSeq(contexts) /\ IsSeq(Tail(outbox))
      /\ Range(Tail(outbox)) \subseteq Range(outbox) /\ Head(outbox) \in Range(outbox)
    BY <1>1, RangeTail DEF LineInvariant, Sequences, Shape
<1>3. ASSUME NEW call, call.type = "add" => Foreign(call.cmd, w), inbox' = Append(inbox, call)
      PROVE  \A c \in Range(inbox') : c.type = "add" => Foreign(c.cmd, w)
    <2>1. Range(inbox') = Range(inbox) \union {call}
        BY <1>2, <1>3, RangeAppend
    <2> QED
        BY <1>3, <2>1 DEF NothingOf
<1>4. outbox' = Tail(outbox) =>
          \A signal \in Range(outbox') : signal.type = "reply" => Foreign(signal.cmd, w)
    BY <1>2 DEF NothingOf
<1>5. ASSUME NEW kind \in {"ping", "info", "slots"}, Continue(kind)
      PROVE  NothingOf(w)' /\ walk' = walk
    <2>1. Foreign(Add([kind |-> kind]).cmd, w)
        BY DEF Add, Foreign
    <2>2. /\ inbox' = Append(inbox, Add([kind |-> kind])) /\ outbox' = Tail(outbox)
          /\ contexts' = contexts /\ walk' = walk
        BY <1>5 DEF Continue
    <2>3. \A c \in Range(inbox') : c.type = "add" => Foreign(c.cmd, w)
        BY <1>3, <2>1, <2>2
    <2> QED
        BY <1>1, <1>4, <2>2, <2>3 DEF NothingOf
<1>6. ASSUME EmitAuthOk
      PROVE  NothingOf(w)' /\ walk' = walk
    <2> DEFINE visits == [k \in DOMAIN contexts |-> Add([kind |-> "visit", walk |-> contexts[k].walk])]
               posted == <<[type |-> "authOk"]>>
               deletion == [type |-> "deleteLater", upTo |-> contextCount]
    <2>1. /\ inbox' = (inbox \o posted) \o visits
          /\ outbox' = Tail(outbox) \/ outbox' = Append(Tail(outbox), deletion)
          /\ contexts' = contexts /\ walk' = walk
        BY <1>6 DEF EmitAuthOk
    <2>2. IsSeq(visits) /\ \A c \in Range(visits) : Foreign(c.cmd, w)
        <3>1. Len(contexts) \in Nat /\ DOMAIN contexts = 1..Len(contexts)
            BY <1>2, IsSeqFacts
        <3>2. visits \in Seq({Add([kind |-> "visit", walk |-> contexts[k].walk]) : k \in DOMAIN contexts})
            BY <3>1
        <3>3. \A k \in DOMAIN contexts : contexts[k].walk # w
            BY DEF NothingOf, Range
        <3>4. \A c \in Range(visits) : Foreign(c.cmd, w)
            BY <3>3 DEF Range, Foreign, Add
        <3> QED
            BY <3>2, <3>4 DEF IsSeq
    <2>3. IsSeq(posted) /\ Range(posted) = {[type |-> "authOk"]}
        BY RangeOne
    <2>4. deletion.type # "reply" /\ [type |-> "authOk"].type # "add"
        OBVIOUS
    <2> HIDE DEF visits, posted, deletion
    <2>5. Range((inbox \o posted) \o visits)
              = Range(inbox) \union {[type |-> "authOk"]} \union Range(visits)
        BY <1>2, <2>2, <2>3, RangeConcat
    <2>6. Range(Append(Tail(outbox), deletion)) = Range(Tail(outbox)) \union {deletion}
        BY <1>2, RangeAppend
    <2>7. Range(outbox') \subseteq Range(outbox) \union {deletion}
        BY <1>2, <2>1, <2>6
    <2> QED
        BY <1>1, <2>1, <2>2, <2>4, <2>5, <2>7 DEF NothingOf
<1>7. ASSUME NEW cmd, NEW reply, WalkGoesOn(cmd.walk, cmd, reply), Foreign(cmd, w)
      PROVE  NothingOf(w)' /\ walk'[w] = walk[w]
    <2> DEFINE v == cmd.walk
    <2>1. v # w
        BY <1>7 DEF WalkGoesOn, Foreign
    <2>2. \E hosts : ConnectToNextMasterNode(v, hosts)
        BY <1>7 DEF WalkGoesOn
    <2>3. walk'[w] = walk[w]
        BY <1>7, <2>1 DEF WalkGoesOn, Shape
    <2> HIDE DEF v
    <2>4. PICK hosts : ConnectToNextMasterNode(v, hosts)
        BY <2>2
    <2> DEFINE call == ReconnectCall(Head(hosts))
               context == [walk |-> v, no |-> contextCount + 1]
    <2>5. /\ outbox' = Tail(outbox)
          /\ \/ contexts' = contexts /\ inbox' = inbox
             \/ contexts' = Append(contexts, context) /\ inbox' = Append(inbox, call)
        BY <2>4 DEF ConnectToNextMasterNode
    <2>6. call.type # "add" /\ context.walk = v
        BY DEF ReconnectCall
    <2> HIDE DEF call, context
    <2>7. /\ Range(Append(contexts, context)) = Range(contexts) \union {context}
          /\ Range(Append(inbox, call)) = Range(inbox) \union {call}
        BY <1>2, RangeAppend
    <2>8. /\ Range(contexts') \subseteq Range(contexts) \union {context}
          /\ Range(inbox') \subseteq Range(inbox) \union {call}
        BY <2>5, <2>7
    <2>9. NothingOf(w)'
        BY <1>1, <1>4, <2>1, <2>5, <2>6, <2>8 DEF NothingOf
    <2> QED
        BY <2>3, <2>9
<1>8. ASSUME NEW upTo, contexts' = Subsequence(contexts, {k \in DOMAIN contexts : contexts[k].no > upTo}),
             outbox' = Tail(outbox), UNCHANGED <<inbox, walk>>
      PROVE  NothingOf(w)' /\ walk' = walk
    <2>1. Range(contexts') \subseteq Range(contexts)
        <3>1. PICK S : contexts \in Seq(S)
            BY <1>2 DEF IsSeq
        <3> DEFINE I == {k \in DOMAIN contexts : contexts[k].no > upTo}
        <3>2. I \subseteq DOMAIN contexts /\ contexts' = Subsequence(contexts, I)
            BY <1>8
        <3> HIDE DEF I
        <3>3. \A k \in DOMAIN Subsequence(contexts, I) :
                  \E i \in I : Subsequence(contexts, I)[k] = contexts[i]
            BY <3>1, <3>2, SubsequenceElements
        <3>4. \A k \in DOMAIN contexts' : \E i \in DOMAIN contexts : contexts'[k] = contexts[i]
            BY <3>2, <3>3
        <3> QED
            BY <3>4 DEF Range
    <2> QED
        BY <1>1, <1>4, <1>8, <2>1 DEF NothingOf
<1>9. Head(outbox).type = "reply" => Foreign(Head(outbox).cmd, w)
    BY <1>2 DEF NothingOf
<1>10. walk'[w] = walk[w] => SameWalk(w)
    BY DEF SameWalk
<1>11. ASSUME NEW kind, NEW reply, Handshake(kind, reply)
       PROVE  NothingOf(w)' /\ walk' = walk
    <2>1. CASE Continue("info") \/ Continue("slots") \/ EmitAuthOk
        BY <1>5, <1>6, <2>1
    <2>2. CASE outbox' = Tail(outbox) /\ UNCHANGED <<inbox, contexts, walk>>
        BY <1>1, <1>4, <2>2 DEF NothingOf
    <2> QED
        BY <1>11, <2>1, <2>2 DEF Handshake
<1> QED
    BY <1>5, <1>7, <1>8, <1>9, <1>10, <1>11 DEF ReceiveSignal

LEMMA TransporterLeavesWalks ==
    ASSUME InboxNext \/ RedirectTimer \/ QueueNext \/ AbortRedirects \/ FollowRedirect
    PROVE  walk' = walk
<1>1. CASE InboxNext
    BY <1>1 DEF InboxNext, WalkReconnects, AddCommands, AuthOk, historyVars
<1>2. CASE RedirectTimer \/ AbortRedirects \/ FollowRedirect
    BY <1>2 DEF RedirectTimer, AbortRedirects, FollowRedirect, historyVars
<1>3. CASE QueueNext
    BY <1>3 DEF QueueNext, QueueIsEmpty, RunInternalCommand, RunPickedCommand, RunCommand,
                PickClusterNode, historyVars
<1> QED
    BY <1>1, <1>2, <1>3

\* Where there is nothing of a walk there is nothing until it starts.
LEMMA NothingStays ==
    ASSUME LineInvariant, Shape, NEW w \in Walks, NothingOf(w), Next, ~StartWalk(w)
    PROVE  NothingOf(w)' /\ SameWalk(w)
<1>1. walk'[w] = walk[w] => SameWalk(w)
    BY DEF SameWalk
<1>2. CASE \E slot \in Slots : Submit(slot)
    <2>1. walk' = Disturbed({})
        BY <1>2 DEF Submit
    <2> QED
        BY <1>2, <2>1, DisturbedWalks, OthersKeepNothing
<1>3. CASE \E v \in Walks : StartWalk(v)
    <2>1. PICK v \in Walks : StartWalk(v)
        BY <1>3
    <2>2. v # w
        BY <2>1
    <2>3. walk' = [Disturbed({v}) EXCEPT ![v].started = TRUE, ![v].alone = Idle]
        BY <2>1 DEF StartWalk
    <2>4. walk'[w] = Disturbed({v})[w]
        BY <2>2, <2>3 DEF Disturbed
    <2>5. Disturbed({v})[w] = [walk[w] EXCEPT !["alone"] = walk[w].alone /\ ~Active(w)]
        BY <2>2 DEF Disturbed
    <2>6. SameWalk(w)
        <3>1. DOMAIN walk[w] = {"masters", "visited", "calls", "started", "alone"}
            BY DEF Shape
        <3> QED
            BY <2>4, <2>5, <3>1 DEF SameWalk
    <2> QED
        BY <2>1, <2>2, <2>6, OthersKeepNothing
<1>4. CASE ReceiveSignal
    BY <1>4, SignalsKeepNothing
<1>5. CASE InboxNext \/ RedirectTimer \/ QueueNext \/ AbortRedirects \/ FollowRedirect
    <2>1. walk' = walk
        BY <1>5, TransporterLeavesWalks
    <2> QED
        BY <1>1, <1>5, <2>1, QueuesKeepNothing
<1>6. CASE \/ ConnectSucceeds \/ CompleteCommand
           \/ \E slot \in Slots, node \in Nodes : MoveSlot(slot, node)
    <2>1. walk' = walk
        BY <1>6 DEF ConnectSucceeds, CompleteCommand, MoveSlot, historyVars
    <2> QED
        BY <1>1, <1>6, <2>1, OthersKeepNothing
<1> QED
    BY <1>2, <1>3, <1>4, <1>5, <1>6 DEF Next, CallerNext, ReplyNext

-----------------------------------------------------------------------------

Visit(w) == [kind |-> "visit", walk |-> w]
Masters(w) == [kind |-> "masters", walk |-> w]
ReplyTo(cmd, reply) == [type |-> "reply", cmd |-> cmd, reply |-> reply]
Deletion == [type |-> "deleteLater", upTo |-> contextCount]

\* Where everything that is under way is.
At(calls, internal, user, running, signals, loops) ==
    /\ inbox = calls /\ internalCommands = internal /\ commands = user
    /\ runningCommands = running /\ requests = running /\ outbox = signals /\ nested = loops
NoCall == At(<<>>, <<>>, <<>>, <<>>, <<>>, <<>>)

\* The masters are asked for.
Asks(w) ==
    /\ contexts = <<>>
    /\ \/ At(<<Add(Masters(w))>>, <<>>, <<>>, <<>>, <<>>, <<>>)
       \/ At(<<>>, <<Masters(w)>>, <<>>, <<>>, <<>>, <<>>)
       \/ At(<<>>, <<>>, <<>>, <<Masters(w)>>, <<>>, <<>>)
       \/ \E reply : At(<<>>, <<>>, <<>>, <<>>, <<ReplyTo(Masters(w), reply)>>, <<>>)

\* The connection goes to a node,
Goes(w, node) ==
    /\ contexts = <<[walk |-> w, no |-> contextCount]>>
    /\ \/ At(<<ReconnectCall(node)>>, <<>>, <<>>, <<>>, <<>>, <<>>)
       \/ config = node /\ At(<<>>, <<>>, <<>>, <<>>, <<>>, <<"walk">>)
       \/ config = node /\ At(<<>>, <<>>, <<>>, <<>>, <<[type |-> "connected"]>>, <<>>)

\* goes through the handshake there
PongToPing(cmd, reply) == cmd.kind = "ping" => reply.type = "pong"
Handshakes(w, node) ==
    /\ contexts = <<[walk |-> w, no |-> contextCount]>> /\ config = node
    /\ \E cmd \in HandshakeCommand :
           \/ At(<<Add(cmd)>>, <<>>, <<>>, <<>>, <<>>, <<>>)
           \/ At(<<>>, <<cmd>>, <<>>, <<>>, <<>>, <<>>)
           \/ At(<<>>, <<>>, <<>>, <<cmd>>, <<>>, <<>>)
           \/ \E reply : /\ PongToPing(cmd, reply)
                         /\ At(<<>>, <<>>, <<>>, <<>>, <<ReplyTo(cmd, reply)>>, <<>>)

\* and the command of the walk runs, while the context is deleted.
Visits(w, node) ==
    /\ config = node
    /\ \E deletion \in {<<>>, <<Deletion>>} :
           /\ contexts = IF deletion = <<>> THEN <<>> ELSE <<[walk |-> w, no |-> contextCount]>>
           /\ \/ At(<<[type |-> "authOk"], Add(Visit(w))>>, <<>>, <<>>, <<>>, deletion, <<>>)
              \/ At(<<Add(Visit(w))>>, <<>>, <<>>, <<>>, deletion, <<>>)
              \/ At(<<>>, <<>>, <<Visit(w)>>, <<>>, deletion, <<>>)
              \/ At(<<>>, <<>>, <<>>, <<Visit(w)>>, deletion, <<>>)
              \/ \E reply : /\ reply.node = node
                            /\ At(<<>>, <<>>, <<>>, <<>>, Append(deletion, ReplyTo(Visit(w), reply)), <<>>)

\* The nodes visited, the one that the connection goes to and those that are left are the masters.
Covers(w, node, hosts) ==
    /\ IsSeq(walk[w].visited) /\ IsSeq(hosts)
    /\ Range(walk[w].visited) \union {node} \union Range(hosts) = walk[w].masters
    /\ Len(walk[w].visited) + 1 + Len(hosts) = Cardinality(walk[w].masters)

\* A walk over no nodes never calls back.
OnItsWay(w) ==
    /\ redirectTimer = <<>> /\ walk[w].calls = 0
    /\ \/ Asks(w) /\ walk[w].visited = <<>>
       \/ NoCall /\ contexts = <<>>
       \/ \E node : /\ Goes(w, node) \/ Handshakes(w, node) \/ Visits(w, node)
                    /\ Covers(w, node, notVisitedMasterNodes)
Done(w) == NothingOf(w) /\ walk[w].calls = 1 /\ WalkAlone(w)

WalksGo ==
    \A w \in Walks :
        /\ ~walk[w].started => NothingOf(w) /\ walk[w].visited = <<>> /\ walk[w].calls = 0
        /\ walk[w].alone /\ Active(w) => OnItsWay(w)
        /\ walk[w].alone /\ walk[w].calls > 0 => Done(w)

-----------------------------------------------------------------------------

LEMMA Tuples ==
    ASSUME NEW a, NEW b
    PROVE  /\ <<a>> # <<>> /\ Head(<<a>>) = a /\ Tail(<<a>>) = <<>>
           /\ <<a, b>> # <<>> /\ Head(<<a, b>>) = a /\ Tail(<<a, b>>) = <<b>>
           /\ Append(<<>>, a) = <<a>> /\ Append(<<a>>, b) = <<a, b>>
           /\ Len(<<>>) = 0 /\ Len(<<a>>) = 1
<1>1. <<a>> # <<>> /\ <<a, b>> # <<>> /\ Len(<<>>) = 0 /\ Len(<<a>>) = 1
    OBVIOUS
<1>2. Head(<<a>>) = a
    OBVIOUS
<1>3. Head(<<a, b>>) = a
    OBVIOUS
<1>4. Tail(<<a>>) = <<>>
    OBVIOUS
<1>5. Tail(<<a, b>>) = <<b>>
    OBVIOUS
<1>6. Append(<<>>, a) = <<a>>
    OBVIOUS
<1>7. Append(<<a>>, b) = <<a, b>>
    <2>1. <<a>> \in Seq({a, b}) /\ <<a, b>> \in Seq({a, b}) /\ Len(<<a>>) = 1 /\ Len(<<a, b>>) = 2
        OBVIOUS
    <2>2. <<a>>[1] = a /\ <<a, b>>[1] = a /\ <<a, b>>[2] = b
        OBVIOUS
    <2> DEFINE s == <<a>>
               t == <<a, b>>
    <2> HIDE DEF s, t
    <2>3. /\ Append(s, b) \in Seq({a, b}) /\ Len(Append(s, b)) = 2
          /\ Append(s, b)[1] = a /\ Append(s, b)[2] = b
        BY <2>1, <2>2, AppendProperties DEF s
    <2>4. t \in Seq({a, b}) /\ Len(t) = 2 /\ t[1] = a /\ t[2] = b
        BY <2>1, <2>2 DEF t
    <2>5. \A i \in 1..2 : i = 1 \/ i = 2
        OBVIOUS
    <2>6. Append(s, b) = t
        BY <2>3, <2>4, <2>5, SeqEqual
    <2> QED
        BY <2>6 DEF s, t
<1> QED
    BY <1>1, <1>2, <1>3, <1>4, <1>5, <1>6, <1>7

LEMMA OneOfTuple ==
    ASSUME NEW a, NEW k \in DOMAIN <<a>>
    PROVE  /\ k = 1 /\ <<a>>[k] = a /\ RemoveAt(<<a>>, k) = <<>>
<1>1. DOMAIN <<a>> = {1} /\ Len(<<a>>) = 1
    BY IsSeqFacts, RangeOne
<1>2. k = 1 /\ <<a>>[k] = a
    BY <1>1
<1>3. RemoveAt(<<a>>, 1) = <<>>
    <2> DEFINE s == RemoveAt(<<a>>, 1)
    <2>1. IsSeq(s) /\ Len(s) = 0
        BY <1>1, IsSeqRemoveAt, RangeOne
    <2> HIDE DEF s
    <2>2. PICK S : s \in Seq(S)
        BY <2>1 DEF IsSeq
    <2>3. s = <<>>
        BY <2>1, <2>2, EmptySeq
    <2> QED
        BY <2>3 DEF s
<1> QED
    BY <1>2, <1>3

LEMMA Signals ==
    ASSUME NEW e
    PROVE  /\ [k \in DOMAIN <<>> |-> e] = <<>>
           /\ \A a : [k \in DOMAIN <<a>> |-> e] = <<e>>
           /\ <<>> \o <<>> = <<>> /\ <<>> \o <<e>> = <<e>>
<1>1. DOMAIN <<>> = {}
    BY IsSeqFacts, RangeEmpty
<1>2. \A a : DOMAIN <<a>> = {1}
    BY IsSeqFacts, RangeOne
<1>3. [k \in {} |-> e] = <<>>
    <2>1. <<>> = [k \in DOMAIN <<>> |-> <<>>[k]]
        OBVIOUS
    <2> QED
        BY <1>1, <2>1
<1>4. [k \in {1} |-> e] = <<e>>
    <2>1. DOMAIN <<e>> = {1} /\ <<e>>[1] = e
        BY <1>2
    <2>2. <<e>> = [k \in DOMAIN <<e>> |-> <<e>>[k]]
        OBVIOUS
    <2> QED
        BY <2>1, <2>2
<1> QED
    BY <1>1, <1>2, <1>3, <1>4

LEMMA AnswersOfWalks ==
    ASSUME NEW w \in Walks
    PROVE  /\ Answer(Masters(w)) = [type |-> "slots", node |-> config, slots |-> owner]
           /\ Answer(Visit(w)) = [type |-> "value", node |-> config]
           /\ \A cmd : cmd.kind = "ping" => Answer(cmd).type = "pong"
           /\ \A cmd : cmd.kind # "key" => ~Redirect(Answer(cmd))
BY DEF Answer, Masters, Visit, Redirect

\* Nothing is asked of a node but what walk w needs, so no redirect interferes.
LEMMA CommandOnItsWay ==
    ASSUME NEW w \in Walks, OnItsWay(w)
    PROVE  /\ redirectTimer = <<>>
           /\ commands \in {<<>>, <<Visit(w)>>}
           /\ requests = runningCommands
           /\ runningCommands = <<>> \/ \E cmd : runningCommands = <<cmd>> /\ cmd.kind # "key"
BY DEF OnItsWay, Asks, Goes, Handshakes, Visits, NoCall, At, Visit, Masters, HandshakeCommand


LEMMA WalkStart ==
    ASSUME LineInvariant, Shape, WalksGo, NEW w \in Walks, StartWalk(w), walk'[w].alone
    PROVE  OnItsWay(w)'
<1>1. /\ inbox' = Append(inbox, Add(Masters(w)))
      /\ UNCHANGED <<contexts, outbox, redirectTimer, nested, commands, internalCommands,
                     runningCommands, requests>>
      /\ walk' = [Disturbed({w}) EXCEPT
                    ![w] = [[walk[w] EXCEPT !["started"] = TRUE] EXCEPT !["alone"] = Idle]]
    <2>1. Disturbed({w})[w] = walk[w] /\ DOMAIN Disturbed({w}) = Walks
        BY DEF Disturbed
    <2> QED
        BY <2>1 DEF StartWalk, Masters, callerVars, redirectVars, queueVars, netVars
<1>2. /\ walk'[w] = [[walk[w] EXCEPT !["started"] = TRUE] EXCEPT !["alone"] = Idle]
      /\ ~walk[w].started /\ walk[w].visited = <<>> /\ walk[w].calls = 0
    BY <1>1 DEF Disturbed, WalksGo, StartWalk
<1>3. walk'[w].alone = Idle /\ walk'[w].visited = <<>> /\ walk'[w].calls = 0
    BY <1>2 DEF Shape
<1>4. Idle
    BY <1>3
<1>5. requests = <<>>
    <2>1. Len(requests) = 0
        BY <1>4, LineSeqs, RangeEmpty DEF Idle, LineInvariant, RequestsHaveCommands
    <2>2. IsSeq(requests)
        BY DEF LineInvariant, Sequences
    <2>3. PICK S : requests \in Seq(S)
        BY <2>2 DEF IsSeq
    <2> QED
        BY <2>1, <2>3, EmptySeq
<1>6. inbox' = <<Add(Masters(w))>>
    BY <1>1, <1>4, Tuples DEF Idle
<1>7. Asks(w)'
    BY <1>1, <1>4, <1>5, <1>6 DEF Idle, Asks, At
<1> QED
    BY <1>1, <1>3, <1>4, <1>7 DEF OnItsWay, Idle

\* The transporter takes a call.
LEMMA WalkInbox ==
    ASSUME NEW w \in Walks, OnItsWay(w), InboxNext
    PROVE  OnItsWay(w)'
<1>1. /\ UNCHANGED <<walk, contexts, contextCount, outbox, redirectTimer, notVisitedMasterNodes>>
      /\ inbox # <<>> /\ inbox' = Tail(inbox)
    BY DEF InboxNext, WalkReconnects, AddCommands, AuthOk, Receive, callerVars, redirectVars, historyVars
<1>2. CASE AddCommands
    <2>1. /\ Head(inbox).type = "add"
          /\ IF HiPriority(Head(inbox).cmd)
             THEN internalCommands' = Append(internalCommands, Head(inbox).cmd) /\ UNCHANGED commands
             ELSE commands' = Append(commands, Head(inbox).cmd) /\ UNCHANGED internalCommands
          /\ UNCHANGED <<runningCommands, requests, nested, config>>
        BY <1>2 DEF AddCommands, Receive, redirectVars, netVars
    <2>2. ASSUME NEW cmd, inbox = <<Add(cmd)>>
          PROVE  /\ inbox' = <<>>
                 /\ HiPriority(cmd) => internalCommands' = Append(internalCommands, cmd) /\ commands' = commands
                 /\ ~HiPriority(cmd) => commands' = Append(commands, cmd) /\ internalCommands' = internalCommands
        BY <1>1, <2>1, <2>2, Tuples DEF Add
    <2>3. HiPriority(Masters(w)) /\ ~HiPriority(Visit(w)) /\ \A cmd \in HandshakeCommand : HiPriority(cmd)
        BY DEF HiPriority, Masters, Visit, HandshakeCommand
    <2>4. \A cmd : Append(<<>>, cmd) = <<cmd>>
        BY Tuples
    <2>5. Asks(w) => Asks(w)'
        BY <1>1, <2>1, <2>2, <2>3, <2>4, Tuples DEF Asks, At
    <2>6. \A node : ~Goes(w, node)
        BY <1>1, <2>1, Tuples DEF Goes, At, ReconnectCall
    <2>7. ASSUME NEW node, Handshakes(w, node)
          PROVE  Handshakes(w, node)'
        BY <1>1, <2>1, <2>2, <2>3, <2>4, <2>7 DEF Handshakes, At
    <2>8. ASSUME NEW node, Visits(w, node)
          PROVE  Visits(w, node)'
        <3>1. PICK deletion \in {<<>>, <<Deletion>>} :
                /\ config = node
                /\ contexts = IF deletion = <<>> THEN <<>> ELSE <<[walk |-> w, no |-> contextCount]>>
                /\ At(<<Add(Visit(w))>>, <<>>, <<>>, <<>>, deletion, <<>>)
            BY <1>1, <2>1, <2>8, Tuples DEF Visits, At
        <3>2. At(<<>>, <<>>, <<Visit(w)>>, <<>>, deletion, <<>>)'
            BY <1>1, <2>1, <2>2, <2>3, <2>4, <3>1 DEF At
        <3> QED
            BY <1>1, <2>1, <3>1, <3>2 DEF Visits, Deletion
    <2> QED
        BY <1>1, <2>5, <2>6, <2>7, <2>8 DEF OnItsWay, NoCall, At, Covers
<1>3. CASE AuthOk
    <2>1. /\ Head(inbox).type = "authOk"
          /\ UNCHANGED <<internalCommands, commands, runningCommands, requests, nested, config>>
        BY <1>3 DEF AuthOk, Receive, queueVars, redirectVars, netVars
    <2>2. PICK node : Visits(w, node) /\ Covers(w, node, notVisitedMasterNodes)
        <3>1. \A cmd : inbox # <<Add(cmd)>>
            BY <2>1, Tuples DEF Add
        <3>2. \A node : inbox # <<ReconnectCall(node)>>
            BY <2>1, Tuples DEF ReconnectCall
        <3> QED
            BY <1>1, <3>1, <3>2 DEF OnItsWay, Asks, Goes, Handshakes, NoCall, At
    <2>3. PICK deletion \in {<<>>, <<Deletion>>} :
                /\ config = node
                /\ contexts = IF deletion = <<>> THEN <<>> ELSE <<[walk |-> w, no |-> contextCount]>>
                /\ At(<<[type |-> "authOk"], Add(Visit(w))>>, <<>>, <<>>, <<>>, deletion, <<>>)
        <3>1. inbox # <<Add(Visit(w))>>
            BY <2>1, Tuples DEF Add
        <3> QED
            BY <1>1, <2>2, <3>1 DEF Visits, At
    <2>4. At(<<Add(Visit(w))>>, <<>>, <<>>, <<>>, deletion, <<>>)'
        BY <1>1, <2>1, <2>3, Tuples DEF At
    <2>5. Visits(w, node)'
        BY <1>1, <2>1, <2>3, <2>4 DEF Visits, Deletion
    <2> QED
        BY <1>1, <2>2, <2>5 DEF OnItsWay, Covers
<1>4. CASE WalkReconnects
    <2>1. /\ Head(inbox).type = "reconnectTo"
          /\ config' = Head(inbox).node /\ nested' = Append(nested, "walk") /\ requests' = <<>>
          /\ runningCommands' = <<>> \/ runningCommands' = runningCommands
          /\ UNCHANGED <<internalCommands, commands>>
        BY <1>4 DEF WalkReconnects, ReconnectTo, Receive
    <2>2. PICK node : Goes(w, node) /\ Covers(w, node, notVisitedMasterNodes)
        <3>1. \A cmd : inbox # <<Add(cmd)>>
            BY <2>1, Tuples DEF Add
        <3>2. \A cmd : inbox # <<[type |-> "authOk"], cmd>>
            BY <2>1, Tuples
        <3> QED
            BY <1>1, <3>1, <3>2 DEF OnItsWay, Asks, Handshakes, Visits, NoCall, At
    <2>3. At(<<ReconnectCall(node)>>, <<>>, <<>>, <<>>, <<>>, <<>>)
        BY <1>1, <2>2 DEF Goes, At
    <2>4. config' = node /\ At(<<>>, <<>>, <<>>, <<>>, <<>>, <<"walk">>)'
        BY <1>1, <2>1, <2>3, Tuples DEF At, ReconnectCall
    <2>5. Goes(w, node)'
        BY <1>1, <2>2, <2>4 DEF Goes
    <2> QED
        BY <1>1, <2>2, <2>5 DEF OnItsWay, Covers
<1> QED
    BY <1>2, <1>3, <1>4 DEF InboxNext


\* The nested loop of the walk ends, or a timer's that was none.
LEMMA WalkConnects ==
    ASSUME NEW w \in Walks, OnItsWay(w), ConnectSucceeds
    PROVE  OnItsWay(w)'
<1> DEFINE e == [type |-> "connected"]
<1>1. /\ UNCHANGED <<walk, contexts, contextCount, redirectTimer, notVisitedMasterNodes, inbox,
                     internalCommands, commands, runningCommands, requests, config>>
      /\ nested' = <<>>
      /\ outbox' = outbox \o [k \in DOMAIN nested |-> e]
    BY DEF ConnectSucceeds, callerVars, queueVars, historyVars
<1> HIDE DEF e
<1>2. CASE \E node : /\ contexts = <<[walk |-> w, no |-> contextCount]>>
                     /\ config = node /\ At(<<>>, <<>>, <<>>, <<>>, <<>>, <<"walk">>)
                     /\ Covers(w, node, notVisitedMasterNodes)
    <2>1. PICK node : /\ contexts = <<[walk |-> w, no |-> contextCount]>>
                      /\ config = node /\ At(<<>>, <<>>, <<>>, <<>>, <<>>, <<"walk">>)
                      /\ Covers(w, node, notVisitedMasterNodes)
        BY <1>2
    <2>2. [k \in DOMAIN nested |-> e] = <<e>> /\ <<>> \o <<e>> = <<e>>
        <3>1. nested = <<"walk">>
            BY <2>1 DEF At
        <3> QED
            BY <3>1, Signals
    <2>3. outbox' = <<e>>
        BY <1>1, <2>1, <2>2 DEF At
    <2>4. Goes(w, node)'
        BY <1>1, <2>1, <2>3 DEF Goes, At, e
    <2> QED
        BY <1>1, <2>1, <2>4 DEF OnItsWay, Covers
<1>3. ASSUME nested = <<>>
      PROVE  OnItsWay(w)'
    <2>1. IsSeq(outbox) \/ outbox' = outbox
        <3>1. outbox = <<>> => outbox' = outbox
            BY <1>1, <1>3, Signals
        <3>2. \A a : IsSeq(<<a>>) /\ \A b : IsSeq(<<a, b>>)
            <4>1. \A a, b : <<a, b>> \in Seq({a, b})
                OBVIOUS
            <4> QED
                BY <4>1, RangeOne DEF IsSeq
        <3>3. outbox = <<>> \/ IsSeq(outbox)
            BY <3>2, Tuples DEF OnItsWay, Asks, Goes, Handshakes, Visits, NoCall, At
        <3> QED
            BY <3>1, <3>3
    <2>2. outbox' = outbox
        <3>1. ASSUME IsSeq(outbox)
              PROVE  outbox \o <<>> = outbox
            <4>1. PICK S : outbox \in Seq(S)
                BY <3>1 DEF IsSeq
            <4> QED
                BY <4>1, ConcatEmptySeq
        <3>2. [k \in DOMAIN nested |-> e] = <<>>
            BY <1>3, Signals
        <3> QED
            BY <1>1, <2>1, <3>1, <3>2
    <2>3. nested' = nested
        BY <1>1, <1>3
    <2> QED
        BY <1>1, <2>2, <2>3 DEF OnItsWay, Asks, Goes, Handshakes, Visits, NoCall, At, Deletion, Covers
<1>4. nested = <<>> \/ \E node : /\ contexts = <<[walk |-> w, no |-> contextCount]>>
                                 /\ config = node /\ At(<<>>, <<>>, <<>>, <<>>, <<>>, <<"walk">>)
                                 /\ Covers(w, node, notVisitedMasterNodes)
    BY DEF OnItsWay, Asks, Goes, Handshakes, Visits, NoCall, At
<1> QED
    BY <1>2, <1>3, <1>4

\* The queue runs the command of the walk, or one of the handshake.
LEMMA WalkQueue ==
    ASSUME NEW w \in Walks, OnItsWay(w), QueueNext
    PROVE  OnItsWay(w)'
<1>1. UNCHANGED <<walk, contexts, contextCount, outbox, notVisitedMasterNodes, inbox, nested, config>>
    BY DEF QueueNext, QueueIsEmpty, RunInternalCommand, RunPickedCommand, RunCommand, PickClusterNode,
           callerVars, historyVars, redirectVars, netVars
<1>2. CASE QueueIsEmpty
    <2>1. UNCHANGED <<internalCommands, commands, runningCommands, requests, redirectTimer>>
        BY <1>2 DEF QueueIsEmpty, queueVars, redirectVars, netVars
    <2> QED
        BY <1>1, <2>1 DEF OnItsWay, Asks, Goes, Handshakes, Visits, NoCall, At, Deletion, Covers
<1>3. CASE RunInternalCommand
    <2>1. /\ internalCommands # <<>> /\ internalCommands' = Tail(internalCommands)
          /\ runningCommands' = Append(runningCommands, Head(internalCommands))
          /\ requests' = Append(requests, Head(internalCommands))
          /\ UNCHANGED <<commands, redirectTimer>>
        BY <1>3 DEF RunInternalCommand, RunCommand, redirectVars
    <2>2. ASSUME NEW cmd, internalCommands = <<cmd>>, runningCommands = <<>>, requests = <<>>
          PROVE  internalCommands' = <<>> /\ runningCommands' = <<cmd>> /\ requests' = <<cmd>>
        BY <2>1, <2>2, Tuples
    <2>3. Asks(w) => Asks(w)'
        BY <1>1, <2>1, <2>2 DEF Asks, At
    <2>4. ASSUME NEW node
          PROVE  ~Goes(w, node) /\ ~Visits(w, node) /\ (Handshakes(w, node) => Handshakes(w, node)')
        BY <1>1, <2>1, <2>2 DEF Goes, Visits, Handshakes, At
    <2> QED
        BY <1>1, <2>1, <2>3, <2>4 DEF OnItsWay, NoCall, At, Covers
<1>4. CASE RunPickedCommand
    <2>1. PICK k \in DOMAIN commands : commands' = RemoveAt(commands, k) /\ RunCommand(commands[k])
        BY <1>4 DEF RunPickedCommand
    <2>2. /\ runningCommands' = Append(runningCommands, commands[k])
          /\ requests' = Append(requests, commands[k])
          /\ internalCommands' = internalCommands /\ redirectTimer' = redirectTimer
        BY <1>4, <2>1 DEF RunPickedCommand, RunCommand, redirectVars
    <2>3. commands = <<Visit(w)>>
        <3>1. DOMAIN <<>> = {}
            BY IsSeqFacts, RangeEmpty
        <3> QED
            BY <2>1, <3>1, CommandOnItsWay
    <2>4. PICK node : Visits(w, node) /\ Covers(w, node, notVisitedMasterNodes)
        BY <2>3, Tuples DEF OnItsWay, Asks, Goes, Handshakes, NoCall, At
    <2>5. PICK deletion \in {<<>>, <<Deletion>>} :
                /\ config = node
                /\ contexts = IF deletion = <<>> THEN <<>> ELSE <<[walk |-> w, no |-> contextCount]>>
                /\ At(<<>>, <<>>, <<Visit(w)>>, <<>>, deletion, <<>>)
        BY <2>3, <2>4, Tuples DEF Visits, At
    <2>6. commands[k] = Visit(w) /\ commands' = <<>>
        BY <2>1, <2>3, OneOfTuple
    <2>7. runningCommands' = <<Visit(w)>> /\ requests' = <<Visit(w)>>
        BY <2>2, <2>5, <2>6, Tuples DEF At
    <2>8. At(<<>>, <<>>, <<>>, <<Visit(w)>>, deletion, <<>>)'
        BY <1>1, <2>2, <2>5, <2>6, <2>7 DEF At
    <2>9. Visits(w, node)'
        BY <1>1, <2>5, <2>8 DEF Visits, Deletion
    <2> QED
        BY <1>1, <2>2, <2>4, <2>9 DEF OnItsWay, Covers
<1>5. CASE PickClusterNode
    <2>1. commands # <<>> /\ \A k \in DOMAIN commands : ~ForCurrentNode(commands[k])
        BY <1>5 DEF PickClusterNode, Choosing
    <2>2. commands = <<Visit(w)>>
        BY <2>1, CommandOnItsWay
    <2>3. 1 \in DOMAIN commands /\ commands[1] = Visit(w)
        BY <2>2, IsSeqFacts, RangeOne
    <2> QED
        BY <2>1, <2>3 DEF ForCurrentNode, Visit
<1> QED
    BY <1>2, <1>3, <1>4, <1>5 DEF QueueNext

\* A node answers the command.
LEMMA WalkReplies ==
    ASSUME LineInvariant, NEW w \in Walks, OnItsWay(w), ReplyNext
    PROVE  OnItsWay(w)'
<1>1. PICK cmd : runningCommands = <<cmd>> /\ requests = <<cmd>> /\ cmd.kind # "key"
    <2>1. ReadReply
        BY DEF ReplyNext, AbortRedirects, FollowRedirect, CompleteCommand
    <2> QED
        BY <2>1, ReadsCommand, CommandOnItsWay
<1>2. /\ Head(requests) = cmd /\ Head(runningCommands) = cmd
      /\ Tail(requests) = <<>> /\ Tail(runningCommands) = <<>>
    BY <1>1, Tuples
<1>3. ~Redirect(Answer(cmd))
    BY <1>1, AnswersOfWalks
<1>4. CompleteCommand
    BY <1>2, <1>3 DEF ReplyNext, AbortRedirects, FollowRedirect
<1>5. PICK reply : reply = Answer(cmd)
    OBVIOUS
<1>6. /\ UNCHANGED <<walk, contexts, contextCount, redirectTimer, notVisitedMasterNodes, inbox,
                     internalCommands, commands, nested, config>>
      /\ requests' = <<>> /\ runningCommands' = <<>>
      /\ outbox' = Append(outbox, ReplyTo(cmd, reply))
    BY <1>1, <1>2, <1>4, <1>5 DEF CompleteCommand, ReadReply, ReplyTo, callerVars
<1>7. \A e : Append(<<>>, e) = <<e>>
    BY Tuples
<1>8. Asks(w) => Asks(w)'
    BY <1>1, <1>6, <1>7, Tuples DEF Asks, At
<1>9. ASSUME NEW node
      PROVE  ~Goes(w, node) /\ (Handshakes(w, node) => Handshakes(w, node)')
    <2>1. ~Goes(w, node)
        BY <1>1, Tuples DEF Goes, At
    <2>2. ASSUME Handshakes(w, node)
          PROVE  Handshakes(w, node)'
        <3>1. /\ contexts = <<[walk |-> w, no |-> contextCount]>> /\ config = node
              /\ cmd \in HandshakeCommand /\ At(<<>>, <<>>, <<>>, <<cmd>>, <<>>, <<>>)
            BY <1>1, <2>2, Tuples DEF Handshakes, At
        <3>2. At(<<>>, <<>>, <<>>, <<>>, <<ReplyTo(cmd, reply)>>, <<>>)'
            BY <1>6, <1>7, <3>1 DEF At
        <3>3. PongToPing(cmd, reply)
            BY <1>5, AnswersOfWalks DEF PongToPing
        <3> QED
            BY <1>6, <3>1, <3>2, <3>3 DEF Handshakes
    <2> QED
        BY <2>1, <2>2
<1>10. ASSUME NEW node, Visits(w, node)
      PROVE  Visits(w, node)'
    <2>1. PICK deletion \in {<<>>, <<Deletion>>} :
                /\ config = node
                /\ contexts = IF deletion = <<>> THEN <<>> ELSE <<[walk |-> w, no |-> contextCount]>>
                /\ At(<<>>, <<>>, <<>>, <<Visit(w)>>, deletion, <<>>)
        BY <1>1, <1>10, Tuples DEF Visits, At
    <2>2. cmd = Visit(w)
        <3>1. Head(runningCommands) = Visit(w)
            BY <2>1, Tuples DEF At
        <3> QED
            BY <1>2, <3>1
    <2>3. reply.node = node
        BY <1>5, <2>1, <2>2, AnswersOfWalks
    <2>4. At(<<>>, <<>>, <<>>, <<>>, Append(deletion, ReplyTo(Visit(w), reply)), <<>>)'
        BY <1>6, <2>1, <2>2 DEF At
    <2>5. /\ Deletion' = Deletion /\ config' = node
          /\ contexts' = IF deletion = <<>> THEN <<>> ELSE <<[walk |-> w, no |-> contextCount']>>
        BY <1>6, <2>1 DEF Deletion
    <2> QED
        BY <2>1, <2>3, <2>4, <2>5 DEF Visits
<1> QED
    BY <1>1, <1>6, <1>8, <1>9, <1>10, Tuples DEF OnItsWay, NoCall, At, Covers

LEMMA GoesToNext ==
    ASSUME NEW w \in Walks, NEW hosts, hosts # <<>>, ConnectToNextMasterNode(w, hosts), NEW e,
           contexts = <<>>, At(<<>>, <<>>, <<>>, <<>>, <<e>>, <<>>),
           UNCHANGED <<internalCommands, commands, runningCommands, requests, nested>>
    PROVE  Goes(w, Head(hosts))' /\ notVisitedMasterNodes' = Tail(hosts)
<1> DEFINE c == [walk |-> w, no |-> contextCount + 1]
           call == ReconnectCall(Head(hosts))
<1>1. /\ notVisitedMasterNodes' = Tail(hosts) /\ contextCount' = contextCount + 1
      /\ contexts' = Append(<<>>, c) /\ inbox' = Append(<<>>, call) /\ outbox' = Tail(<<e>>)
    BY DEF ConnectToNextMasterNode, RemoveFirstHost, At
<1> HIDE DEF c, call
<1>2. contexts' = <<c>> /\ inbox' = <<call>> /\ outbox' = <<>>
    BY <1>1, Tuples
<1>3. contexts' = <<[walk |-> w, no |-> contextCount']>>
    BY <1>1, <1>2 DEF c
<1>4. At(<<call>>, <<>>, <<>>, <<>>, <<>>, <<>>)'
    BY <1>2 DEF At
<1> QED
    BY <1>1, <1>3, <1>4 DEF Goes, call

\* The masters are known.
LEMMA WalkSetsOut ==
    ASSUME TypeOK, Shape, NEW w \in Walks, OnItsWay(w), ReceiveSignal, NEW reply,
           contexts = <<>>, walk[w].visited = <<>>,
           At(<<>>, <<>>, <<>>, <<>>, <<ReplyTo(Masters(w), reply)>>, <<>>)
    PROVE  OnItsWay(w)'
<1>1. UNCHANGED <<commands, internalCommands, runningCommands, redirectTimer, requests, nested>>
    BY DEF ReceiveSignal, queueVars, redirectVars, netVars
<1>2. Head(outbox) = ReplyTo(Masters(w), reply)
    BY Tuples DEF At
<1>3. WalkGoesOn(w, Masters(w), reply)
    BY <1>2 DEF ReceiveSignal, ReplyTo, Masters
<1> DEFINE masters == Range(SlotsIn(reply))
<1>4. PICK hosts \in SetToSeqs(masters) :
          ConnectToNextMasterNode(w, hosts) /\ walk' = [walk EXCEPT ![w].masters = masters]
    BY <1>3 DEF WalkGoesOn, Masters
<1>5. IsFiniteSet(masters)
    <2>1. outbox \in Seq(Signal) /\ outbox # <<>>
        BY DEF TypeOK, ReceiveSignal
    <2>2. Head(outbox) \in Signal
        BY <2>1, FirstAndRest
    <2>3. ReplyTo(Masters(w), reply) \in Signal
        BY <1>2, <2>2
    <2>4. reply \in Reply
        BY <2>3 DEF ReplyTo, Signal
    <2> QED
        BY <2>4, MastersAreFinite
<1> HIDE DEF masters
<1>6. IsSeq(hosts) /\ Range(hosts) = masters /\ Len(hosts) = Cardinality(masters)
    BY <1>5, HostsAreMasters
<1>7. walk'[w].masters = masters /\ walk'[w].visited = <<>> /\ walk'[w].calls = 0
    <2>1. walk' = [walk EXCEPT ![w] = [walk[w] EXCEPT !["masters"] = masters]]
        BY <1>4
    <2>2. walk'[w] = [walk[w] EXCEPT !["masters"] = masters]
        BY <2>1 DEF Shape
    <2>3. walk[w].calls = 0
        BY DEF OnItsWay
    <2> QED
        BY <2>2, <2>3 DEF Shape
<1>8. redirectTimer' = <<>>
    BY <1>1 DEF OnItsWay
<1>9. CASE hosts = <<>>
    <2>1. UNCHANGED <<contexts, inbox>> /\ outbox' = Tail(outbox)
        BY <1>4, <1>9 DEF ConnectToNextMasterNode
    <2>2. outbox' = <<>>
        BY <2>1, Tuples DEF At
    <2>3. NoCall' /\ contexts' = <<>>
        BY <1>1, <2>1, <2>2 DEF NoCall, At
    <2> QED
        BY <1>7, <1>8, <2>3 DEF OnItsWay
<1>10. CASE hosts # <<>>
    <2>1. PICK node : node = Head(hosts)
        OBVIOUS
    <2>2. Goes(w, node)' /\ notVisitedMasterNodes' = Tail(hosts)
        <3>1. Goes(w, Head(hosts))' /\ notVisitedMasterNodes' = Tail(hosts)
            BY <1>1, <1>4, <1>10, GoesToNext
        <3> QED
            BY <2>1, <3>1
    <2>3. /\ IsSeq(Tail(hosts)) /\ Range(hosts) = {node} \union Range(Tail(hosts))
          /\ Len(Tail(hosts)) = Len(hosts) - 1 /\ Len(hosts) \in Nat
        BY <1>6, <1>10, <2>1, RangeTail
    <2>4. Covers(w, node, notVisitedMasterNodes)'
        BY <1>6, <1>7, <2>2, <2>3, RangeEmpty DEF Covers
    <2> QED
        BY <1>7, <1>8, <2>2, <2>4 DEF OnItsWay
<1> QED
    BY <1>9, <1>10

\* Both sides of the handshake.
LEMMA WalkShakesHands ==
    ASSUME NEW w \in Walks, OnItsWay(w), ReceiveSignal, NEW node, NEW e,
           config = node, Covers(w, node, notVisitedMasterNodes),
           contexts = <<[walk |-> w, no |-> contextCount]>>,
           At(<<>>, <<>>, <<>>, <<>>, <<e>>, <<>>),
           \/ e = [type |-> "connected"]
           \/ \E cmd \in HandshakeCommand : \E reply :
                  PongToPing(cmd, reply) /\ e = ReplyTo(cmd, reply)
    PROVE  OnItsWay(w)'
<1>1. UNCHANGED <<commands, internalCommands, runningCommands, redirectTimer, requests, nested, config>>
    BY DEF ReceiveSignal, queueVars, redirectVars, netVars
<1>2. Head(outbox) = e /\ Tail(outbox) = <<>>
    BY Tuples DEF At
<1>3. (\E kind \in {"ping", "info", "slots"} : Continue(kind)) \/ EmitAuthOk
    <2>1. CASE e = [type |-> "connected"]
        BY <1>2, <2>1 DEF ReceiveSignal
    <2>2. ASSUME NEW cmd \in HandshakeCommand, NEW reply, PongToPing(cmd, reply), e = ReplyTo(cmd, reply)
          PROVE  (\E kind \in {"ping", "info", "slots"} : Continue(kind)) \/ EmitAuthOk
        <3>1. cmd.kind \in {"ping", "info", "slots"}
            BY DEF HandshakeCommand
        <3>2. Handshake(cmd.kind, reply)
            BY <1>2, <2>2, <3>1 DEF ReceiveSignal, ReplyTo
        <3> QED
            BY <2>2, <3>2 DEF Handshake, PongToPing
    <2> QED
        BY <2>1, <2>2
<1>4. UNCHANGED <<walk, contexts, contextCount, notVisitedMasterNodes>>
    BY <1>3 DEF Continue, EmitAuthOk
<1>5. CASE \E kind \in {"ping", "info", "slots"} : Continue(kind)
    <2>1. PICK kind \in {"ping", "info", "slots"} : Continue(kind)
        BY <1>5
    <2> DEFINE cmd == [kind |-> kind]
    <2>2. cmd \in HandshakeCommand
        BY DEF HandshakeCommand
    <2>3. inbox' = Append(<<>>, Add(cmd)) /\ outbox' = <<>>
        BY <1>2, <2>1 DEF Continue, At
    <2> HIDE DEF cmd
    <2>4. inbox' = <<Add(cmd)>>
        BY <2>3, Tuples
    <2>5. At(<<Add(cmd)>>, <<>>, <<>>, <<>>, <<>>, <<>>)'
        BY <1>1, <2>3, <2>4 DEF At
    <2>6. Handshakes(w, node)'
        BY <1>1, <1>4, <2>2, <2>5 DEF Handshakes
    <2> QED
        BY <1>1, <1>4, <2>6 DEF OnItsWay, Covers
<1>6. CASE EmitAuthOk
    <2> DEFINE c == [walk |-> w, no |-> contextCount]
               visit == Add(Visit(w))
               ok == [type |-> "authOk"]
    <2>1. /\ inbox' = <<>> \o <<ok>> \o [k \in DOMAIN contexts |->
                                             Add([kind |-> "visit", walk |-> contexts[k].walk])]
          /\ outbox' = Append(<<>>, Deletion)
        BY <1>2, <1>6, Tuples DEF EmitAuthOk, Deletion, At
    <2>2. [k \in DOMAIN contexts |-> Add([kind |-> "visit", walk |-> contexts[k].walk])] = <<visit>>
        <3>1. DOMAIN contexts = {1} /\ contexts[1].walk = w
            BY IsSeqFacts, RangeOne
        <3>2. [k \in DOMAIN contexts |-> Add([kind |-> "visit", walk |-> contexts[k].walk])]
                = [k \in DOMAIN contexts |-> visit]
            BY <3>1 DEF Visit
        <3> HIDE DEF visit
        <3>3. [k \in DOMAIN <<c>> |-> visit] = <<visit>>
            BY Signals
        <3> QED
            BY <3>2, <3>3
    <2> HIDE DEF visit, ok
    <2>3. inbox' = <<ok, visit>>
        <3>1. <<>> \o <<ok>> = <<ok>>
            BY Signals
        <3>2. <<ok>> \o <<visit>> = Append(<<ok>>, visit)
            <4>1. <<ok>> \in Seq({ok, visit}) /\ visit \in {ok, visit}
                OBVIOUS
            <4> QED
                BY <4>1, AppendIsConcat
        <3>3. Append(<<ok>>, visit) = <<ok, visit>>
            BY Tuples
        <3> QED
            BY <2>1, <2>2, <3>1, <3>2, <3>3
    <2>4. outbox' = <<Deletion'>>
        <3>1. Deletion' = Deletion
            BY <1>4 DEF Deletion
        <3> QED
            BY <2>1, <3>1, Tuples
    <2>5. PICK deletion \in {<<Deletion'>>} : TRUE
        OBVIOUS
    <2>6. At(<<ok, visit>>, <<>>, <<>>, <<>>, deletion, <<>>)'
        BY <1>1, <2>3, <2>4, <2>5 DEF At, ok, visit, Add, Visit
    <2>7. deletion # <<>>
        BY <2>5, Tuples
    <2>8. Visits(w, node)'
        BY <1>1, <1>4, <2>5, <2>6, <2>7 DEF Visits, ok, visit
    <2> QED
        BY <1>1, <1>4, <2>8 DEF OnItsWay, Covers
<1> QED
    BY <1>3, <1>5, <1>6


\* The context of the walk is deleted.
LEMMA WalkForgets ==
    ASSUME Shape, NEW w \in Walks, OnItsWay(w), ReceiveSignal, NEW node,
           Visits(w, node), Covers(w, node, notVisitedMasterNodes), Head(outbox) = Deletion
    PROVE  OnItsWay(w)'
<1>1. UNCHANGED <<commands, internalCommands, runningCommands, redirectTimer, requests, nested, config>>
      /\ outbox # <<>>
    BY DEF ReceiveSignal, queueVars, redirectVars, netVars
<1>2. /\ contexts' = Subsequence(contexts, {k \in DOMAIN contexts : contexts[k].no > contextCount})
      /\ outbox' = Tail(outbox)
      /\ UNCHANGED <<inbox, walk, notVisitedMasterNodes, contextCount>>
    <2>1. PICK signal : signal = Head(outbox) /\ signal.type = "deleteLater" /\ signal.upTo = contextCount
        BY DEF Deletion
    <2>2. /\ contexts' = Subsequence(contexts, {k \in DOMAIN contexts : contexts[k].no > signal.upTo})
          /\ outbox' = Tail(outbox)
          /\ UNCHANGED <<inbox, walk, notVisitedMasterNodes, contextCount>>
        BY <2>1, ZenonT(30) DEF ReceiveSignal
    <2> QED
        BY <2>1, <2>2
<1>3. PICK deletion \in {<<>>, <<Deletion>>} :
            /\ config = node
            /\ contexts = IF deletion = <<>> THEN <<>> ELSE <<[walk |-> w, no |-> contextCount]>>
            /\ \/ At(<<[type |-> "authOk"], Add(Visit(w))>>, <<>>, <<>>, <<>>, deletion, <<>>)
               \/ At(<<Add(Visit(w))>>, <<>>, <<>>, <<>>, deletion, <<>>)
               \/ At(<<>>, <<>>, <<Visit(w)>>, <<>>, deletion, <<>>)
               \/ At(<<>>, <<>>, <<>>, <<Visit(w)>>, deletion, <<>>)
               \/ \E reply : /\ reply.node = node
                             /\ At(<<>>, <<>>, <<>>, <<>>, Append(deletion, ReplyTo(Visit(w), reply)), <<>>)
    BY DEF Visits
<1>4. deletion = <<Deletion>>
    <2>1. ASSUME deletion = <<>>
          PROVE  FALSE
        <3>1. \A reply : outbox # <<ReplyTo(Visit(w), reply)>>
            BY Tuples DEF Deletion, ReplyTo
        <3>2. \A reply : Append(<<>>, ReplyTo(Visit(w), reply)) = <<ReplyTo(Visit(w), reply)>>
            BY Tuples
        <3> QED
            BY <1>1, <1>3, <2>1, <3>1, <3>2 DEF At
    <2> QED
        BY <1>3, <2>1
<1>5. contexts' = <<>>
    <2> DEFINE c == [walk |-> w, no |-> contextCount]
               I == {k \in DOMAIN contexts : contexts[k].no > contextCount}
    <2>1. contexts = <<c>> /\ c.no = contextCount
        BY <1>3, <1>4, Tuples
    <2> HIDE DEF c
    <2>2. DOMAIN contexts = {1} /\ contexts[1] = c /\ contexts \in Seq({c})
        BY <2>1, IsSeqFacts, RangeOne
    <2>3. I = {}
        BY <2>1, <2>2 DEF Shape
    <2> HIDE DEF I
    <2>4. I \subseteq DOMAIN contexts /\ contexts' = Subsequence(contexts, I)
        BY <1>2, <2>3 DEF I
    <2>5. contexts' \in Seq({c}) /\ Len(contexts') = 0
        BY <2>2, <2>3, <2>4, SubsequenceElements, FS_EmptySet
    <2> QED
        BY <2>5, EmptySeq
<1>6. ASSUME outbox = <<Deletion>>
      PROVE  outbox' = <<>>
    BY <1>2, <1>6, Tuples
<1>7. ASSUME NEW reply, outbox = Append(<<Deletion>>, ReplyTo(Visit(w), reply))
      PROVE  outbox' = Append(<<>>, ReplyTo(Visit(w), reply))
    <2> DEFINE a == Deletion
               b == ReplyTo(Visit(w), reply)
    <2> HIDE DEF a, b
    <2>1. Append(<<a>>, b) = <<a, b>> /\ Tail(<<a, b>>) = <<b>> /\ Append(<<>>, b) = <<b>>
        BY Tuples
    <2>2. outbox = Append(<<a>>, b)
        BY <1>7 DEF a, b
    <2>3. outbox' = Append(<<>>, b)
        BY <1>2, <2>1, <2>2
    <2> QED
        BY <2>3 DEF b
<1>8. \/ At(<<[type |-> "authOk"], Add(Visit(w))>>, <<>>, <<>>, <<>>, <<>>, <<>>)'
      \/ At(<<Add(Visit(w))>>, <<>>, <<>>, <<>>, <<>>, <<>>)'
      \/ At(<<>>, <<>>, <<Visit(w)>>, <<>>, <<>>, <<>>)'
      \/ At(<<>>, <<>>, <<>>, <<Visit(w)>>, <<>>, <<>>)'
      \/ \E reply : /\ reply.node = node
                    /\ At(<<>>, <<>>, <<>>, <<>>, Append(<<>>, ReplyTo(Visit(w), reply)), <<>>)'
    BY <1>1, <1>2, <1>3, <1>4, <1>6, <1>7 DEF At
<1>9. Visits(w, node)'
    BY <1>1, <1>3, <1>5, <1>8 DEF Visits
<1> QED
    BY <1>1, <1>2, <1>9 DEF OnItsWay, Covers

\* A node has answered the command of the walk.
LEMMA WalkGoesToNext ==
    ASSUME Shape, NEW w \in Walks, OnItsWay(w), ReceiveSignal, NEW node, NEW reply,
           config = node, Covers(w, node, notVisitedMasterNodes), contexts = <<>>,
           reply.node = node, At(<<>>, <<>>, <<>>, <<>>, <<ReplyTo(Visit(w), reply)>>, <<>>)
    PROVE  OnItsWay(w)' \/ Done(w)'
<1>1. UNCHANGED <<commands, internalCommands, runningCommands, redirectTimer, requests, nested>>
    BY DEF ReceiveSignal, queueVars, redirectVars, netVars
<1>2. Head(outbox) = ReplyTo(Visit(w), reply) /\ Tail(outbox) = <<>>
    BY Tuples DEF At
<1>3. WalkGoesOn(w, Visit(w), reply)
    BY <1>2 DEF ReceiveSignal, ReplyTo, Visit
<1>0. PICK hosts : hosts = notVisitedMasterNodes
    OBVIOUS
<1> DEFINE visited == Append(walk[w].visited, node)
           calls == IF hosts = <<>> THEN 1 ELSE 0
<1>4. /\ ConnectToNextMasterNode(w, hosts)
      /\ walk' = [walk EXCEPT ![w].visited = Append(@, node),
                              ![w].calls = IF hosts = <<>> THEN @ + 1 ELSE @]
    BY <1>0, <1>3 DEF WalkGoesOn, Visit
<1>5. walk'[w].visited = visited /\ walk'[w].calls = calls /\ walk'[w].masters = walk[w].masters
    <2> DEFINE r == [walk[w] EXCEPT !["visited"] = visited]
    <2>1. walk[w].calls = 0
        BY DEF OnItsWay
    <2>2. walk' = [walk EXCEPT ![w] = [r EXCEPT !["calls"] = calls]]
        <3>1. IF hosts = <<>> THEN calls = walk[w].calls + 1 ELSE calls = walk[w].calls
            BY <2>1
        <3> HIDE DEF calls
        <3>2. walk' = [walk EXCEPT ![w] = [r EXCEPT !["calls"] =
                                               IF hosts = <<>> THEN walk[w].calls + 1 ELSE walk[w].calls]]
            BY <1>4 DEF Shape
        <3> QED
            BY <3>1, <3>2
    <2>3. /\ DOMAIN r = {"masters", "visited", "calls", "started", "alone"}
          /\ r.visited = visited /\ r.masters = walk[w].masters
        BY DEF Shape
    <2> HIDE DEF r, visited, calls
    <2>4. walk'[w] = [r EXCEPT !["calls"] = calls]
        BY <2>2 DEF Shape
    <2> QED
        BY <2>3, <2>4
<1>6. /\ IsSeq(visited) /\ Range(visited) = Range(walk[w].visited) \union {node}
      /\ Len(walk[w].visited) \in Nat /\ Len(visited) = Len(walk[w].visited) + 1
    BY RangeAppend DEF Covers
<1>7. /\ IsSeq(hosts) /\ Range(visited) \union Range(hosts) = walk[w].masters
      /\ Len(visited) + Len(hosts) = Cardinality(walk[w].masters)
    BY <1>0, <1>6 DEF Covers
<1> HIDE DEF visited
<1>8. CASE hosts = <<>>
    <2>1. UNCHANGED <<contexts, inbox>> /\ outbox' = <<>>
        BY <1>2, <1>4, <1>8 DEF ConnectToNextMasterNode
    <2>2. /\ contexts' = <<>> /\ inbox' = <<>> /\ commands' = <<>> /\ internalCommands' = <<>>
          /\ runningCommands' = <<>> /\ outbox' = <<>>
        BY <1>1, <2>1 DEF At
    <2>3. NothingOf(w)'
        BY <2>2, RangeEmpty DEF NothingOf
    <2>4. /\ walk'[w].calls = 1 /\ Range(walk'[w].visited) = walk'[w].masters
          /\ Len(walk'[w].visited) = Cardinality(walk'[w].masters)
        BY <1>5, <1>6, <1>7, <1>8, RangeEmpty
    <2> QED
        BY <2>3, <2>4 DEF Done, WalkAlone
<1>9. CASE hosts # <<>>
    <2>1. PICK next : next = Head(hosts)
        OBVIOUS
    <2>2. Goes(w, next)' /\ notVisitedMasterNodes' = Tail(hosts)
        <3>1. Goes(w, Head(hosts))' /\ notVisitedMasterNodes' = Tail(hosts)
            BY <1>1, <1>4, <1>9, GoesToNext
        <3> QED
            BY <2>1, <3>1
    <2>3. /\ IsSeq(Tail(hosts)) /\ Range(hosts) = {next} \union Range(Tail(hosts))
          /\ Len(Tail(hosts)) = Len(hosts) - 1 /\ Len(hosts) \in Nat
        BY <1>7, <1>9, <2>1, RangeTail
    <2>4. Covers(w, next, notVisitedMasterNodes)'
        <3>1. Range(visited) \union {next} \union Range(Tail(hosts)) = walk[w].masters
            BY <1>7, <2>3
        <3>2. Len(visited) + 1 + Len(Tail(hosts)) = Cardinality(walk[w].masters)
            <4>1. Len(hosts) \in Nat /\ Len(Tail(hosts)) = Len(hosts) - 1
                BY <2>3
            <4>2. Len(visited) \in Nat
                BY <1>6
            <4>3. Len(visited) + Len(hosts) = Cardinality(walk[w].masters)
                BY <1>7
            <4>4. \A a, b \in Nat : a + 1 + (b - 1) = a + b
                OBVIOUS
            <4> QED
                BY <4>1, <4>2, <4>3, <4>4
        <3> QED
            BY <1>5, <1>6, <2>2, <2>3, <3>1, <3>2 DEF Covers
    <2>5. redirectTimer' = <<>> /\ walk'[w].calls = 0
        BY <1>1, <1>5, <1>9 DEF OnItsWay
    <2> QED
        BY <2>2, <2>4, <2>5 DEF OnItsWay
<1> QED
    BY <1>8, <1>9

LEMMA WalkSignals ==
    ASSUME TypeOK, Shape, NEW w \in Walks, OnItsWay(w), ReceiveSignal
    PROVE  OnItsWay(w)' \/ Done(w)'
<1>1. outbox # <<>>
    BY DEF ReceiveSignal
<1>2. CASE Asks(w) /\ walk[w].visited = <<>>
    <2>1. PICK reply : At(<<>>, <<>>, <<>>, <<>>, <<ReplyTo(Masters(w), reply)>>, <<>>)
        BY <1>1, <1>2 DEF Asks, At
    <2>2. contexts = <<>>
        BY <1>2 DEF Asks
    <2> QED
        BY <1>2, <2>1, <2>2, WalkSetsOut
<1>3. ASSUME NEW node, Goes(w, node) \/ Handshakes(w, node), Covers(w, node, notVisitedMasterNodes)
      PROVE  OnItsWay(w)'
    <2>1. PICK e : /\ At(<<>>, <<>>, <<>>, <<>>, <<e>>, <<>>)
                   /\ \/ e = [type |-> "connected"]
                      \/ \E cmd \in HandshakeCommand : \E reply :
                             PongToPing(cmd, reply) /\ e = ReplyTo(cmd, reply)
        BY <1>1, <1>3 DEF Goes, Handshakes, At
    <2>2. config = node /\ contexts = <<[walk |-> w, no |-> contextCount]>>
        BY <1>1, <1>3 DEF Goes, Handshakes, At
    <2> QED
        BY <1>3, <2>1, <2>2, WalkShakesHands
<1>4. ASSUME NEW node, Visits(w, node), Covers(w, node, notVisitedMasterNodes)
      PROVE  OnItsWay(w)' \/ Done(w)'
    <2>1. PICK deletion \in {<<>>, <<Deletion>>} :
            /\ config = node
            /\ contexts = IF deletion = <<>> THEN <<>> ELSE <<[walk |-> w, no |-> contextCount]>>
            /\ \/ outbox = deletion
               \/ \E reply : /\ reply.node = node
                             /\ At(<<>>, <<>>, <<>>, <<>>, Append(deletion, ReplyTo(Visit(w), reply)), <<>>)
        BY <1>4 DEF Visits, At
    <2>2. CASE deletion = <<Deletion>>
        <3>1. \A reply : Head(Append(<<Deletion>>, ReplyTo(Visit(w), reply))) = Deletion
            BY Tuples
        <3>2. Head(outbox) = Deletion
            BY <2>1, <2>2, <3>1, Tuples DEF At
        <3> QED
            BY <1>4, <3>2, WalkForgets
    <2>3. CASE deletion = <<>>
        <3>1. PICK reply : /\ reply.node = node
                           /\ At(<<>>, <<>>, <<>>, <<>>, Append(<<>>, ReplyTo(Visit(w), reply)), <<>>)
            BY <1>1, <2>1, <2>3
        <3>2. Append(<<>>, ReplyTo(Visit(w), reply)) = <<ReplyTo(Visit(w), reply)>>
            BY Tuples
        <3> QED
            BY <1>4, <2>1, <2>3, <3>1, <3>2, WalkGoesToNext
    <2> QED
        BY <2>1, <2>2, <2>3
<1> QED
    BY <1>1, <1>2, <1>3, <1>4 DEF OnItsWay, NoCall, At


\* Only its start changes whether a walk has started, or has the connection to itself again.
LEMMA WalkKeeps ==
    ASSUME Shape, NEW w \in Walks, Next, ~StartWalk(w)
    PROVE  walk'[w].started = walk[w].started /\ (walk'[w].alone => walk[w].alone)
<1>1. SameWalk(w) => walk'[w].started = walk[w].started /\ (walk'[w].alone => walk[w].alone)
    BY DEF SameWalk
<1>2. CASE \E slot \in Slots : Submit(slot)
    <2>1. walk' = Disturbed({})
        BY <1>2 DEF Submit
    <2> QED
        BY <1>1, <2>1, DisturbedWalks
<1>3. CASE \E v \in Walks : StartWalk(v)
    <2>1. PICK v \in Walks : v # w /\ StartWalk(v)
        BY <1>3
    <2>2. walk' = [Disturbed({v}) EXCEPT ![v].started = TRUE, ![v].alone = Idle]
        BY <2>1 DEF StartWalk
    <2>3. walk'[w] = [walk[w] EXCEPT !["alone"] = walk[w].alone /\ ~Active(w)]
        BY <2>1, <2>2 DEF Disturbed
    <2> QED
        BY <2>3 DEF Shape
<1>4. CASE ReceiveSignal
    <2>1. \/ walk' = walk
          \/ \E v, cmd, reply : WalkGoesOn(v, cmd, reply)
        BY <1>4 DEF ReceiveSignal, Continue, Handshake, EmitAuthOk
    <2>2. ASSUME NEW v, NEW cmd, NEW reply, WalkGoesOn(v, cmd, reply)
          PROVE  walk'[w].started = walk[w].started /\ walk'[w].alone = walk[w].alone
        <3> DEFINE r == [walk[v] EXCEPT !["visited"] = Append(walk[v].visited, reply.node)]
                   calls == IF notVisitedMasterNodes = <<>> THEN walk[v].calls + 1 ELSE walk[v].calls
                   masters == Range(SlotsIn(reply))
        <3>1. CASE v # w
            BY <2>2, <3>1 DEF WalkGoesOn, Shape
        <3>2. CASE v = w
            <4>1. DOMAIN walk[w] = {"masters", "visited", "calls", "started", "alone"} /\ DOMAIN walk = Walks
                BY DEF Shape
            <4>2. \/ walk' = [walk EXCEPT ![w] = [walk[w] EXCEPT !["masters"] = masters]]
                  \/ walk' = [walk EXCEPT ![w] = [r EXCEPT !["calls"] = calls]]
                BY <2>2, <3>2, <4>1 DEF WalkGoesOn
            <4>3. r.started = walk[w].started /\ r.alone = walk[w].alone /\ DOMAIN r = DOMAIN walk[w]
                BY <3>2, <4>1
            <4> HIDE DEF r, calls, masters
            <4>4. \/ walk'[w] = [walk[w] EXCEPT !["masters"] = masters]
                  \/ walk'[w] = [r EXCEPT !["calls"] = calls]
                BY <4>1, <4>2
            <4> QED
                BY <4>1, <4>3, <4>4
        <3> QED
            BY <3>1, <3>2
    <2> QED
        BY <2>1, <2>2
<1>5. CASE InboxNext \/ RedirectTimer \/ QueueNext \/ AbortRedirects \/ FollowRedirect
    <2>1. walk' = walk
        BY <1>5, TransporterLeavesWalks
    <2> QED
        BY <2>1
<1>6. CASE \/ ConnectSucceeds \/ CompleteCommand
           \/ \E slot \in Slots, node \in Nodes : MoveSlot(slot, node)
    BY <1>6 DEF ConnectSucceeds, CompleteCommand, MoveSlot, historyVars
<1> QED
    BY <1>2, <1>3, <1>4, <1>5, <1>6 DEF Next, CallerNext, ReplyNext

\* What a walk that has the connection to itself is at, it takes further.
LEMMA WalkGoes ==
    ASSUME LineInvariant, TypeOK, Shape, WalksGo, NEW w \in Walks, OnItsWay(w), Next,
           Active(w), walk'[w].alone
    PROVE  OnItsWay(w)' \/ Done(w)'
<1>1. ~\E slot \in Slots : Submit(slot)
    <2>1. walk' = Disturbed({}) => ~walk'[w].alone
        BY DisturbedWalks
    <2> QED
        BY <2>1 DEF Submit
<1>2. ~\E v \in Walks : StartWalk(v)
    <2> SUFFICES ASSUME NEW v \in Walks, StartWalk(v) PROVE FALSE
        OBVIOUS
    <2>1. walk' = [Disturbed({v}) EXCEPT ![v].started = TRUE, ![v].alone = Idle] /\ v # w
        BY DEF StartWalk, Active
    <2>2. walk'[w] = [walk[w] EXCEPT !["alone"] = walk[w].alone /\ ~Active(w)]
        BY <2>1 DEF Disturbed
    <2> QED
        BY <2>2 DEF Shape
<1>3. ~RedirectTimer
    BY DEF RedirectTimer, OnItsWay
<1>4. ASSUME NEW slot, NEW node, MoveSlot(slot, node)
      PROVE  OnItsWay(w)'
    <2>1. UNCHANGED <<walk, contexts, contextCount, redirectTimer, notVisitedMasterNodes, inbox, outbox,
                      internalCommands, commands, runningCommands, requests, nested, config>>
        BY <1>4 DEF MoveSlot, callerVars, queueVars, redirectVars, netVars, historyVars
    <2> QED
        BY <2>1 DEF OnItsWay, Asks, Goes, Handshakes, Visits, NoCall, At, Deletion, Covers
<1> QED
    BY <1>1, <1>2, <1>3, <1>4, WalkSignals, WalkInbox, WalkConnects, WalkQueue, WalkReplies
    DEF Next, CallerNext

LEMMA InitWalks == Init => WalksGo
<1> SUFFICES ASSUME Init, NEW w \in Walks
             PROVE  ~walk[w].started /\ NothingOf(w) /\ walk[w].visited = <<>> /\ walk[w].calls = 0
    BY DEF WalksGo, Active
<1> QED
    BY RangeEmpty DEF Init, NothingOf

LEMMA WalksStep ==
    ASSUME LineInvariant, TypeOK, Shape, WalksGo, [Next]_vars
    PROVE  WalksGo'
<1>1. CASE UNCHANGED vars
    BY <1>1 DEF vars, callerVars, queueVars, redirectVars, netVars, clusterVars, historyVars, WalksGo, Active,
                NothingOf, Done, WalkAlone, OnItsWay, Asks, Goes, Handshakes, Visits, NoCall, At, Deletion, Covers
<1>2. CASE Next
    <2> SUFFICES ASSUME NEW w \in Walks
                 PROVE  /\ ~walk'[w].started => NothingOf(w)' /\ walk'[w].visited = <<>> /\ walk'[w].calls = 0
                        /\ walk'[w].alone /\ Active(w)' => OnItsWay(w)'
                        /\ walk'[w].alone /\ walk'[w].calls > 0 => Done(w)'
        BY DEF WalksGo
    <2>1. CASE StartWalk(w)
        <3>1. walk'[w].started /\ walk'[w].calls = 0
            <4>1. walk' = [Disturbed({w}) EXCEPT
                             ![w] = [[walk[w] EXCEPT !["started"] = TRUE] EXCEPT !["alone"] = Idle]]
                <5>1. Disturbed({w})[w] = walk[w]
                    BY DEF Disturbed
                <5> QED
                    BY <2>1, <5>1 DEF StartWalk
            <4>2. walk'[w] = [[walk[w] EXCEPT !["started"] = TRUE] EXCEPT !["alone"] = Idle]
                BY <4>1 DEF Disturbed
            <4>3. walk[w].calls = 0
                BY <2>1 DEF StartWalk, WalksGo
            <4> QED
                BY <4>2, <4>3 DEF Shape
        <3> QED
            BY <2>1, <3>1, WalkStart
    <2>2. CASE ~StartWalk(w) /\ NothingOf(w) /\ ~(walk[w].alone /\ Active(w))
        <3>1. NothingOf(w)' /\ SameWalk(w)
            BY <1>2, <2>2, NothingStays
        <3>2. ~walk[w].started => walk[w].visited = <<>> /\ walk[w].calls = 0
            BY DEF WalksGo
        <3>3. walk[w].alone /\ walk[w].calls > 0 => Done(w)
            BY DEF WalksGo
        <3>4. walk'[w].alone /\ walk'[w].calls > 0 => Done(w)'
            BY <3>1, <3>3 DEF SameWalk, Done, WalkAlone
        <3> QED
            BY <2>2, <3>1, <3>2, <3>4 DEF SameWalk, Active
    <2>3. CASE walk[w].alone /\ Active(w)
        <3>1. OnItsWay(w)
            BY <2>3 DEF WalksGo
        <3>2. walk'[w].alone => OnItsWay(w)' \/ Done(w)'
            BY <1>2, <2>3, <3>1, WalkGoes
        <3>3. walk'[w].started
            <4>1. ~StartWalk(w) /\ walk[w].started
                BY <2>3 DEF StartWalk, Active
            <4> QED
                BY <1>2, <4>1, WalkKeeps
        <3> QED
            BY <3>2, <3>3 DEF OnItsWay, Done, Active
    <2>4. CASE ~StartWalk(w) /\ ~NothingOf(w) /\ ~(walk[w].alone /\ Active(w))
        <3>1. walk[w].started /\ ~walk[w].alone
            BY <2>4 DEF WalksGo, Active, Shape, Done
        <3>2. walk'[w].started /\ ~walk'[w].alone
            BY <1>2, <2>4, <3>1, WalkKeeps
        <3> QED
            BY <3>2
    <2> QED
        BY <2>1, <2>2, <2>3, <2>4
<1> QED
    BY <1>1, <1>2

\* A walk that has the connection to itself calls back once, when each of the
\* masters that the cluster named has been visited, once (getClusterKeys and
\* flushDbKeys, over clusterConnectToNextMasterNode).
THEOREM UndisturbedWalkVisitsAll == Spec => []UndisturbedWalk
<1>1. Init => WalksGo
    BY InitWalks
<1>2. LineInvariant /\ Types /\ WalksGo /\ [Next]_vars => WalksGo'
    BY TypesShape, WalksStep DEF Types
<1>3. LineInvariant /\ Types /\ WalksGo => UndisturbedWalk
    BY TypesShape DEF Types, Shape, WalksGo, UndisturbedWalk, Done, WalkAlone
<1> QED
    BY <1>1, <1>2, <1>3, TypesInvariant, PTL DEF Spec

=============================================================================

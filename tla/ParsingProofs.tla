---------------------------- MODULE ParsingProofs ----------------------------
(***************************************************************************)
(* The two parsers: what comes from the server is read in order            *)
(* (RepliesInOrder, about Reader), and what the user types arrives as it   *)
(* was meant (ArgumentsArrive) and is hashed as the server hashes it       *)
(* (SlotIsTheServers, both about Text).                                    *)
(***************************************************************************)
EXTENDS Reader, Text, SubsequencesProofs

Fragments == [reply : Nat \ {0}, part : 1..MaxSize, size : 1..MaxSize]
Replies == [reply : Nat \ {0}, pure : BOOLEAN]

ReaderTypes ==
    /\ sent \in Nat /\ first \in Nat \ {0} /\ first <= sent + 1
    /\ wire \in Seq(Fragments) /\ available \in Seq(Fragments) /\ buffer \in Seq(Fragments)
    /\ delivered \in Seq(Replies)
    /\ torn \in BOOLEAN /\ broken \in BOOLEAN

\* Nothing is read that was not sent.
Sent(s) == \A i \in DOMAIN s : s[i].reply <= sent
NothingElse == Sent(wire) /\ Sent(available) /\ Sent(buffer) /\ Sent(delivered)

\* The replies from r on, the last one perhaps cut off.
Follows(f, g) ==
    IF f.part < f.size THEN g.reply = f.reply /\ g.part = f.part + 1 /\ g.size = f.size
    ELSE g.reply = f.reply + 1 /\ g.part = 1
Stream(s, r) ==
    /\ s # <<>> => s[1].reply = r /\ s[1].part = 1
    /\ \A i \in 1..(Len(s) - 1) : Follows(s[i], s[i + 1])

\* The replies from r on are all in the stream.
Whole(s, r) ==
    IF s = <<>> THEN r = sent + 1
    ELSE s[Len(s)].reply = sent /\ s[Len(s)].part = s[Len(s)].size

\* What is in the reader is the beginning of one reply.
Begun(s) == \A i \in DOMAIN s : s[i].part < s[i].size /\ s[i].reply = s[1].reply

OnTheWay == buffer \o available \o wire

InOrder ==
    \E old \in 0..Len(delivered) :
        /\ \A k \in 1..old : delivered[k].reply < first
        /\ \A k \in 1..(Len(delivered) - old) :
               delivered[old + k] = [reply |-> first + k - 1, pure |-> TRUE]
        /\ Stream(OnTheWay, first + Len(delivered) - old)
        /\ Whole(OnTheWay, first + Len(delivered) - old)

ReaderInvariant ==
    /\ ReaderTypes
    /\ NothingElse
    /\ ~torn => ~broken /\ Begun(buffer) /\ InOrder

-----------------------------------------------------------------------------
(* Where the replies end. *)

\* The end of a reply that begins behind p.
After(s, p) == IF p < Len(s) THEN p + s[p + 1].size ELSE Len(s) + MaxSize

LEMMA FragmentFacts ==
    ASSUME NEW s \in Seq(Fragments), NEW i \in 1..Len(s)
    PROVE  /\ s[i].reply \in Nat \ {0}
           /\ s[i].part \in Nat \ {0} /\ s[i].part <= MaxSize
           /\ s[i].size \in Nat \ {0} /\ s[i].size <= MaxSize
<1>1. s[i] \in Fragments
    BY SeqFacts
<1>2. MaxSize \in Nat
    BY BoundsAssumption
<1> QED
    BY <1>1, <1>2 DEF Fragments

LEMMA AfterFacts ==
    ASSUME NEW s \in Seq(Fragments), NEW p \in Nat
    PROVE  After(s, p) \in Nat /\ (After(s, p) <= Len(s) => p < After(s, p) /\ p < Len(s))
<1>1. PICK n \in Nat, m \in Nat \ {0} : n = Len(s) /\ m = MaxSize
    BY SeqFacts, BoundsAssumption
<1>2. CASE p < n
    <2>1. p + 1 \in 1..Len(s)
        BY <1>1, <1>2
    <2>2. s[p + 1].size \in Nat \ {0}
        BY <2>1, FragmentFacts
    <2>3. After(s, p) = p + s[p + 1].size
        BY <1>1, <1>2 DEF After
    <2> QED
        BY <1>1, <1>2, <2>2, <2>3
<1>3. CASE ~(p < n)
    <2>1. After(s, p) = n + m
        BY <1>1, <1>3 DEF After
    <2> QED
        BY <1>1, <2>1
<1> QED
    BY <1>2, <1>3

\* The recursive function exists, and so it satisfies its equation.
LEMMA EndsFacts ==
    ASSUME NEW s \in Seq(Fragments), NEW n \in Nat, Len(s) = n
    PROVE  /\ Ends(s) \in [0..n -> Nat] /\ Ends(s)[0] = 0
           /\ \A k \in 1..n : Ends(s)[k] = After(s, Ends(s)[k - 1])
<1> DEFINE Solves(f, m) == /\ f \in [0..m -> Nat] /\ f[0] = 0
                           /\ \A k \in 1..m : f[k] = After(s, f[k - 1])
           last[k \in 0..Len(s)] ==
               IF k = 0 THEN 0
               ELSE LET before == last[k - 1]
                    IN  IF before < Len(s) THEN before + s[before + 1].size
                        ELSE Len(s) + MaxSize
<1>1. \A m \in Nat : \E f : Solves(f, m)
    <2> DEFINE T == {m \in Nat : \E f : Solves(f, m)}
    <2>1. 0 \in T
        <3>1. Solves([k \in 0..0 |-> 0], 0)
            OBVIOUS
        <3> QED
            BY <3>1
    <2>2. ASSUME NEW m \in Nat, NEW f, Solves(f, m) PROVE \E g : Solves(g, m + 1)
        <3> DEFINE e == After(s, f[m])
                   g == [k \in 0..(m + 1) |-> IF k = m + 1 THEN e ELSE f[k]]
        <3>1. e \in Nat
            <4>1. f[m] \in Nat
                BY <2>2
            <4> QED
                BY <4>1, AfterFacts
        <3> HIDE DEF e
        <3>2. g \in [0..(m + 1) -> Nat] /\ g[0] = 0
            BY <2>2, <3>1
        <3>3. ASSUME NEW k \in 1..(m + 1) PROVE g[k] = After(s, g[k - 1])
            <4>1. CASE k = m + 1
                <5>1. k - 1 = m /\ k - 1 \in 0..(m + 1) /\ k - 1 # m + 1 /\ k \in 0..(m + 1)
                    BY <4>1
                <5>2. g[k] = e /\ g[k - 1] = f[m]
                    BY <4>1, <5>1
                <5> QED
                    BY <5>2 DEF e
            <4>2. CASE k # m + 1
                <5>1. k \in 1..m /\ k \in 0..(m + 1) /\ k - 1 \in 0..(m + 1) /\ k - 1 # m + 1
                    BY <4>2
                <5>2. g[k] = f[k] /\ g[k - 1] = f[k - 1]
                    BY <4>2, <5>1
                <5> HIDE DEF g
                <5> QED
                    BY <2>2, <5>1, <5>2
            <4> QED
                BY <4>1, <4>2
        <3>4. Solves(g, m + 1)
            <4> HIDE DEF g
            <4> QED
                BY <3>2, <3>3
        <3> QED
            BY <3>4
    <2>3. \A m \in Nat : m \in T => m + 1 \in T
        <3> HIDE DEF Solves
        <3> SUFFICES ASSUME NEW m \in Nat, m \in T PROVE m + 1 \in T
            OBVIOUS
        <3>1. PICK f : Solves(f, m)
            OBVIOUS
        <3>2. \E g : Solves(g, m + 1)
            BY <2>2, <3>1
        <3> QED
            BY <3>2
    <2> HIDE DEF T
    <2>4. \A m \in Nat : m \in T
        BY <2>1, <2>3, Induction
    <2> QED
        BY <2>4 DEF T
<1>2. PICK f : Solves(f, n)
    <2> HIDE DEF Solves
    <2> QED
        BY <1>1
<1>3. f = [k \in 0..n |-> IF k = 0 THEN 0 ELSE After(s, f[k - 1])]
    BY <1>2
<1>4. Ends(s) = last
    BY DEF Ends
<1>5. last = CHOOSE g : g = [k \in 0..n |-> IF k = 0 THEN 0 ELSE After(s, g[k - 1])]
    BY DEF After, last
<1>6. last = [k \in 0..n |-> IF k = 0 THEN 0 ELSE After(s, last[k - 1])]
    <2> HIDE DEF last
    <2> QED
        BY <1>3, <1>5
<1> HIDE DEF last
<1>7. \A k \in 0..n : last[k] \in Nat
    <2> DEFINE T == {k \in Nat : k \in 0..n => last[k] \in Nat}
    <2>1. 0 \in T
        BY <1>6
    <2>2. ASSUME NEW k \in Nat, k \in T, k + 1 \in 0..n PROVE last[k + 1] \in Nat
        <3>1. last[k] \in Nat
            BY <2>2
        <3>2. last[k + 1] = After(s, last[(k + 1) - 1])
            BY <1>6, <2>2
        <3>3. (k + 1) - 1 = k
            OBVIOUS
        <3> QED
            BY <3>1, <3>2, <3>3, AfterFacts
    <2>3. \A k \in Nat : k \in T => k + 1 \in T
        BY <2>2
    <2> HIDE DEF T
    <2>4. \A k \in Nat : k \in T
        BY <2>1, <2>3, Induction
    <2> QED
        BY <2>4 DEF T
<1>8. \A k \in 1..n : last[k] = After(s, last[k - 1])
    BY <1>6
<1>9. last \in [0..n -> Nat] /\ last[0] = 0
    BY <1>6, <1>7
<1> QED
    BY <1>4, <1>8, <1>9

-----------------------------------------------------------------------------
(* What is read, of any stream. *)

\* The definitions of GetReplies.
Begins(s, k) == Ends(s)[k - 1] + 1
Errors(s) == {k \in DOMAIN s : Begins(s, k) <= Len(s) /\ s[Begins(s, k)].part # 1}
Complete(s) == {k \in DOMAIN s : Ends(s)[k] <= Len(s) /\ \A e \in Errors(s) : k < e}
Count(s) == Cardinality(Complete(s))
Reply(s, k) ==
    [reply |-> s[Begins(s, k)].reply,
     pure |-> \A f \in {s[i] : i \in Begins(s, k)..Len(s) \cap 1..Ends(s)[k]} :
                 f.reply = s[Begins(s, k)].reply]
Rest(s) == IF Errors(s) # {} THEN <<>> ELSE SubSeq(s, Ends(s)[Count(s)] + 1, Len(s))

LEMMA GetRepliesIs ==
    ASSUME NEW s
    PROVE  /\ GetReplies(s).replies = [k \in 1..Count(s) |-> Reply(s, k)]
           /\ GetReplies(s).error = (Errors(s) # {})
           /\ GetReplies(s).rest = Rest(s)
BY DEF GetReplies, Begins, Errors, Complete, Count, Reply, Rest, Taken, IsComplete

\* The replies that are complete are the first ones.
LEMMA CountFacts ==
    ASSUME NEW s \in Seq(Fragments), NEW n \in Nat, Len(s) = n
    PROVE  /\ Count(s) \in 0..n /\ Complete(s) = 1..Count(s)
           /\ \A k \in 1..Count(s) : /\ Ends(s)[k] \in 1..n /\ Ends(s)[k - 1] \in 0..n
                                     /\ Ends(s)[k - 1] < Ends(s)[k]
           /\ Ends(s)[Count(s)] \in 0..n
<1> DEFINE last == Ends(s)
<1>1. last \in [0..n -> Nat] /\ last[0] = 0 /\ \A k \in 1..n : last[k] = After(s, last[k - 1])
    BY EndsFacts
<1> HIDE DEF last
<1>2. ASSUME NEW k \in 1..n, last[k] <= n
      PROVE  last[k] \in 1..n /\ last[k - 1] \in 0..n /\ last[k - 1] < last[k]
    <2>1. k \in 0..n /\ k - 1 \in 0..n
        OBVIOUS
    <2>2. last[k] \in Nat /\ last[k - 1] \in Nat
        BY <1>1, <2>1
    <2>3. last[k - 1] < last[k]
        BY <1>1, <1>2, <2>2, AfterFacts
    <2> QED
        BY <1>2, <2>2, <2>3
<1>3. DOMAIN s = 1..n
    BY SeqFacts
<1>4. Complete(s) = {k \in 1..n : last[k] <= n /\ \A e \in Errors(s) : k < e}
    BY <1>3 DEF Complete, last
<1>5. \A e \in Errors(s) : e \in Nat
    BY <1>3 DEF Errors
<1>6. ASSUME NEW k \in Complete(s), k # 1 PROVE k - 1 \in Complete(s)
    <2>1. k \in 1..n /\ last[k] <= n /\ \A e \in Errors(s) : k < e
        BY <1>4
    <2>2. k - 1 \in 1..n
        BY <1>6, <2>1
    <2>3. last[k - 1] \in 0..n
        BY <1>2, <2>1
    <2>4. \A e \in Errors(s) : k - 1 < e
        BY <1>5, <2>1
    <2> QED
        BY <1>4, <2>2, <2>3, <2>4
<1>7. Complete(s) \subseteq 1..n
    BY <1>4
<1>8. Count(s) \in 0..n /\ Complete(s) = 1..Count(s)
    BY <1>6, <1>7, FirstPlaces DEF Count
<1>9. \A k \in 1..Count(s) : last[k] \in 1..n /\ last[k - 1] \in 0..n /\ last[k - 1] < last[k]
    BY <1>2, <1>4, <1>8
<1>10. last[Count(s)] \in 0..n
    <2>1. CASE Count(s) = 0
        BY <1>1, <2>1
    <2>2. CASE Count(s) # 0
        <3>1. Count(s) \in 1..Count(s)
            BY <1>8, <2>2
        <3> QED
            BY <1>9, <3>1
    <2> QED
        BY <2>1, <2>2
<1> QED
    BY <1>8, <1>9, <1>10 DEF last

\* What is read was there.
LEMMA ReadTypes ==
    ASSUME NEW s \in Seq(Fragments), sent \in Nat, Sent(s)
    PROVE  /\ GetReplies(s).replies \in Seq(Replies) /\ Sent(GetReplies(s).replies)
           /\ GetReplies(s).rest \in Seq(Fragments) /\ Sent(GetReplies(s).rest)
           /\ GetReplies(s).error \in BOOLEAN
<1>1. PICK n \in Nat : Len(s) = n
    BY SeqFacts
<1>2. PICK c \in 0..n : c = Count(s)
    BY <1>1, CountFacts
<1> DEFINE got == [k \in 1..c |-> Reply(s, k)]
<1>3. ASSUME NEW k \in 1..c PROVE Reply(s, k) \in Replies /\ Reply(s, k).reply <= sent
    <2>1. Ends(s)[k - 1] \in 0..n /\ Ends(s)[k - 1] < Ends(s)[k] /\ Ends(s)[k] \in 1..n
        BY <1>1, <1>2, CountFacts
    <2>2. PICK b \in 1..n : b = Begins(s, k)
        BY <2>1 DEF Begins
    <2>3. s[b].reply \in Nat \ {0} /\ s[b].reply <= sent
        BY <1>1, <2>2, FragmentFacts, SeqFacts DEF Sent
    <2>4. Reply(s, k) \in [reply : {s[b].reply}, pure : BOOLEAN]
        BY <2>2 DEF Reply
    <2> QED
        BY <2>3, <2>4 DEF Replies
<1>4. got \in Seq(Replies) /\ Sent(got)
    <2>1. got \in Seq(Replies) /\ Len(got) = c
        BY <1>2, <1>3
    <2>2. \A k \in 1..c : got[k].reply <= sent
        BY <1>3
    <2>3. DOMAIN got = 1..c
        OBVIOUS
    <2> QED
        BY <2>1, <2>2, <2>3 DEF Sent
<1>5. Rest(s) \in Seq(Fragments) /\ Sent(Rest(s))
    <2>1. CASE Errors(s) # {}
        <3>1. Rest(s) = <<>>
            BY <2>1 DEF Rest
        <3> QED
            BY <3>1, EmptySeq DEF Sent
    <2>2. CASE Errors(s) = {}
        <3>1. PICK m \in 0..n : m = Ends(s)[c]
            BY <1>1, <1>2, CountFacts
        <3>2. Rest(s) = SubSeq(s, m + 1, n)
            BY <1>1, <1>2, <2>2, <3>1 DEF Rest
        <3>3. m + 1 \in Nat \ {0} /\ m + 1 <= n + 1 /\ n <= n
              /\ \A i \in 1..(n - (m + 1) + 1) : m + 1 + i - 1 \in 1..n
            <4>1. m \in Int /\ n \in Int /\ 0 <= m /\ m <= n
                OBVIOUS
            <4>2. ASSUME NEW i \in 1..(n - (m + 1) + 1) PROVE m + 1 + i - 1 \in 1..n
                <5>1. i \in Int /\ 1 <= i /\ i <= n - m
                    BY <4>1
                <5> QED
                    BY <4>1, <5>1
            <4> QED
                BY <4>1, <4>2
        <3>4. /\ Rest(s) \in Seq(Fragments) /\ DOMAIN Rest(s) = 1..(n - (m + 1) + 1)
              /\ \A i \in 1..(n - (m + 1) + 1) : Rest(s)[i] = s[m + 1 + i - 1]
            BY <1>1, <3>2, <3>3, SubSeqFacts
        <3>5. \A i \in 1..n : s[i].reply <= sent
            BY <1>1, SeqFacts DEF Sent
        <3> QED
            BY <3>3, <3>4, <3>5 DEF Sent
    <2> QED
        BY <2>1, <2>2
<1> HIDE DEF got
<1>6. GetReplies(s).error \in BOOLEAN
    BY GetRepliesIs
<1>7. GetReplies(s).replies = got /\ GetReplies(s).rest = Rest(s)
    BY <1>2, GetRepliesIs DEF got
<1> QED
    BY <1>4, <1>5, <1>6, <1>7

-----------------------------------------------------------------------------
(* What is read of a stream that is well. *)

\* Behind the place b, j replies of the stream have ended.
Boundary(s, r, b, j) ==
    \/ b = 0 /\ j = 0
    \/ b # 0 /\ j # 0 /\ s[b].part = s[b].size /\ s[b].reply = r + j - 1

\* Behind the place b comes a reply, fragment by fragment.
OneReplyAt(s, b, reply) ==
    /\ s[b + 1].part = 1 /\ s[b + 1].reply = reply
    /\ \A i \in Nat : i + 1 <= s[b + 1].size /\ b + i + 1 <= Len(s) =>
           /\ s[b + i + 1].reply = reply /\ s[b + i + 1].part = i + 1
           /\ s[b + i + 1].size = s[b + 1].size

LEMMA OneReplyOf ==
    ASSUME NEW s \in Seq(Fragments), NEW n \in Nat, Len(s) = n, NEW r \in Nat \ {0}, Stream(s, r),
           NEW b \in Nat, b < n, NEW j \in Nat, Boundary(s, r, b, j)
    PROVE  OneReplyAt(s, b, r + j)
<1>1. /\ n # 0 => s[1].reply = r /\ s[1].part = 1
      /\ \A i \in 1..(n - 1) : Follows(s[i], s[i + 1])
    BY EmptySeq DEF Stream
<1>2. s[b + 1].part = 1 /\ s[b + 1].reply = r + j
    <2>1. CASE b = 0 /\ j = 0
        BY <1>1, <2>1
    <2>2. CASE b # 0 /\ j # 0 /\ s[b].part = s[b].size /\ s[b].reply = r + j - 1
        <3>1. b \in 1..(n - 1) /\ b \in 1..n
            BY <2>2
        <3>2. Follows(s[b], s[b + 1]) /\ s[b].size \in Nat
            BY <1>1, <3>1, FragmentFacts
        <3>3. ~(s[b].part < s[b].size)
            BY <2>2, <3>2
        <3>4. s[b + 1].reply = s[b].reply + 1 /\ s[b + 1].part = 1
            BY <3>2, <3>3 DEF Follows
        <3> QED
            BY <2>2, <3>4
    <2> QED
        BY <2>1, <2>2 DEF Boundary
<1>3. PICK z \in Nat : z = s[b + 1].size
    <2>1. b + 1 \in 1..n
        OBVIOUS
    <2> QED
        BY <2>1, FragmentFacts
<1> DEFINE OK(i) == s[b + i + 1].reply = r + j /\ s[b + i + 1].part = i + 1 /\ s[b + i + 1].size = z
           T == {i \in Nat : i + 1 <= z /\ b + i + 1 <= n => OK(i)}
<1>4. 0 \in T
    <2>1. b + 0 + 1 = b + 1 /\ 0 + 1 = 1
        OBVIOUS
    <2>2. OK(0)
        BY <1>2, <1>3, <2>1
    <2> HIDE DEF OK
    <2> QED
        BY <2>2
<1>5. ASSUME NEW i \in Nat, i \in T, (i + 1) + 1 <= z, b + (i + 1) + 1 <= n
      PROVE  OK(i + 1)
    <2>1. i + 1 <= z /\ b + i + 1 <= n /\ b + i + 1 \in 1..(n - 1) /\ i + 1 < z
          /\ b + (i + 1) + 1 = b + i + 1 + 1
        BY <1>5
    <2>2. OK(i)
        <3> HIDE DEF OK
        <3> QED
            BY <1>5, <2>1
    <2>3. Follows(s[b + i + 1], s[b + i + 1 + 1])
        BY <1>1, <2>1
    <2>4. s[b + i + 1].part < s[b + i + 1].size
        BY <2>1, <2>2
    <2>5. /\ s[b + i + 1 + 1].reply = s[b + i + 1].reply
          /\ s[b + i + 1 + 1].part = s[b + i + 1].part + 1
          /\ s[b + i + 1 + 1].size = s[b + i + 1].size
        BY <2>3, <2>4 DEF Follows
    <2> QED
        BY <2>1, <2>2, <2>5
<1>6. \A i \in Nat : i \in T => i + 1 \in T
    <2> HIDE DEF OK
    <2> QED
        BY <1>5
<1> HIDE DEF T
<1>7. \A i \in Nat : i \in T
    BY <1>4, <1>6, Induction
<1>8. OneReplyAt(s, b, r + j)
    BY <1>2, <1>3, <1>7 DEF T, OneReplyAt
<1> QED
    BY <1>8

\* Where a reply ends that is complete, or how its beginning looks if it is not.
LEMMA OneEndOf ==
    ASSUME NEW s \in Seq(Fragments), NEW n \in Nat, Len(s) = n, NEW r \in Nat \ {0}, Stream(s, r),
           NEW b \in Nat, b < n, NEW j \in Nat, Boundary(s, r, b, j)
    PROVE  /\ After(s, b) <= n => /\ Boundary(s, r, After(s, b), j + 1)
                                  /\ \A i \in (b + 1)..After(s, b) : s[i].reply = r + j
           /\ ~(After(s, b) <= n) => \A i \in (b + 1)..n : s[i].reply = r + j /\ s[i].part < s[i].size
<1>1. PICK z \in Nat \ {0} : z = s[b + 1].size
    <2>1. b + 1 \in 1..n
        OBVIOUS
    <2> QED
        BY <2>1, FragmentFacts
<1>2. \A i \in Nat : i + 1 <= z /\ b + i + 1 <= n =>
          s[b + i + 1].reply = r + j /\ s[b + i + 1].part = i + 1 /\ s[b + i + 1].size = z
    <2>1. OneReplyAt(s, b, r + j)
        BY OneReplyOf
    <2> QED
        BY <1>1, <2>1 DEF OneReplyAt
<1>3. After(s, b) = b + z
    BY <1>1 DEF After
<1>4. ASSUME NEW k \in (b + 1)..n, k <= b + z
      PROVE  s[k].reply = r + j /\ s[k].part = k - b /\ s[k].size = z
    <2>1. PICK i \in Nat : i = k - b - 1
        OBVIOUS
    <2>2. i + 1 <= z /\ b + i + 1 <= n /\ b + i + 1 = k /\ i + 1 = k - b
        BY <1>4, <2>1
    <2>3. s[b + i + 1].reply = r + j /\ s[b + i + 1].part = i + 1 /\ s[b + i + 1].size = z
        BY <1>2, <2>2
    <2> QED
        BY <2>2, <2>3
<1>5. ASSUME b + z <= n PROVE Boundary(s, r, b + z, j + 1)
    <2>1. PICK k \in (b + 1)..n : k = b + z
        BY <1>5
    <2>2. k <= b + z /\ k - b = z
        BY <2>1
    <2>3. s[k].reply = r + j /\ s[k].part = z /\ s[k].size = z
        BY <1>4, <2>2
    <2>4. k # 0 /\ j + 1 # 0 /\ r + (j + 1) - 1 = r + j
        OBVIOUS
    <2> QED
        BY <2>1, <2>3, <2>4 DEF Boundary
<1>6. ASSUME b + z <= n, NEW k \in (b + 1)..(b + z) PROVE s[k].reply = r + j
    <2>1. k \in (b + 1)..n /\ k <= b + z
        BY <1>6
    <2> QED
        BY <1>4, <2>1
<1>7. ASSUME ~(b + z <= n), NEW k \in (b + 1)..n PROVE s[k].reply = r + j /\ s[k].part < s[k].size
    <2>1. k <= b + z /\ k - b < z
        BY <1>7
    <2> QED
        BY <1>4, <2>1
<1> QED
    BY <1>3, <1>5, <1>6, <1>7

\* The k-th reply ends where k replies have ended.
LEMMA EndsAreBoundaries ==
    ASSUME NEW s \in Seq(Fragments), NEW n \in Nat, Len(s) = n, NEW r \in Nat \ {0}, Stream(s, r),
           NEW k \in 0..n
    PROVE  k <= Ends(s)[k] /\ (Ends(s)[k] <= n => Boundary(s, r, Ends(s)[k], k))
<1> DEFINE last == Ends(s)
           T == {m \in Nat : m \in 0..n =>
                     m <= last[m] /\ (last[m] <= n => Boundary(s, r, last[m], m))}
<1>1. last \in [0..n -> Nat] /\ last[0] = 0 /\ \A m \in 1..n : last[m] = After(s, last[m - 1])
    BY EndsFacts
<1> HIDE DEF last
<1>2. 0 \in T
    BY <1>1 DEF Boundary
<1>3. ASSUME NEW m \in Nat, m \in T, m + 1 \in 0..n
      PROVE  m + 1 <= last[m + 1] /\ (last[m + 1] <= n => Boundary(s, r, last[m + 1], m + 1))
    <2>1. m \in 0..n /\ m + 1 \in 1..n /\ (m + 1) - 1 = m
        BY <1>3
    <2>2. PICK b \in Nat : b = last[m]
        BY <1>1, <2>1
    <2>3. m <= b /\ (b <= n => Boundary(s, r, b, m))
        BY <1>3, <2>1, <2>2
    <2>4. last[m + 1] = After(s, b)
        BY <1>1, <2>1, <2>2
    <2>5. PICK e \in Nat : e = After(s, b) /\ (e <= n => b < e /\ b < n)
        BY AfterFacts
    <2>6. m + 1 <= e
        BY <2>1, <2>3, <2>5
    <2>7. e <= n => Boundary(s, r, e, m + 1)
        <3> SUFFICES ASSUME e <= n PROVE Boundary(s, r, e, m + 1)
            OBVIOUS
        <3>1. b < n /\ b <= n
            BY <2>5
        <3>2. Boundary(s, r, b, m)
            BY <2>3, <3>1
        <3> QED
            BY <2>5, <3>1, <3>2, OneEndOf
    <2> QED
        BY <2>4, <2>5, <2>6, <2>7
<1>4. \A m \in Nat : m \in T => m + 1 \in T
    BY <1>3
<1> HIDE DEF T
<1>5. \A m \in Nat : m \in T
    BY <1>2, <1>4, Induction
<1> QED
    BY <1>5 DEF T, last

\* The replies that are complete are read, in their order, and what is left is the
\* beginning of the next one.
LEMMA StreamIsRead ==
    ASSUME NEW s \in Seq(Fragments), NEW n \in Nat, Len(s) = n, NEW r \in Nat \ {0}, Stream(s, r)
    PROVE  /\ GetReplies(s).error = FALSE
           /\ GetReplies(s).replies = [k \in 1..Count(s) |-> [reply |-> r + k - 1, pure |-> TRUE]]
           /\ \E m \in 0..n : /\ Boundary(s, r, m, Count(s))
                              /\ GetReplies(s).rest = SubSeq(s, m + 1, n)
                              /\ \A i \in (m + 1)..n : /\ s[i].part < s[i].size
                                                       /\ s[i].reply = s[m + 1].reply
<1> DEFINE last == Ends(s)
<1>1. last \in [0..n -> Nat] /\ last[0] = 0 /\ \A k \in 1..n : last[k] = After(s, last[k - 1])
    BY EndsFacts
<1>2. \A k \in 0..n : k <= last[k] /\ (last[k] <= n => Boundary(s, r, last[k], k))
    BY EndsAreBoundaries
<1> HIDE DEF last
<1>3. DOMAIN s = 1..n
    BY SeqFacts
<1>4. Errors(s) = {}
    <2> SUFFICES ASSUME NEW k \in 1..n, last[k - 1] + 1 <= n PROVE s[last[k - 1] + 1].part = 1
        BY <1>3 DEF Errors, Begins, last
    <2>1. k - 1 \in 0..n
        OBVIOUS
    <2>2. PICK b \in Nat : b = last[k - 1]
        BY <1>1, <2>1
    <2>3. b < n /\ b <= n /\ k - 1 \in Nat
        BY <2>1, <2>2
    <2>4. Boundary(s, r, b, k - 1)
        BY <1>2, <2>1, <2>2, <2>3
    <2> QED
        <3>1. OneReplyAt(s, b, r + (k - 1))
            BY <2>3, <2>4, OneReplyOf
        <3> QED
            BY <2>2, <3>1 DEF OneReplyAt
<1>5. PICK c \in 0..n : c = Count(s)
    BY CountFacts
<1>6. /\ Complete(s) = 1..c /\ last[c] \in 0..n
      /\ \A k \in 1..c : last[k] \in 1..n /\ last[k - 1] \in 0..n /\ last[k - 1] < last[k]
    BY <1>5, CountFacts DEF last
<1>7. ASSUME NEW k \in 1..c PROVE Reply(s, k) = [reply |-> r + k - 1, pure |-> TRUE]
    <2>1. PICK b \in Nat, e \in Nat : b = last[k - 1] /\ e = last[k] /\ b < e /\ e <= n
        BY <1>6
    <2>2. k \in 1..n /\ k - 1 \in 0..n /\ k - 1 \in Nat /\ b <= n /\ b < n /\ r + (k - 1) = r + k - 1
        BY <2>1
    <2>3. Boundary(s, r, b, k - 1) /\ e = After(s, b)
        BY <1>1, <1>2, <2>1, <2>2
    <2>4. s[b + 1].reply = r + k - 1 /\ \A i \in (b + 1)..e : s[i].reply = r + k - 1
        <3>1. \A i \in (b + 1)..e : s[i].reply = r + (k - 1)
            BY <2>1, <2>2, <2>3, OneEndOf
        <3>2. b + 1 \in (b + 1)..e
            BY <2>1
        <3> QED
            BY <2>2, <3>1, <3>2
    <2>5. Begins(s, k) = b + 1 /\ Ends(s)[k] = e
        BY <2>1 DEF Begins, last
    <2>6. \A i \in (b + 1)..n \cap 1..e : s[i].reply = r + k - 1
        BY <2>4
    <2> QED
        BY <2>4, <2>5, <2>6 DEF Reply
<1>8. PICK m \in 0..n : m = last[c]
    BY <1>6
<1>9. m \in Nat /\ c \in Nat /\ m <= n /\ Boundary(s, r, m, c)
    BY <1>2, <1>8
<1>10. ASSUME NEW i \in (m + 1)..n PROVE s[i].part < s[i].size /\ s[i].reply = s[m + 1].reply
    <2>1. m < n /\ c <= m
        BY <1>2, <1>8
    <2>2. c + 1 \in 1..n /\ c + 1 \notin 1..c /\ (c + 1) - 1 = c
        BY <1>9, <2>1
    <2>3. last[c + 1] = After(s, m)
        BY <1>1, <1>8, <2>2
    <2>4. ~(After(s, m) <= n)
        BY <1>3, <1>4, <1>6, <2>2, <2>3 DEF Complete, last
    <2>5. \A k \in (m + 1)..n : s[k].reply = r + c /\ s[k].part < s[k].size
        BY <1>9, <2>1, <2>4, OneEndOf
    <2>6. m + 1 \in (m + 1)..n
        BY <1>9, <2>1
    <2> QED
        BY <2>5, <2>6
<1>11. Rest(s) = SubSeq(s, m + 1, n)
    BY <1>4, <1>5, <1>8 DEF Rest, last
<1>12. GetReplies(s).rest = SubSeq(s, m + 1, n) /\ GetReplies(s).error = FALSE
    BY <1>4, <1>11, GetRepliesIs
<1>13. GetReplies(s).replies = [k \in 1..Count(s) |-> [reply |-> r + k - 1, pure |-> TRUE]]
    <2>1. GetReplies(s).replies = [k \in 1..c |-> Reply(s, k)]
        BY <1>5, GetRepliesIs
    <2> QED
        BY <1>5, <1>7, <2>1
<1> QED
    BY <1>5, <1>9, <1>10, <1>12, <1>13

-----------------------------------------------------------------------------
(* The steps. *)

LEMMA Three ==
    ASSUME NEW S, NEW x \in Seq(S), NEW y \in Seq(S), NEW z \in Seq(S)
    PROVE  /\ x \o y \in Seq(S) /\ Len(x \o y) = Len(x) + Len(y)
           /\ x \o y \o z \in Seq(S) /\ Len(x \o y \o z) = Len(x) + Len(y) + Len(z)
           /\ \A i \in 1..Len(x) : (x \o y \o z)[i] = x[i]
           /\ \A i \in 1..Len(y) : (x \o y \o z)[Len(x) + i] = y[i]
           /\ \A i \in 1..(Len(x) + Len(y)) : (x \o y \o z)[i] = (x \o y)[i]
           /\ \A i \in 1..Len(z) : (x \o y \o z)[Len(x) + Len(y) + i] = z[i]
<1> DEFINE p == x \o y
           q == p \o z
<1>1. /\ p \in Seq(S) /\ Len(p) = Len(x) + Len(y)
      /\ \A k \in 1..Len(x) : p[k] = x[k]
      /\ \A k \in 1..Len(y) : p[Len(x) + k] = y[k]
    BY ConcatParts
<1>a. p \in Seq(S)
    BY <1>1
<1> HIDE DEF p
<1>2. /\ q \in Seq(S) /\ Len(q) = Len(p) + Len(z)
      /\ \A k \in 1..Len(p) : q[k] = p[k]
      /\ \A k \in 1..Len(z) : q[Len(p) + k] = z[k]
    BY <1>a, ConcatParts
<1> HIDE DEF q
<1>3. PICK l \in Nat, m \in Nat, n \in Nat : Len(x) = l /\ Len(y) = m /\ Len(z) = n
    BY SeqFacts
<1>4. \A i \in 1..l : i \in 1..(l + m)
    OBVIOUS
<1>5. \A i \in 1..m : l + i \in 1..(l + m)
    OBVIOUS
<1>6. p \in Seq(S) /\ Len(p) = l + m /\ q \in Seq(S) /\ Len(q) = l + m + n
    BY <1>1, <1>2, <1>3
<1>7. /\ \A i \in 1..l : q[i] = x[i]
      /\ \A i \in 1..m : q[l + i] = y[i]
      /\ \A i \in 1..(l + m) : q[i] = p[i]
      /\ \A i \in 1..n : q[l + m + i] = z[i]
    BY <1>1, <1>2, <1>3, <1>4, <1>5
<1> QED
    BY <1>3, <1>6, <1>7 DEF q, p

\* What is left of a stream behind the end of a reply is a stream.
LEMMA Suffix ==
    ASSUME NEW t \in Seq(Fragments), NEW n \in Nat, Len(t) = n, NEW r \in Nat \ {0}, Stream(t, r),
           NEW m \in Nat, m <= n, NEW c \in Nat, Boundary(t, r, m, c),
           NEW u \in Seq(Fragments), Len(u) = n - m, \A i \in 1..(n - m) : u[i] = t[m + i]
    PROVE  Stream(u, r + c) /\ (Whole(t, r) => Whole(u, r + c))
<1>1. ASSUME u # <<>> PROVE u[1].reply = r + c /\ u[1].part = 1
    <2>1. m < n
        BY <1>1, EmptySeq
    <2>2. t[m + 1].part = 1 /\ t[m + 1].reply = r + c
        <3>1. OneReplyAt(t, m, r + c)
            BY <2>1, OneReplyOf
        <3> QED
            BY <3>1 DEF OneReplyAt
    <2>3. 1 \in 1..(n - m)
        BY <2>1
    <2> QED
        BY <2>2, <2>3
<1>2. ASSUME NEW i \in 1..(Len(u) - 1) PROVE Follows(u[i], u[i + 1])
    <2>1. i \in 1..(n - m) /\ i + 1 \in 1..(n - m) /\ m + i \in 1..(n - 1) /\ m + (i + 1) = m + i + 1
        BY <1>2
    <2>2. u[i] = t[m + i] /\ u[i + 1] = t[m + i + 1]
        BY <2>1
    <2>3. \A k \in 1..(n - 1) : Follows(t[k], t[k + 1])
        BY DEF Stream
    <2>4. Follows(t[m + i], t[m + i + 1])
        BY <2>1, <2>3
    <2> QED
        BY <2>2, <2>4
<1>3. ASSUME Whole(t, r) PROVE Whole(u, r + c)
    <2>1. CASE m = n
        <3>1. u = <<>>
            BY <2>1, EmptySeq
        <3>2. CASE n = 0
            <4>1. c = 0 /\ t = <<>>
                BY <2>1, <3>2, EmptySeq DEF Boundary
            <4> QED
                BY <1>3, <3>1, <4>1 DEF Whole
        <3>3. CASE n # 0
            <4>1. t # <<>> /\ c # 0 /\ t[n].reply = r + c - 1
                BY <2>1, <3>3, EmptySeq DEF Boundary
            <4>2. t[n].reply = sent
                BY <1>3, <4>1 DEF Whole
            <4> QED
                BY <3>1, <4>1, <4>2 DEF Whole
        <3> QED
            BY <3>2, <3>3
    <2>2. CASE m # n
        <3>1. Len(u) # 0 /\ n # 0 /\ m + Len(u) = n /\ Len(u) \in 1..(n - m)
            BY <2>2
        <3>2. u # <<>> /\ t # <<>>
            BY <3>1, EmptySeq
        <3>3. u[Len(u)] = t[n]
            BY <3>1
        <3> QED
            BY <1>3, <3>2, <3>3 DEF Whole
    <2> QED
        BY <2>1, <2>2
<1> QED
    BY <1>1, <1>2, <1>3 DEF Stream

LEMMA InitReader == Init => ReaderInvariant
<1> SUFFICES ASSUME Init PROVE ReaderInvariant
    OBVIOUS
<1>1. ReaderTypes
    <2>1. <<>> \in Seq(Fragments) /\ <<>> \in Seq(Replies)
        BY EmptySeq
    <2>2. /\ wire \in Seq(Fragments) /\ available \in Seq(Fragments) /\ buffer \in Seq(Fragments)
          /\ delivered \in Seq(Replies)
        BY <2>1 DEF Init
    <2>3. sent \in Nat /\ first \in Nat \ {0} /\ first <= sent + 1
        <3>1. sent = 0 /\ first = 1
            BY DEF Init
        <3> QED
            BY <3>1
    <2>4. torn \in BOOLEAN /\ broken \in BOOLEAN
        BY DEF Init
    <2> QED
        BY <2>2, <2>3, <2>4 DEF ReaderTypes
<1>2. NothingElse
    BY DEF Init, NothingElse, Sent
<1>3. OnTheWay = <<>>
    BY DEF Init, OnTheWay
<1>4. Len(delivered) = 0 /\ first = 1 /\ sent = 0
    BY DEF Init
<1>5. Stream(<<>>, 1) /\ Whole(<<>>, 1)
    BY <1>4 DEF Stream, Whole
<1>6. InOrder
    <2>1. 0 \in 0..Len(delivered) /\ first + Len(delivered) - 0 = 1
        BY <1>4
    <2>2. /\ \A k \in 1..0 : delivered[k].reply < first
          /\ \A k \in 1..(Len(delivered) - 0) :
                 delivered[0 + k] = [reply |-> first + k - 1, pure |-> TRUE]
        BY <1>4
    <2> QED
        BY <1>3, <1>5, <2>1, <2>2 DEF InOrder
<1>7. ~broken /\ Begun(buffer)
    BY DEF Init, Begun
<1> QED
    BY <1>1, <1>2, <1>6, <1>7 DEF ReaderInvariant

\* Two sequences, none of which has a reply above n.
LEMMA UpToConcat ==
    ASSUME NEW S, NEW s \in Seq(S), NEW t \in Seq(S), NEW n,
           \A i \in DOMAIN s : s[i].reply <= n, \A i \in DOMAIN t : t[i].reply <= n
    PROVE  s \o t \in Seq(S) /\ \A i \in DOMAIN (s \o t) : (s \o t)[i].reply <= n
<1> DEFINE u == s \o t
<1>1. /\ u \in Seq(S)
      /\ \A k \in DOMAIN s : u[k] = s[k]
      /\ \A k \in DOMAIN t : u[Len(s) + k] = t[k]
      /\ \A k \in DOMAIN u : k \in DOMAIN s \/ k - Len(s) \in DOMAIN t
    BY ConcatFacts
<1> HIDE DEF u
<1>2. ASSUME NEW k \in DOMAIN u PROVE u[k].reply <= n
    <2>1. CASE k \in DOMAIN s
        BY <1>1, <2>1
    <2>2. CASE k - Len(s) \in DOMAIN t
        <3>1. DOMAIN u = 1..Len(u) /\ Len(u) \in Nat /\ Len(s) \in Nat
            BY <1>1, SeqFacts
        <3>2. k = Len(s) + (k - Len(s))
            BY <3>1
        <3> QED
            BY <1>1, <2>2, <3>2
    <2> QED
        BY <1>1, <2>1, <2>2
<1> QED
    BY <1>1, <1>2 DEF u

\* Fragments that arrive, are sent, or are read stay fragments; nothing else is read.
LEMMA ReaderTypesKept ==
    ASSUME ReaderTypes, NothingElse, [Next]_vars PROVE ReaderTypes' /\ NothingElse'
<1> USE DEF ReaderTypes, NothingElse
<1>1. ASSUME NEW size \in 1..MaxSize, ServerSends(size) PROVE ReaderTypes' /\ NothingElse'
    <2> DEFINE more == [k \in 1..size |-> [reply |-> sent + 1, part |-> k, size |-> size]]
    <2>1. more \in Seq(Fragments) /\ Len(more) = size
        <3>1. size \in Nat /\ MaxSize \in Nat
            BY BoundsAssumption
        <3>2. \A k \in 1..size : k \in 1..MaxSize
            BY <3>1
        <3>3. sent + 1 \in Nat \ {0}
            OBVIOUS
        <3>4. \A k \in 1..size : more[k] \in Fragments
            BY <3>2, <3>3 DEF Fragments
        <3> QED
            BY <3>1, <3>4
    <2>2. \A k \in 1..size : more[k].reply = sent + 1
        OBVIOUS
    <2> HIDE DEF more
    <2>3. /\ wire' = wire \o more /\ sent' = sent + 1
          /\ UNCHANGED <<first, available, buffer, broken, delivered, torn>>
        BY <1>1 DEF ServerSends, readerVars, more
    <2>4. DOMAIN more = 1..size
        BY <2>1, SeqFacts
    <2>8. ASSUME NEW s \in Seq(Fragments), Sent(s) PROVE \A i \in DOMAIN s : s[i].reply <= sent + 1
        <3> SUFFICES ASSUME NEW i \in DOMAIN s PROVE s[i].reply <= sent + 1
            OBVIOUS
        <3>1. i \in 1..Len(s)
            BY SeqFacts
        <3>2. s[i].reply \in Nat /\ s[i].reply <= sent
            BY <2>8, <3>1, FragmentFacts DEF Sent
        <3> QED
            BY <3>2
    <2>5. wire \o more \in Seq(Fragments) /\ \A i \in DOMAIN (wire \o more) : (wire \o more)[i].reply <= sent + 1
        <3>1. \A i \in DOMAIN wire : wire[i].reply <= sent + 1
            BY <2>8
        <3>2. \A i \in DOMAIN more : more[i].reply <= sent + 1
            BY <2>2, <2>4
        <3> QED
            BY <2>1, <3>1, <3>2, UpToConcat
    <2>7. Sent(wire)'
        BY <2>3, <2>5 DEF Sent
    <2>9. \A i \in DOMAIN delivered : delivered[i].reply <= sent + 1
        <3> SUFFICES ASSUME NEW i \in DOMAIN delivered PROVE delivered[i].reply <= sent + 1
            OBVIOUS
        <3>1. delivered[i] \in Replies
            BY SeqFacts
        <3>2. delivered[i].reply \in Nat /\ delivered[i].reply <= sent
            BY <3>1 DEF Replies, Sent
        <3> QED
            BY <3>2
    <2>10. Sent(available)' /\ Sent(buffer)' /\ Sent(delivered)'
        BY <2>3, <2>8, <2>9 DEF Sent
    <2>11. sent' \in Nat /\ first' <= sent' + 1
        BY <2>3
    <2> QED
        BY <2>3, <2>5, <2>7, <2>10, <2>11
<1>2. ASSUME NEW n \in 1..Len(wire), Arrive(n) PROVE ReaderTypes' /\ NothingElse'
    <2>0. PICK l \in Nat : l = Len(wire)
        BY SeqFacts
    <2> DEFINE came == SubSeq(wire, 1, n)
               left == SubSeq(wire, n + 1, l)
    <2>1. /\ available' = available \o came /\ wire' = left
          /\ UNCHANGED <<sent, first, buffer, broken, delivered, torn>>
        BY <1>2, <2>0 DEF Arrive, readerVars
    <2>2. n \in 1..l /\ n \in Nat
        BY <2>0
    <2>3. came \in Seq(Fragments) /\ \A i \in DOMAIN came : came[i].reply <= sent
        <3>1. /\ 1 <= n + 1 /\ n <= l /\ n - 1 + 1 = n
              /\ \A i \in 1..n : 1 + i - 1 \in 1..l
            BY <2>2
        <3>2. /\ came \in Seq(Fragments) /\ DOMAIN came = 1..(n - 1 + 1)
              /\ \A i \in 1..(n - 1 + 1) : came[i] = wire[1 + i - 1]
            BY <2>0, <2>2, <3>1, SubSeqFacts
        <3>3. \A i \in 1..l : wire[i].reply <= sent
            BY <2>0, SeqFacts DEF Sent
        <3> HIDE DEF came
        <3> QED
            BY <3>1, <3>2, <3>3
    <2>4. left \in Seq(Fragments) /\ \A i \in DOMAIN left : left[i].reply <= sent
        <3>1. PICK m \in Nat \ {0} : m = n + 1
            BY <2>2
        <3>2. /\ m <= l + 1 /\ l <= l /\ \A i \in 1..(l - m + 1) : m + i - 1 \in 1..l
            BY <2>0, <2>2, <3>1
        <3>3. /\ SubSeq(wire, m, l) \in Seq(Fragments) /\ DOMAIN SubSeq(wire, m, l) = 1..(l - m + 1)
              /\ \A i \in 1..(l - m + 1) : SubSeq(wire, m, l)[i] = wire[m + i - 1]
            BY <2>0, <3>2, SubSeqFacts
        <3>4. \A i \in 1..l : wire[i].reply <= sent
            BY <2>0, SeqFacts DEF Sent
        <3>5. left = SubSeq(wire, m, l)
            BY <3>1
        <3> HIDE DEF left
        <3> QED
            BY <3>2, <3>3, <3>4, <3>5
    <2> HIDE DEF came, left
    <2>5. came \in Seq(Fragments) /\ \A i \in DOMAIN available : available[i].reply <= sent
        BY <2>3 DEF Sent
    <2>6. /\ available \o came \in Seq(Fragments)
          /\ \A k \in DOMAIN (available \o came) : (available \o came)[k].reply <= sent
        BY <2>3, <2>5, UpToConcat
    <2>7. Sent(available)' /\ Sent(wire)'
        BY <2>1, <2>4, <2>6 DEF Sent
    <2>8. Sent(buffer)' /\ Sent(delivered)'
        BY <2>1 DEF Sent
    <2> QED
        BY <2>1, <2>4, <2>6, <2>7, <2>8
<1>3. CASE Reconnect
    <2>1. /\ wire' = <<>> /\ available' = <<>> /\ first' = sent + 1
          /\ torn' = (torn \/ buffer # <<>>)
          /\ UNCHANGED <<sent, buffer, broken, delivered>>
        BY <1>3 DEF Reconnect, readerVars
    <2>2. first' \in Nat \ {0} /\ first' <= sent' + 1 /\ torn' \in BOOLEAN
        BY <2>1
    <2>3. <<>> \in Seq(Fragments)
        BY EmptySeq
    <2>4. Sent(wire)' /\ Sent(available)' /\ Sent(buffer)' /\ Sent(delivered)'
        BY <2>1 DEF Sent
    <2> QED
        BY <2>1, <2>2, <2>3, <2>4
<1>4. CASE ReadyRead
    <2>1. available' = <<>> /\ UNCHANGED <<sent, wire, first, torn>>
        BY <1>4 DEF ReadyRead, netVars
    <2>2. <<>> \in Seq(Fragments)
        BY EmptySeq
    <2>3. CASE broken
        <3>1. UNCHANGED <<buffer, broken, delivered>>
            BY <1>4, <2>3 DEF ReadyRead, readerVars
        <3>2. Sent(wire)' /\ Sent(available)' /\ Sent(buffer)' /\ Sent(delivered)'
            BY <2>1, <3>1 DEF Sent
        <3> QED
            BY <2>1, <2>2, <3>1, <3>2
    <2>4. CASE ~broken
        <3> DEFINE s == buffer \o available
                   got == GetReplies(s).replies
        <3>1. s \in Seq(Fragments) /\ Sent(s)
            BY UpToConcat DEF Sent
        <3>2. /\ buffer' = GetReplies(s).rest /\ broken' = GetReplies(s).error
              /\ delivered' = delivered \o got
            BY <1>4, <2>4 DEF ReadyRead
        <3> HIDE DEF s
        <3>3. /\ got \in Seq(Replies) /\ Sent(got)
              /\ GetReplies(s).rest \in Seq(Fragments) /\ Sent(GetReplies(s).rest)
              /\ GetReplies(s).error \in BOOLEAN
            BY <3>1, ReadTypes
        <3> HIDE DEF got
        <3>4. got \in Seq(Replies) /\ \A k \in DOMAIN got : got[k].reply <= sent
            BY <3>3 DEF Sent
        <3>5. /\ delivered \o got \in Seq(Replies)
              /\ \A k \in DOMAIN (delivered \o got) : (delivered \o got)[k].reply <= sent
            BY <3>4, UpToConcat DEF Sent
        <3>6. Sent(delivered)' /\ Sent(buffer)'
            BY <2>1, <3>2, <3>3, <3>5 DEF Sent
        <3>7. Sent(wire)' /\ Sent(available)'
            BY <2>1 DEF Sent
        <3>8. broken' \in BOOLEAN /\ buffer' \in Seq(Fragments) /\ delivered' \in Seq(Replies)
            BY <3>2, <3>3, <3>5
        <3> QED
            BY <2>1, <2>2, <3>6, <3>7, <3>8
    <2> QED
        BY <2>3, <2>4
<1>5. CASE ReadGarbage
    <2>1. /\ available' = <<>> /\ buffer' = <<>> /\ broken' = TRUE
          /\ UNCHANGED <<sent, wire, first, delivered, torn>>
        BY <1>5 DEF ReadGarbage, netVars
    <2>2. <<>> \in Seq(Fragments)
        BY EmptySeq
    <2>3. Sent(wire)' /\ Sent(available)' /\ Sent(buffer)' /\ Sent(delivered)'
        BY <2>1 DEF Sent
    <2> QED
        BY <2>1, <2>2, <2>3
<1>6. CASE UNCHANGED vars
    BY <1>6 DEF vars, netVars, readerVars, Sent
<1> QED
    BY <1>1, <1>2, <1>3, <1>4, <1>5, <1>6 DEF Next

\* What is on the way, in pieces.
LEMMA OnTheWayFacts ==
    ASSUME ReaderTypes
    PROVE  /\ buffer \o available \in Seq(Fragments) /\ OnTheWay \in Seq(Fragments)
           /\ Len(buffer) \in Nat /\ Len(available) \in Nat /\ Len(wire) \in Nat
           /\ Len(buffer \o available) = Len(buffer) + Len(available)
           /\ Len(OnTheWay) = Len(buffer) + Len(available) + Len(wire)
           /\ \A i \in 1..Len(buffer) : OnTheWay[i] = buffer[i]
           /\ \A i \in 1..Len(available) : OnTheWay[Len(buffer) + i] = available[i]
           /\ \A i \in 1..(Len(buffer) + Len(available)) : OnTheWay[i] = (buffer \o available)[i]
           /\ \A i \in 1..Len(wire) : OnTheWay[Len(buffer) + Len(available) + i] = wire[i]
<1>1. buffer \in Seq(Fragments) /\ available \in Seq(Fragments) /\ wire \in Seq(Fragments)
    BY DEF ReaderTypes
<1>2. Len(buffer) \in Nat /\ Len(available) \in Nat /\ Len(wire) \in Nat
    BY <1>1, SeqFacts
<1> QED
    BY <1>1, <1>2, Three DEF OnTheWay

\* What has arrived is the beginning of what is on the way.
LEMMA Arrived ==
    ASSUME ReaderTypes, NEW r, Stream(OnTheWay, r)
    PROVE  Stream(buffer \o available, r)
<1> DEFINE s == buffer \o available
           t == OnTheWay
<1>1. PICK n \in Nat, m \in Nat : Len(s) = n /\ Len(t) = m /\ n <= m /\ \A i \in 1..n : t[i] = s[i]
    <2>1. PICK a \in Nat, b \in Nat, c \in Nat : a = Len(buffer) /\ b = Len(available) /\ c = Len(wire)
        BY OnTheWayFacts
    <2>2. Len(s) = a + b /\ Len(t) = a + b + c /\ \A i \in 1..(a + b) : t[i] = s[i]
        BY <2>1, OnTheWayFacts
    <2>3. a + b \in Nat /\ a + b + c \in Nat /\ a + b <= a + b + c
        BY <2>1
    <2> HIDE DEF s, t
    <2> QED
        BY <2>2, <2>3
<1>2. s \in Seq(Fragments) /\ t \in Seq(Fragments)
    BY OnTheWayFacts
<1>3. t # <<>> => t[1].reply = r /\ t[1].part = 1
    BY DEF Stream
<1>4. \A i \in 1..(Len(t) - 1) : Follows(t[i], t[i + 1])
    BY DEF Stream
<1> HIDE DEF s, t
<1>5. ASSUME s # <<>> PROVE s[1].reply = r /\ s[1].part = 1
    <2>1. n # 0
        BY <1>1, <1>2, <1>5, EmptySeq
    <2>2. 1 \in 1..n /\ m # 0
        BY <1>1, <2>1
    <2>3. t # <<>>
        BY <1>1, <2>2, EmptySeq
    <2> QED
        BY <1>1, <1>3, <2>2, <2>3
<1>6. ASSUME NEW i \in 1..(Len(s) - 1) PROVE Follows(s[i], s[i + 1])
    <2>1. i \in 1..n /\ i + 1 \in 1..n /\ i \in 1..(m - 1)
        BY <1>1, <1>6
    <2>2. t[i] = s[i] /\ t[i + 1] = s[i + 1]
        BY <1>1, <2>1
    <2> QED
        BY <1>1, <1>4, <2>1, <2>2
<1> QED
    BY <1>5, <1>6 DEF Stream, s

\* The replies that were delivered on this connection are the first ones of it, up to r.
UpTo(r) ==
    \E old \in 0..Len(delivered) :
        /\ \A k \in 1..old : delivered[k].reply < first
        /\ \A k \in 1..(Len(delivered) - old) :
               delivered[old + k] = [reply |-> first + k - 1, pure |-> TRUE]
        /\ r = first + Len(delivered) - old

LEMMA InOrderIs ==
    ASSUME ReaderTypes
    PROVE  /\ InOrder <=> \E r \in Nat \ {0} : UpTo(r) /\ Stream(OnTheWay, r) /\ Whole(OnTheWay, r)
           /\ \A r : UpTo(r) => r \in Nat \ {0}
<1>1. PICK l \in Nat, f \in Nat \ {0} : l = Len(delivered) /\ f = first
    BY SeqFacts DEF ReaderTypes
<1>2. \A old \in 0..l : f + l - old \in Nat \ {0}
    OBVIOUS
<1>3. \A r : UpTo(r) => r \in Nat \ {0}
    BY <1>1, <1>2 DEF UpTo
<1>4. InOrder <=> \E r : UpTo(r) /\ Stream(OnTheWay, r) /\ Whole(OnTheWay, r)
    BY DEF InOrder, UpTo
<1> QED
    BY <1>3, <1>4

LEMMA Associative ==
    \A s, t, u \in Seq(Fragments) : (s \o t) \o u = s \o (t \o u)
<1> SUFFICES ASSUME NEW s \in Seq(Fragments), NEW t \in Seq(Fragments), NEW u \in Seq(Fragments)
             PROVE  (s \o t) \o u = s \o (t \o u)
    OBVIOUS
<1> QED
    BY ConcatAssociative

\* What is on the way does not change when some of it arrives.
LEMMA ArriveInOrder ==
    ASSUME ReaderTypes, InOrder, NEW k \in 1..Len(wire), Arrive(k)
    PROVE  InOrder'
<1>1. PICK l \in Nat : l = Len(wire)
    BY SeqFacts DEF ReaderTypes
<1> DEFINE came == SubSeq(wire, 1, k)
           left == SubSeq(wire, k + 1, Len(wire))
<1>2. /\ available' = available \o came /\ wire' = left
      /\ UNCHANGED <<sent, first, buffer, delivered>>
    BY DEF Arrive, readerVars
<1>3. wire \in Seq(Fragments) /\ available \in Seq(Fragments) /\ buffer \in Seq(Fragments)
    BY DEF ReaderTypes
<1>4. came \o left = wire
    <2>1. 1 \in 1..(Len(wire) + 1) /\ k \in 1 - 1..Len(wire) /\ Len(wire) \in k..Len(wire)
        BY <1>1
    <2>2. came \o left = SubSeq(wire, 1, Len(wire))
        BY <1>3, <2>1, ConcatAdjacentSubSeq
    <2> QED
        BY <1>3, <2>2, SubSeqFull
<1>5. came \in Seq(Fragments) /\ left \in Seq(Fragments)
    <2>1. k \in Int /\ 1 \in Int /\ k + 1 \in Int /\ Len(wire) \in Int
        BY <1>1
    <2>2. \A i \in 1..Len(wire) : wire[i] \in Fragments
        BY <1>3, SeqFacts
    <2>3. (\A i \in 1..k : i \in 1..Len(wire)) /\ (\A i \in (k + 1)..Len(wire) : i \in 1..Len(wire))
        BY <1>1
    <2> QED
        BY <2>1, <2>2, <2>3, SubSeqProperties
<1> HIDE DEF came, left
<1>6. (available \o came) \in Seq(Fragments) /\ available \o wire \in Seq(Fragments)
    BY <1>3, <1>5, ConcatProperties
<1>7. buffer \o (available \o came) \o left = OnTheWay
    <2>1. buffer \o (available \o came) \o left = buffer \o ((available \o came) \o left)
        BY <1>3, <1>5, <1>6, Associative
    <2>2. (available \o came) \o left = available \o (came \o left)
        BY <1>3, <1>5, Associative
    <2>3. buffer \o available \o wire = buffer \o (available \o wire)
        BY <1>3, Associative
    <2> QED
        BY <1>4, <2>1, <2>2, <2>3 DEF OnTheWay
<1>8. OnTheWay' = OnTheWay
    BY <1>2, <1>7 DEF OnTheWay
<1> HIDE DEF OnTheWay
<1> QED
    BY <1>2, <1>8 DEF InOrder, Stream, Whole

\* A reply that is sent comes behind the ones that are on the way.
LEMMA ServerInOrder ==
    ASSUME ReaderTypes, InOrder, NEW size \in 1..MaxSize, ServerSends(size)
    PROVE  InOrder'
<1> DEFINE more == [k \in 1..size |-> [reply |-> sent + 1, part |-> k, size |-> size]]
           t == OnTheWay
           u == OnTheWay \o more
<1>1. /\ wire' = wire \o more /\ sent' = sent + 1
      /\ UNCHANGED <<first, available, buffer, delivered>>
    BY DEF ServerSends, readerVars
<1>2. size \in Nat \ {0} /\ sent \in Nat /\ MaxSize \in Nat
    BY BoundsAssumption DEF ReaderTypes
<1>3. /\ more \in Seq(Fragments) /\ Len(more) = size
      /\ \A k \in 1..size : more[k].reply = sent + 1 /\ more[k].part = k /\ more[k].size = size
    <2>1. \A k \in 1..size : k \in 1..MaxSize
        BY <1>2
    <2>2. sent + 1 \in Nat \ {0}
        BY <1>2
    <2>3. \A k \in 1..size : more[k] \in Fragments
        BY <2>1, <2>2 DEF Fragments
    <2> QED
        BY <1>2, <2>3
<1>4. t \in Seq(Fragments) /\ wire \in Seq(Fragments) /\ buffer \o available \in Seq(Fragments)
    BY OnTheWayFacts DEF ReaderTypes
<1> HIDE DEF more
<1>5. OnTheWay' = u
    <2>1. ((buffer \o available) \o wire) \o more = (buffer \o available) \o (wire \o more)
        BY <1>3, <1>4, Associative
    <2> QED
        BY <1>1, <2>1 DEF OnTheWay
<1>6. PICK n \in Nat : n = Len(t)
    BY <1>4, SeqFacts
<1> HIDE DEF t, u
<1>7. /\ u \in Seq(Fragments) /\ Len(u) = n + size
      /\ \A i \in 1..n : u[i] = t[i]
      /\ \A i \in 1..size : u[n + i] = more[i]
    <2> USE DEF t, u
    <2>1. /\ t \o more \in Seq(Fragments) /\ Len(t \o more) = Len(t) + Len(more)
          /\ \A i \in 1..Len(t) : (t \o more)[i] = t[i]
          /\ \A i \in 1..Len(more) : (t \o more)[Len(t) + i] = more[i]
        <3> HIDE DEF t, u
        <3>1. t \in Seq(Fragments) /\ more \in Seq(Fragments)
            BY <1>3, <1>4
        <3> QED
            BY <3>1, ConcatParts
    <2> QED
        BY <1>3, <1>6, <2>1
<1>8. PICK r \in Nat \ {0} : UpTo(r) /\ Stream(t, r) /\ Whole(t, r)
    BY InOrderIs DEF t
<1>9. UpTo(r)'
    BY <1>1, <1>8 DEF UpTo
<1>10. n = 0 => r = sent + 1
    <2>1. n = 0 => t = <<>>
        BY <1>4, <1>6, EmptySeq
    <2> QED
        BY <1>8, <2>1 DEF Whole
<1>11. n # 0 => t[n].reply = sent /\ ~(t[n].part < t[n].size)
    <2>1. n # 0 => t # <<>> /\ n \in 1..n
        BY <1>4, <1>6, EmptySeq
    <2>2. n # 0 => t[n].reply = sent /\ t[n].part = t[n].size
        BY <1>6, <1>8, <2>1 DEF Whole
    <2>3. n # 0 => t[n].size \in Nat
        BY <1>4, <1>6, <2>1, FragmentFacts
    <2> QED
        BY <2>2, <2>3
<1>12. u[1].reply = r /\ u[1].part = 1
    <2>1. CASE n = 0
        <3>1. 1 \in 1..size /\ n + 1 = 1
            BY <1>2, <2>1
        <3> QED
            BY <1>3, <1>7, <1>10, <2>1, <3>1
    <2>2. CASE n # 0
        <3>1. t # <<>> /\ 1 \in 1..n
            BY <1>4, <1>6, <2>2, EmptySeq
        <3> QED
            BY <1>7, <1>8, <3>1 DEF Stream
    <2> QED
        BY <2>1, <2>2
<1>13. ASSUME NEW i \in 1..(Len(u) - 1) PROVE Follows(u[i], u[i + 1])
    <2>0. i \in Nat /\ i # 0 /\ i < n + size
        BY <1>2, <1>7, <1>13
    <2>1. CASE i < n
        <3>1. i \in 1..n /\ i + 1 \in 1..n /\ i \in 1..(n - 1)
            BY <2>0, <2>1
        <3> QED
            BY <1>6, <1>7, <1>8, <3>1 DEF Stream
    <2>2. CASE i = n
        <3>1. 1 \in 1..size /\ n \in 1..n /\ n # 0
            BY <1>2, <2>0, <2>2
        <3>2. u[i] = t[n] /\ u[i + 1] = more[1]
            BY <1>7, <2>2, <3>1
        <3>3. more[1].reply = sent + 1 /\ more[1].part = 1
            BY <1>3, <3>1
        <3> QED
            BY <1>11, <3>1, <3>2, <3>3 DEF Follows
    <2>3. CASE n < i
        <3>1. PICK k \in 1..size : k = i - n /\ k + 1 \in 1..size
            BY <1>2, <2>0, <2>3
        <3>2. n + k = i /\ n + (k + 1) = i + 1 /\ k < size
            BY <2>0, <3>1
        <3>3. u[i] = more[k] /\ u[i + 1] = more[k + 1]
            BY <1>7, <3>1, <3>2
        <3>4. /\ more[k].reply = sent + 1 /\ more[k].part = k /\ more[k].size = size
              /\ more[k + 1].reply = sent + 1 /\ more[k + 1].part = k + 1 /\ more[k + 1].size = size
            BY <1>3, <3>1
        <3> QED
            BY <3>2, <3>3, <3>4 DEF Follows
    <2> QED
        BY <2>0, <2>1, <2>2, <2>3
<1>14. Stream(u, r)
    BY <1>12, <1>13 DEF Stream
<1>15. u # <<>> /\ u[Len(u)].reply = sent + 1 /\ u[Len(u)].part = u[Len(u)].size
    <2>1. size \in 1..size /\ n + size # 0
        BY <1>2
    <2>2. u # <<>>
        BY <1>7, <2>1, EmptySeq
    <2>3. u[Len(u)] = more[size]
        BY <1>7, <2>1
    <2> QED
        BY <1>3, <2>1, <2>2, <2>3
<1>16. Stream(OnTheWay, r)' /\ Whole(OnTheWay, r)'
    BY <1>1, <1>5, <1>14, <1>15 DEF Stream, Whole
<1> HIDE DEF OnTheWay
<1> QED
    BY <1>9, <1>16 DEF InOrder, UpTo

\* A connection that is lost between two replies leaves nothing behind.
LEMMA ReconnectInOrder ==
    ASSUME ReaderTypes, NothingElse, Reconnect, buffer = <<>>
    PROVE  InOrder' /\ Begun(buffer)'
<1>1. /\ wire' = <<>> /\ available' = <<>> /\ buffer' = <<>> /\ first' = sent + 1
      /\ UNCHANGED <<sent, delivered>>
    BY DEF Reconnect, readerVars
<1>2. OnTheWay' = <<>>
    <2>1. <<>> \in Seq(Fragments) /\ <<>> \o <<>> = <<>>
        BY EmptySeq, ConcatEmptySeq
    <2> QED
        BY <1>1, <2>1 DEF OnTheWay
<1>3. PICK l \in Nat, n \in Nat : l = Len(delivered) /\ n = sent
    BY SeqFacts DEF ReaderTypes
<1>4. ASSUME NEW k \in 1..l PROVE delivered[k].reply < n + 1
    <2>1. delivered \in Seq(Replies)
        BY DEF ReaderTypes
    <2>2. delivered[k] \in Replies /\ k \in DOMAIN delivered
        BY <1>3, <2>1, SeqFacts
    <2>3. delivered[k].reply \in Nat /\ delivered[k].reply <= n
        BY <1>3, <2>2 DEF Replies, NothingElse, Sent
    <2> QED
        BY <2>3
<1>5. Stream(<<>>, n + 1)' /\ Whole(<<>>, n + 1)'
    BY <1>1, <1>3 DEF Stream, Whole
<1> HIDE DEF OnTheWay
<1>6. InOrder'
    <2>1. /\ l \in 0..Len(delivered') /\ first' + Len(delivered') - l = n + 1
          /\ Len(delivered') - l = 0 /\ first' = n + 1 /\ delivered' = delivered
        BY <1>1, <1>3
    <2>2. \A k \in 1..l : delivered'[k].reply < first'
        BY <1>4, <2>1
    <2>3. \A k \in 1..(Len(delivered') - l) :
              delivered'[l + k] = [reply |-> first' + k - 1, pure |-> TRUE]
        BY <2>1
    <2> QED
        BY <1>2, <1>5, <2>1, <2>2, <2>3 DEF InOrder
<1>7. Begun(buffer)'
    BY <1>1 DEF Begun
<1> QED
    BY <1>6, <1>7

LEMMA RepliesFrom ==
    ASSUME NEW r \in Nat \ {0}, NEW c \in Nat
    PROVE  LET e == [k \in 1..c |-> [reply |-> r + k - 1, pure |-> TRUE]]
           IN  e \in Seq(Replies) /\ Len(e) = c
<1> DEFINE e == [k \in 1..c |-> [reply |-> r + k - 1, pure |-> TRUE]]
<1>1. \A k \in 1..c : r + k - 1 \in Nat \ {0}
    OBVIOUS
<1>2. \A k \in 1..c : [reply |-> r + k - 1, pure |-> TRUE] \in Replies
    BY <1>1 DEF Replies
<1>3. e \in [1..c -> Replies]
    BY <1>2
<1> HIDE DEF e
<1>4. e \in Seq(Replies)
    BY <1>3, IsASeq
<1>5. Len(e) = c
    BY <1>3, <1>4, LenProperties
<1> QED
    BY <1>4, <1>5 DEF e

\* The complete replies of what has arrived are delivered, and what is left is, with
\* what is still to arrive, the replies from there on.
LEMMA ReadInOrder ==
    ASSUME ReaderTypes, InOrder, ~broken, ReadyRead
    PROVE  InOrder' /\ Begun(buffer)' /\ ~broken'
<1> DEFINE s == buffer \o available
           t == OnTheWay
           got == GetReplies(s)
<1>1. /\ buffer' = got.rest /\ broken' = got.error /\ delivered' = delivered \o got.replies
      /\ available' = <<>> /\ UNCHANGED <<sent, wire, first>>
    BY DEF ReadyRead, netVars
<1>2. PICK r \in Nat \ {0} : UpTo(r) /\ Stream(t, r) /\ Whole(t, r)
    BY InOrderIs
<1>3. s \in Seq(Fragments) /\ t \in Seq(Fragments) /\ wire \in Seq(Fragments)
    BY OnTheWayFacts DEF ReaderTypes
<1>4. Stream(s, r)
    BY <1>2, Arrived
<1>5. PICK n \in Nat, w \in Nat :
          /\ Len(s) = n /\ Len(wire) = w /\ Len(t) = n + w
          /\ \A i \in 1..n : t[i] = s[i]
          /\ \A i \in 1..w : t[n + i] = wire[i]
    <2>1. PICK a \in Nat, b \in Nat, w \in Nat : a = Len(buffer) /\ b = Len(available) /\ w = Len(wire)
        BY OnTheWayFacts
    <2>2. /\ Len(s) = a + b /\ Len(t) = a + b + w
          /\ \A i \in 1..(a + b) : t[i] = s[i]
          /\ \A i \in 1..w : t[a + b + i] = wire[i]
        BY <2>1, OnTheWayFacts
    <2>3. a + b \in Nat
        BY <2>1
    <2> HIDE DEF s, t
    <2> QED
        BY <2>1, <2>2, <2>3
<1> HIDE DEF s, t
<1>6. PICK c \in 0..n : c = Count(s)
    BY <1>3, <1>5, CountFacts
<1>7. /\ got.error = FALSE
      /\ got.replies = [k \in 1..c |-> [reply |-> r + k - 1, pure |-> TRUE]]
    BY <1>3, <1>4, <1>5, <1>6, StreamIsRead
<1>8. PICK m \in 0..n :
          /\ Boundary(s, r, m, c) /\ got.rest = SubSeq(s, m + 1, n)
          /\ \A i \in (m + 1)..n : s[i].part < s[i].size /\ s[i].reply = s[m + 1].reply
    <2>1. Len(s) = n /\ s \in Seq(Fragments)
        BY <1>3, <1>5
    <2>2. \E m \in 0..n : /\ Boundary(s, r, m, Count(s))
                          /\ GetReplies(s).rest = SubSeq(s, m + 1, n)
                          /\ \A i \in (m + 1)..n : /\ s[i].part < s[i].size
                                                   /\ s[i].reply = s[m + 1].reply
        BY <1>4, <2>1, StreamIsRead
    <2> QED
        BY <1>6, <2>2
<1> HIDE DEF got
<1>9. PICK left \in Seq(Fragments) :
          /\ left = got.rest /\ Len(left) = n - m /\ DOMAIN left = 1..(n - m)
          /\ \A i \in 1..(n - m) : left[i] = s[m + i]
    <2>1. PICK p \in Nat \ {0} : p = m + 1
        BY <1>8
    <2>2. p <= n + 1 /\ n <= n /\ n - p + 1 = n - m /\ \A i \in 1..(n - m) : p + i - 1 = m + i
        BY <2>1
    <2> DEFINE x == SubSeq(s, p, n)
    <2>3. /\ x \in Seq(Fragments) /\ Len(x) = n - p + 1 /\ DOMAIN x = 1..(n - p + 1)
          /\ \A i \in 1..(n - p + 1) : x[i] = s[p + i - 1]
        <3>1. s \in Seq(Fragments) /\ n <= Len(s) /\ p <= n + 1
            BY <1>3, <1>5, <2>2
        <3> QED
            BY <3>1, SubSeqFacts
    <2>4. x = got.rest
        BY <1>8, <2>1
    <2> HIDE DEF x
    <2>5. /\ x \in Seq(Fragments) /\ Len(x) = n - m /\ DOMAIN x = 1..(n - m)
          /\ \A i \in 1..(n - m) : x[i] = s[m + i]
        BY <2>2, <2>3
    <2> QED
        BY <2>4, <2>5
<1>10. m \in Nat /\ c \in Nat /\ m <= n /\ n - m \in Nat
    BY <1>6, <1>8
<1>11. Begun(buffer)'
    <2>1. ASSUME NEW i \in 1..(n - m)
          PROVE  left[i].part < left[i].size /\ left[i].reply = left[1].reply
        <3>1. m + i \in (m + 1)..n /\ 1 \in 1..(n - m)
            BY <1>10
        <3> QED
            BY <1>8, <1>9, <3>1
    <2> QED
        BY <1>1, <1>9, <2>1 DEF Begun
<1> DEFINE u == left \o wire
<1>12. /\ u \in Seq(Fragments) /\ Len(u) = n - m + w
       /\ \A i \in 1..(n - m) : u[i] = left[i]
       /\ \A i \in 1..w : u[n - m + i] = wire[i]
    <2>1. /\ left \o wire \in Seq(Fragments) /\ Len(left \o wire) = Len(left) + Len(wire)
          /\ \A i \in 1..Len(left) : (left \o wire)[i] = left[i]
          /\ \A i \in 1..Len(wire) : (left \o wire)[Len(left) + i] = wire[i]
        BY <1>3, ConcatParts
    <2>2. Len(left) = n - m /\ Len(wire) = w
        BY <1>5, <1>9
    <2> HIDE DEF u
    <2> QED
        BY <2>1, <2>2 DEF u
<1>13. OnTheWay' = u
    <2>1. left \o <<>> = left
        BY ConcatEmptySeq
    <2> QED
        BY <1>1, <1>9, <2>1 DEF OnTheWay
<1> HIDE DEF u
<1>14. Stream(u, r + c) /\ Whole(u, r + c)
    <2>1. PICK l \in Nat : l = n + w /\ Len(t) = l /\ Len(u) = l - m /\ m <= l
        BY <1>5, <1>10, <1>12
    <2>2. Boundary(t, r, m, c)
        <3>1. m # 0 => m \in 1..n
            BY <1>8
        <3> QED
            BY <1>5, <1>8, <3>1 DEF Boundary
    <2>3. ASSUME NEW i \in 1..(l - m) PROVE u[i] = t[m + i]
        <3>1. CASE i <= n - m
            <4>1. i \in 1..(n - m) /\ m + i \in 1..n
                BY <1>10, <2>1, <3>1
            <4> QED
                BY <1>5, <1>9, <1>12, <4>1
        <3>2. CASE ~(i <= n - m)
            <4>1. PICK k \in 1..w : k = i - (n - m)
                BY <1>10, <2>1, <3>2
            <4>2. n - m + k = i /\ n + k = m + i
                BY <1>10, <4>1
            <4>3. u[n - m + k] = wire[k] /\ t[n + k] = wire[k]
                BY <1>5, <1>12
            <4> QED
                BY <4>2, <4>3
        <3> QED
            BY <3>1, <3>2
    <2>4. /\ t \in Seq(Fragments) /\ u \in Seq(Fragments) /\ Stream(t, r) /\ Whole(t, r)
          /\ r \in Nat \ {0} /\ m \in Nat /\ c \in Nat
        BY <1>2, <1>3, <1>10, <1>12
    <2> QED
        BY <2>1, <2>2, <2>3, <2>4, Suffix
<1>15. UpTo(r + c)'
    <2>1. PICK old \in 0..Len(delivered) :
              /\ \A k \in 1..old : delivered[k].reply < first
              /\ \A k \in 1..(Len(delivered) - old) :
                     delivered[old + k] = [reply |-> first + k - 1, pure |-> TRUE]
              /\ r = first + Len(delivered) - old
        BY <1>2 DEF UpTo
    <2>2. PICK l \in Nat, f \in Nat \ {0} : l = Len(delivered) /\ f = first
        BY SeqFacts DEF ReaderTypes
    <2>3. old \in Nat /\ old <= l /\ r = f + l - old
        BY <2>1, <2>2
    <2> DEFINE more == got.replies
               d == delivered \o more
    <2>4. more \in Seq(Replies) /\ Len(more) = c /\ \A k \in 1..c : more[k] = [reply |-> r + k - 1, pure |-> TRUE]
        <3> DEFINE e == [k \in 1..c |-> [reply |-> r + k - 1, pure |-> TRUE]]
        <3>3. e \in Seq(Replies) /\ Len(e) = c
            BY <1>10, RepliesFrom
        <3>4. \A k \in 1..c : e[k] = [reply |-> r + k - 1, pure |-> TRUE]
            OBVIOUS
        <3>5. more = e
            BY <1>7
        <3> HIDE DEF e, more
        <3> QED
            BY <3>3, <3>4, <3>5
    <2>5. delivered \in Seq(Replies)
        BY DEF ReaderTypes
    <2> HIDE DEF more
    <2>6. /\ d \in Seq(Replies) /\ Len(d) = l + c
          /\ \A i \in 1..l : d[i] = delivered[i]
          /\ \A i \in 1..c : d[l + i] = more[i]
        <3>1. /\ d \in Seq(Replies) /\ Len(d) = Len(delivered) + Len(more)
              /\ \A i \in 1..Len(delivered) : d[i] = delivered[i]
              /\ \A i \in 1..Len(more) : d[Len(delivered) + i] = more[i]
            <4>1. more \in Seq(Replies)
                BY <2>4
            <4> QED
                BY <2>5, <4>1, ConcatParts
        <3> HIDE DEF d
        <3> QED
            BY <2>2, <2>4, <3>1
    <2>7. delivered' = d /\ first' = first
        BY <1>1 DEF more
    <2> HIDE DEF d
    <2>8. ASSUME NEW k \in 1..old PROVE d[k].reply < f
        <3>1. k \in 1..l
            BY <2>3
        <3> QED
            BY <2>1, <2>2, <2>6, <3>1
    <2>9. ASSUME NEW k \in 1..(l + c - old) PROVE d[old + k] = [reply |-> f + k - 1, pure |-> TRUE]
        <3>1. CASE k <= l - old
            <4>1. k \in 1..(l - old) /\ old + k \in 1..l
                BY <2>3, <3>1
            <4> QED
                BY <2>1, <2>2, <2>6, <4>1
        <3>2. CASE ~(k <= l - old)
            <4>1. PICK j \in 1..c : j = k - (l - old)
                BY <1>10, <2>3, <3>2
            <4>2. l + j = old + k /\ r + j - 1 = f + k - 1
                BY <2>3, <4>1
            <4>3. d[l + j] = [reply |-> r + j - 1, pure |-> TRUE]
                BY <2>4, <2>6
            <4> QED
                BY <4>2, <4>3
        <3> QED
            BY <3>1, <3>2
    <2>10. old \in 0..(l + c) /\ r + c = f + (l + c) - old
        BY <1>10, <2>3
    <2>11. Len(delivered') = l + c /\ first' = f /\ delivered' = d
        BY <2>2, <2>6, <2>7
    <2>12. /\ old \in 0..Len(delivered')
           /\ \A k \in 1..old : delivered'[k].reply < first'
           /\ \A k \in 1..(Len(delivered') - old) :
                  delivered'[old + k] = [reply |-> first' + k - 1, pure |-> TRUE]
           /\ r + c = first' + Len(delivered') - old
        <3>1. old \in 0..Len(delivered') /\ r + c = first' + Len(delivered') - old
            BY <2>10, <2>11
        <3>2. \A k \in 1..old : delivered'[k].reply < first'
            BY <2>8, <2>11
        <3>3. \A k \in 1..(Len(delivered') - old) :
                  delivered'[old + k] = [reply |-> first' + k - 1, pure |-> TRUE]
            <4>1. Len(delivered') - old = l + c - old
                BY <2>11
            <4>2. \A k \in 1..(l + c - old) : d[old + k] = [reply |-> f + k - 1, pure |-> TRUE]
                BY <2>9
            <4> QED
                BY <2>11, <4>1, <4>2
        <3> QED
            BY <3>1, <3>2, <3>3
    <2> QED
        BY <2>12 DEF UpTo
<1>16. Stream(OnTheWay, r + c)' /\ Whole(OnTheWay, r + c)'
    BY <1>1, <1>13, <1>14 DEF Stream, Whole
<1> HIDE DEF OnTheWay
<1>17. InOrder'
    BY <1>15, <1>16 DEF InOrder, UpTo
<1> QED
    BY <1>1, <1>7, <1>11, <1>17

\* A reply that has begun goes on with its own fragments.
LEMMA NoGarbage ==
    ASSUME ReaderTypes, InOrder, Begun(buffer), ReadGarbage
    PROVE  FALSE
<1>1. buffer # <<>> /\ available # <<>> /\ Head(available).reply # Head(buffer).reply
    BY DEF ReadGarbage
<1>2. buffer \in Seq(Fragments) /\ available \in Seq(Fragments)
    BY DEF ReaderTypes
<1>3. PICK a \in Nat \ {0}, b \in Nat \ {0}, w \in Nat :
          a = Len(buffer) /\ b = Len(available) /\ w = Len(wire)
    BY <1>1, <1>2, EmptySeq, OnTheWayFacts
<1>4. Head(available) = available[1] /\ Head(buffer) = buffer[1]
    BY <1>1, <1>2, HeadTailProperties
<1>5. PICK r \in Nat \ {0} : Stream(OnTheWay, r)
    BY InOrderIs
<1> DEFINE t == OnTheWay
<1>6. /\ Len(t) = a + b + w
      /\ \A i \in 1..a : t[i] = buffer[i]
      /\ \A i \in 1..b : t[a + i] = available[i]
    BY <1>3, OnTheWayFacts
<1> HIDE DEF t
<1>7. Follows(t[a], t[a + 1])
    <2>1. a \in 1..(Len(t) - 1)
        BY <1>3, <1>6
    <2> QED
        BY <1>5, <2>1 DEF Stream, t
<1>8. t[a] = buffer[a] /\ t[a + 1] = available[1]
    BY <1>3, <1>6
<1>9. buffer[a].part < buffer[a].size /\ buffer[a].reply = buffer[1].reply
    <2>1. a \in DOMAIN buffer
        BY <1>2, <1>3, SeqFacts
    <2> QED
        BY <2>1 DEF Begun
<1>10. available[1].reply = buffer[1].reply
    BY <1>7, <1>8, <1>9 DEF Follows
<1> QED
    BY <1>1, <1>4, <1>10

LEMMA ReaderStep == ReaderInvariant /\ [Next]_vars => ReaderInvariant'
<1> SUFFICES ASSUME ReaderInvariant, [Next]_vars PROVE ReaderInvariant'
    OBVIOUS
<1>1. ReaderTypes /\ NothingElse /\ (~torn => ~broken /\ Begun(buffer) /\ InOrder)
    BY DEF ReaderInvariant
<1>2. ReaderTypes' /\ NothingElse'
    BY <1>1, ReaderTypesKept
<1>3. ASSUME ~torn' PROVE ~broken' /\ Begun(buffer)' /\ InOrder'
    <2>1. ~torn
        BY <1>3 DEF Next, ServerSends, Arrive, Reconnect, ReadyRead, ReadGarbage, readerVars, netVars, vars
    <2>2. ~broken /\ Begun(buffer) /\ InOrder
        BY <1>1, <2>1
    <2>3. ASSUME NEW size \in 1..MaxSize, ServerSends(size) PROVE ~broken' /\ Begun(buffer)' /\ InOrder'
        <3>1. buffer' = buffer /\ broken' = broken
            BY <2>3 DEF ServerSends, readerVars
        <3> QED
            BY <1>1, <2>2, <2>3, <3>1, ServerInOrder DEF Begun
    <2>4. ASSUME NEW n \in 1..Len(wire), Arrive(n) PROVE ~broken' /\ Begun(buffer)' /\ InOrder'
        <3>1. buffer' = buffer /\ broken' = broken
            BY <2>4 DEF Arrive, readerVars
        <3> QED
            BY <1>1, <2>2, <2>4, <3>1, ArriveInOrder DEF Begun
    <2>5. CASE Reconnect
        <3>1. buffer = <<>> /\ broken' = broken
            BY <1>3, <2>5 DEF Reconnect, readerVars
        <3> QED
            BY <1>1, <2>2, <2>5, <3>1, ReconnectInOrder
    <2>6. CASE ReadyRead
        BY <1>1, <2>2, <2>6, ReadInOrder
    <2>7. CASE ReadGarbage
        BY <1>1, <2>2, <2>7, NoGarbage
    <2>8. CASE UNCHANGED vars
        <3>1. /\ UNCHANGED <<buffer, broken, available, wire, sent, first, delivered>>
            BY <2>8 DEF vars, netVars, readerVars
        <3>2. OnTheWay' = OnTheWay
            BY <3>1 DEF OnTheWay
        <3> HIDE DEF OnTheWay
        <3> QED
            BY <2>2, <3>1, <3>2 DEF Begun, InOrder, Stream, Whole
    <2> QED
        BY <2>3, <2>4, <2>5, <2>6, <2>7, <2>8 DEF Next
<1> QED
    BY <1>2, <1>3 DEF ReaderInvariant

\* However the bytes of the replies arrive, readyRead delivers the replies of a
\* connection in order and whole, unless an earlier one was lost in the middle of a
\* reply.
THEOREM RepliesInOrder == Spec => []DeliveredInOrder
<1>1. ReaderInvariant => DeliveredInOrder
    BY DEF ReaderInvariant, InOrder, DeliveredInOrder
<1> QED
    BY <1>1, InitReader, ReaderStep, PTL DEF Spec

-----------------------------------------------------------------------------
(* The command line. *)

Bytes == Characters \union {Backslash}

TextTypes ==
    /\ meant \in Seq(Seq(Characters))
    /\ typing \in {"blank", "bare", "closed"} \union Delimiters
    /\ mistyped \in BOOLEAN
    /\ typing \in {"bare"} \union Delimiters => meant # <<>>

SplitTypes == parts \in Seq(Seq(Bytes)) /\ part \in Seq(Bytes)

\* The arguments that were meant are the ones that are found, the last of them still
\* being collected: or it has been found.
Open(word) == meant = Append(parts, word)
Done == part = <<>> /\ meant = parts

\* Every key is read.
Settled ==
    \/ typing \in {"blank", "closed"} /\ delimiter = None /\ Done
    \/ typing = "bare" /\ delimiter = None /\ part # <<>> /\ Open(part)
    \/ typing \in Delimiters /\ delimiter = typing /\ Open(part)

\* The last key is a byte that the splitter has not seen.
Before(b) ==
    \/ typing = "blank" /\ IsSpace(b) /\ delimiter = None /\ (Done \/ (part # <<>> /\ Open(part)))
    \/ typing = "bare" /\ b \notin Delimiters \union Spaces /\ delimiter = None /\ Open(Append(part, b))
    \/ typing \in Delimiters /\ b = typing /\ delimiter = None /\ part = <<>> /\ Open(part)
    \/ typing \in Delimiters /\ b # typing /\ delimiter = typing /\ Open(Append(part, b))
    \/ typing = "closed" /\ b \in Delimiters /\ delimiter = b /\ Open(part)

\* The last key is a quote with a backslash: neither is seen, or the backslash is.
BeforeEscape(q) ==
    /\ typing \in {"bare", q} /\ delimiter = (IF typing = "bare" THEN None ELSE q)
    /\ Open(Append(part, q))
InEscape(q) ==
    /\ typing \in {"bare", q} /\ delimiter = (IF typing = "bare" THEN None ELSE q)
    /\ part # <<>> /\ Open(Append(Front(part), q))

\* Where the byte is that the splitter has not seen: typed, being decoded, or decoded.
Buffers(l, e, d) == line = l /\ escape = e /\ decoded = d
HexComing(d, e) ==
    \/ Buffers(<<Backslash, "x", d, e>>, <<>>, <<>>)
    \/ Buffers(<<"x", d, e>>, <<Backslash>>, <<>>)
    \/ Buffers(<<d, e>>, <<Backslash, "x">>, <<>>)
    \/ Buffers(<<e>>, <<Backslash, "x", d>>, <<>>)
Coming(b) ==
    \/ Buffers(<<>>, <<>>, <<b>>)
    \/ Buffers(<<b>>, <<>>, <<>>)
    \/ \E d, e \in HexDigits : FromHex(d, e) = b /\ HexComing(d, e)
EscapeComing(q) ==
    \/ Buffers(<<>>, <<>>, <<Backslash, q>>)
    \/ Buffers(<<Backslash, q>>, <<>>, <<>>)
    \/ Buffers(<<q>>, <<Backslash>>, <<>>)

KeysAreRead ==
    \/ Buffers(<<>>, <<>>, <<>>) /\ previous # Backslash /\ Settled
    \/ \E b \in Characters : Coming(b) /\ previous # Backslash /\ Before(b)
    \/ \E q \in Delimiters : EscapeComing(q) /\ previous # Backslash /\ BeforeEscape(q)
    \/ \E q \in Delimiters : Buffers(<<>>, <<>>, <<q>>) /\ previous = Backslash /\ InEscape(q)

TextInvariant == TextTypes /\ (~mistyped => SplitTypes /\ KeysAreRead)

-----------------------------------------------------------------------------

\* What the definitions of the alphabet come to.
Alphabet ==
    /\ Backslash \notin Characters /\ None \notin Bytes /\ Backslash \notin Delimiters
    /\ Delimiters \subseteq Characters /\ Spaces \subseteq Characters
    /\ \A b \in Delimiters : b \notin Spaces
    /\ None \notin Delimiters /\ "blank" \notin Delimiters /\ "bare" \notin Delimiters
    /\ "closed" \notin Delimiters /\ "x" \notin Delimiters /\ "x" # Backslash
    /\ Characters \subseteq Bytes /\ Backslash \in Bytes /\ Backslash \notin Spaces

LEMMA AlphabetFacts == Alphabet
BY DEF Alphabet, Bytes, Characters, Plain, Binary, Spaces, Delimiters, Backslash, None

LEMMA FrontOfAppend ==
    ASSUME NEW S, NEW s \in Seq(S), NEW e \in S
    PROVE  /\ Append(s, e) \in Seq(S) /\ Append(s, e) # <<>>
           /\ Front(Append(s, e)) = s /\ Last(Append(s, e)) = e
<1> DEFINE t == Append(s, e)
<1>1. /\ t \in Seq(S) /\ Len(t) = Len(s) + 1 /\ Len(s) \in Nat
      /\ DOMAIN s = 1..Len(s) /\ DOMAIN t = 1..(Len(s) + 1)
      /\ \A k \in DOMAIN s : k \in DOMAIN t /\ t[k] = s[k]
      /\ t[Len(s) + 1] = e
    BY AppendFacts
<1> HIDE DEF t
<1>2. Front(t) = SubSeq(t, 1, Len(s))
    <2>1. Len(t) - 1 = Len(s)
        BY <1>1
    <2> QED
        BY <2>1 DEF Front
<1>3. /\ SubSeq(t, 1, Len(s)) \in Seq(S)
      /\ Len(SubSeq(t, 1, Len(s))) = Len(s)
      /\ \A i \in 1..Len(s) : SubSeq(t, 1, Len(s))[i] = t[i]
    <2>1. \A i \in 1..Len(s) : t[i] \in S
        BY <1>1, SeqFacts
    <2>2. /\ SubSeq(t, 1, Len(s)) \in Seq(S)
          /\ Len(SubSeq(t, 1, Len(s))) = IF 1 <= Len(s) THEN Len(s) - 1 + 1 ELSE 0
          /\ \A i \in 1..(Len(s) - 1 + 1) : SubSeq(t, 1, Len(s))[i] = t[1 + i - 1]
        BY <1>1, <2>1, SubSeqProperties
    <2>3. (IF 1 <= Len(s) THEN Len(s) - 1 + 1 ELSE 0) = Len(s) /\ Len(s) - 1 + 1 = Len(s)
        BY <1>1
    <2>4. \A i \in 1..Len(s) : 1 + i - 1 = i
        BY <1>1
    <2> QED
        BY <2>2, <2>3, <2>4
<1>4. Front(t) = s
    <2> DEFINE f == SubSeq(t, 1, Len(s))
    <2>1. f \in Seq(S) /\ Len(f) = Len(s) /\ \A i \in 1..Len(s) : f[i] = s[i]
        BY <1>1, <1>3
    <2> HIDE DEF f
    <2>2. f = s
        BY <2>1, SeqEqual
    <2> QED
        BY <1>2, <2>2 DEF f
<1>5. Last(t) = e
    BY <1>1 DEF Last
<1>6. t # <<>>
    BY <1>1
<1> QED
    BY <1>1, <1>4, <1>5, <1>6 DEF t

\* The escape sequences, as the decoder collects them.
LEMMA AppendTuples ==
    ASSUME NEW a, NEW b, NEW c
    PROVE  Append(<<a>>, b) = <<a, b>> /\ Append(<<a, b>>, c) = <<a, b, c>>
<1> DEFINE S == {a, b, c}
<1>1. <<a>> \in Seq(S) /\ <<a, b>> \in Seq(S) /\ <<a, b, c>> \in Seq(S)
    OBVIOUS
<1>2. Append(<<a>>, b) = <<a, b>>
    <2> DEFINE t == Append(<<a>>, b)
    <2>1. Len(<<a>>) = 1 /\ a \in S /\ b \in S
        OBVIOUS
    <2>2. t \in Seq(S) /\ Len(t) = 1 + 1 /\ t[1] = a /\ t[1 + 1] = b
        BY <1>1, <2>1, AppendProperties
    <2> HIDE DEF t, S
    <2>3. Len(t) = 2 /\ t[1] = a /\ t[2] = b
        BY <2>2
    <2>4. \A i \in 1..2 : t[i] = <<a, b>>[i]
        BY <2>3
    <2>5. t = <<a, b>>
        BY <1>1, <2>2, <2>3, <2>4, SeqEqual
    <2> QED
        BY <2>5 DEF t
<1>3. Append(<<a, b>>, c) = <<a, b, c>>
    <2> DEFINE t == Append(<<a, b>>, c)
    <2>1. Len(<<a, b>>) = 2 /\ b \in S /\ c \in S
        OBVIOUS
    <2>2. t \in Seq(S) /\ Len(t) = 2 + 1 /\ t[1] = a /\ t[2] = b /\ t[2 + 1] = c
        BY <1>1, <2>1, AppendProperties
    <2> HIDE DEF t, S
    <2>3. Len(t) = 3 /\ t[1] = a /\ t[2] = b /\ t[3] = c
        BY <2>2
    <2>4. \A i \in 1..3 : t[i] = <<a, b, c>>[i]
        BY <2>3
    <2>5. t = <<a, b, c>>
        BY <1>1, <2>2, <2>3, <2>4, SeqEqual
    <2> QED
        BY <2>5 DEF t
<1> QED
    BY <1>2, <1>3

LEMMA FrontFacts ==
    ASSUME NEW S, NEW s \in Seq(S), s # <<>>
    PROVE  Front(s) \in Seq(S) /\ Last(s) \in S
<1>1. Len(s) \in Nat \ {0} /\ \A i \in 1..Len(s) : s[i] \in S
    BY SeqFacts, TailFacts
<1>2. SubSeq(s, 1, Len(s) - 1) \in Seq(S)
    <2>1. \A i \in 1..(Len(s) - 1) : s[i] \in S
        BY <1>1
    <2> QED
        BY <1>1, <2>1, SubSeqProperties
<1> QED
    BY <1>1, <1>2 DEF Front, Last

\* One more character in the last argument, however one looks at it.
LEMMA Extend ==
    ASSUME SplitTypes, NEW word \in Seq(Bytes), Open(word), NEW c \in Bytes
    PROVE  Front(meant) \o <<Append(Last(meant), c)>> = Append(parts, Append(word, c))
<1> DEFINE longer == Append(word, c)
<1>1. Front(meant) = parts /\ Last(meant) = word
    BY FrontOfAppend DEF SplitTypes, Open
<1>2. longer \in Seq(Bytes)
    BY AppendFacts
<1> HIDE DEF longer
<1>3. parts \o <<longer>> = Append(parts, longer)
    BY <1>2, AppendIsConcat DEF SplitTypes
<1> QED
    BY <1>1, <1>3 DEF longer

\* What was meant in types.
LEMMA UserTypes == ASSUME TextTypes, [TextNext]_textVars PROVE TextTypes'
<1> USE DEF TextTypes
<1>1. ASSUME NEW c \in Characters, TypeBare(c) \/ TypeQuoted(c) PROVE TextTypes'
    <2>1. CASE typing \in {"bare"} \union Delimiters /\ meant' = Front(meant) \o <<Append(Last(meant), c)>>
        <3>1. Front(meant) \in Seq(Seq(Characters)) /\ Last(meant) \in Seq(Characters)
            BY <2>1, FrontFacts
        <3> DEFINE longer == Append(Last(meant), c)
        <3>2. longer \in Seq(Characters)
            BY <3>1, AppendFacts
        <3>3. meant' = Front(meant) \o <<longer>>
            BY <2>1
        <3> HIDE DEF longer
        <3>4. meant' = Append(Front(meant), longer)
            BY <3>1, <3>2, <3>3, AppendIsConcat
        <3>5. meant' \in Seq(Seq(Characters)) /\ meant' # <<>>
            BY <3>1, <3>2, <3>4, FrontOfAppend
        <3> QED
            BY <1>1, <3>5 DEF TypeBare, TypeQuoted
    <2>2. CASE TypeBare(c) /\ typing # "bare"
        <3>1. meant' = Append(meant, <<c>>) /\ <<c>> \in Seq(Characters)
            <4>1. meant' = Append(meant, <<c>>)
                BY <2>2 DEF TypeBare
            <4>2. <<c>> \in Seq(Characters)
                OBVIOUS
            <4> QED
                BY <4>1, <4>2
        <3>2. meant' \in Seq(Seq(Characters)) /\ meant' # <<>>
            BY <3>1, FrontOfAppend
        <3> QED
            BY <2>2, <3>2 DEF TypeBare
    <2> QED
        BY <1>1, <2>1, <2>2 DEF TypeBare, TypeQuoted
<1>2. ASSUME NEW quote \in Delimiters, OpenQuote(quote) PROVE TextTypes'
    <2>1. meant' = Append(meant, <<>>) /\ <<>> \in Seq(Characters)
        BY <1>2, EmptySeq DEF OpenQuote
    <2>2. meant' \in Seq(Seq(Characters)) /\ meant' # <<>>
        BY <2>1, FrontOfAppend
    <2> QED
        BY <1>2, <2>2 DEF OpenQuote
<1>3. CASE CloseQuote \/ \E b \in Spaces : Blank(b)
    BY <1>3, AlphabetFacts DEF Blank, CloseQuote, Alphabet
<1>4. ASSUME NEW digits, Mistype(digits) PROVE TextTypes'
    BY <1>4 DEF Mistype
<1>5. CASE DecodeCharacter \/ SplitByte \/ UNCHANGED textVars
    BY <1>5 DEF DecodeCharacter, SplitByte, userVars, textVars
<1> QED
    BY <1>1, <1>2, <1>3, <1>4, <1>5 DEF TextNext

\* A line that is read leaves nothing behind in the decoder.
LEMMA NothingLeft ==
    ASSUME KeysAreRead, line = <<>>, decoded = <<>>
    PROVE  Settled /\ previous # Backslash /\ escape = <<>>
<1>1. \A b : ~Coming(b)
    BY DEF Coming, HexComing, Buffers
<1>2. \A q : ~EscapeComing(q) /\ ~Buffers(<<>>, <<>>, <<q>>)
    BY DEF EscapeComing, Buffers
<1> QED
    BY <1>1, <1>2 DEF KeysAreRead, Buffers

\* A key leaves the splitter alone.
LEMMA KeyPressed ==
    ASSUME KeysAreRead, SplitTypes, NEW characters, Press(characters)
    PROVE  /\ Settled /\ previous # Backslash /\ previous' = previous
           /\ SplitTypes' /\ delimiter' = delimiter /\ part' = part /\ parts' = parts
           /\ line' = characters /\ escape' = <<>> /\ decoded' = <<>>
<1>1. Settled /\ previous # Backslash /\ escape = <<>> /\ decoded = <<>>
    BY NothingLeft DEF Press
<1> QED
    BY <1>1 DEF Press, splitVars, SplitTypes

\* A byte that is no backslash comes as itself, or as \xhh.
LEMMA ByteComes ==
    ASSUME NEW b \in Characters, line' \in Typings(b), escape' = <<>>, decoded' = <<>>
    PROVE  Coming(b)'
<1>1. CASE line' = <<b>>
    BY <1>1 DEF Coming, Buffers
<1>2. ASSUME NEW d \in HexDigits, NEW e \in HexDigits, FromHex(d, e) = b,
             line' = <<Backslash, "x", d, e>>
      PROVE  Coming(b)'
    <2>1. HexComing(d, e)'
        BY <1>2 DEF HexComing, Buffers
    <2> QED
        BY <1>2, <2>1 DEF Coming
<1>3. \/ line' = <<b>>
      \/ \E digits \in HexDigits \X HexDigits :
             /\ FromHex(digits[1], digits[2]) = b
             /\ line' = Escaped(digits[1], digits[2])
    BY DEF Typings
<1> QED
    BY <1>1, <1>2, <1>3 DEF Escaped

LEMMA BlankRead ==
    ASSUME KeysAreRead, SplitTypes, NEW b \in Spaces, Blank(b)
    PROVE  SplitTypes' /\ KeysAreRead'
<1>0. PICK typed \in Typings(b) : Press(typed)
    BY DEF Blank
<1>1. /\ Settled /\ previous # Backslash /\ previous' = previous
      /\ SplitTypes' /\ delimiter' = delimiter /\ part' = part /\ parts' = parts
      /\ line' = typed /\ escape' = <<>> /\ decoded' = <<>>
    BY <1>0, KeyPressed
<1>2. b \in Characters /\ Alphabet
    BY AlphabetFacts DEF Alphabet
<1>3. Coming(b)'
    BY <1>0, <1>1, <1>2, ByteComes
<1>4. Before(b)'
    <2>1. typing' = "blank" /\ meant' = meant /\ typing \notin Delimiters /\ delimiter = None
        BY <1>1, <1>2 DEF Blank, Settled, Alphabet
    <2>2. Done \/ (part # <<>> /\ Open(part))
        BY <1>1, <2>1 DEF Settled
    <2>3. Done' \/ (part' # <<>> /\ Open(part)')
        BY <1>1, <2>1, <2>2 DEF Done, Open
    <2> QED
        BY <1>1, <2>1, <2>3 DEF Before, IsSpace
<1> QED
    BY <1>1, <1>2, <1>3, <1>4 DEF KeysAreRead

\* A character, with the argument it goes into: an escaped quote or a byte.
LEMMA CharacterRead ==
    ASSUME KeysAreRead, SplitTypes, NEW c \in Characters, TypeBare(c) \/ TypeQuoted(c)
    PROVE  SplitTypes' /\ KeysAreRead'
<1> DEFINE escaped == (TypeBare(c) /\ c \in Delimiters) \/ (TypeQuoted(c) /\ c = typing)
<1>1. /\ Settled /\ previous # Backslash /\ previous' = previous
      /\ SplitTypes' /\ delimiter' = delimiter /\ part' = part /\ parts' = parts
      /\ line' \in (IF escaped THEN {<<Backslash, c>>} ELSE Typings(c))
      /\ escape' = <<>> /\ decoded' = <<>>
    <2>1. PICK typed \in (IF escaped THEN {<<Backslash, c>>} ELSE Typings(c)) : Press(typed)
        BY AlphabetFacts DEF TypeBare, TypeQuoted, Alphabet
    <2> HIDE DEF escaped
    <2> QED
        BY <2>1, KeyPressed
<1>2. Alphabet /\ part \in Seq(Bytes) /\ c \in Bytes
    BY AlphabetFacts DEF Alphabet, SplitTypes
<1>3. Open(Append(part, c))'
    <2>1. CASE typing \in {"bare"} \union Delimiters
        <3>1. Open(part) /\ meant' = Front(meant) \o <<Append(Last(meant), c)>>
            BY <1>1, <1>2, <2>1 DEF Settled, TypeBare, TypeQuoted, Alphabet
        <3>2. meant' = Append(parts, Append(part, c))
            BY <1>2, <3>1, Extend
        <3> QED
            BY <1>1, <3>2 DEF Open
    <2>2. CASE typing = "blank"
        <3>1. Done /\ meant' = Append(meant, <<c>>)
            BY <1>1, <1>2, <2>2 DEF Settled, TypeBare, TypeQuoted, Alphabet
        <3>2. Append(<<>>, c) = <<c>>
            OBVIOUS
        <3> QED
            BY <1>1, <3>1, <3>2 DEF Open, Done
    <2> QED
        BY <2>1, <2>2 DEF TypeBare, TypeQuoted
<1>4. /\ typing' \in {"bare", typing} /\ typing' \in {"bare"} \union Delimiters
      /\ delimiter' = (IF typing' = "bare" THEN None ELSE typing')
      /\ typing' = "bare" => c \notin Spaces
    BY <1>1, <1>2 DEF TypeBare, TypeQuoted, Settled, Alphabet
<1>5. CASE escaped
    <2>1. c \in Delimiters /\ typing' \in {"bare", c}
        BY <1>5 DEF TypeBare, TypeQuoted
    <2>2. BeforeEscape(c)'
        BY <1>3, <1>4, <2>1 DEF BeforeEscape
    <2>3. EscapeComing(c)'
        BY <1>1, <1>5 DEF EscapeComing, Buffers
    <2> QED
        BY <1>1, <2>1, <2>2, <2>3 DEF KeysAreRead
<1>6. CASE ~escaped
    <2>1. Before(c)'
        <3>1. CASE typing' = "bare"
            <4>1. c \notin Delimiters \union Spaces
                BY <1>2, <1>4, <1>6, <3>1 DEF TypeBare, TypeQuoted, Alphabet
            <4> QED
                BY <1>3, <1>4, <3>1, <4>1 DEF Before
        <3>2. CASE typing' \in Delimiters
            <4>1. c # typing' /\ typing' # "bare"
                BY <1>2, <1>6, <3>2 DEF TypeBare, TypeQuoted, Alphabet
            <4> QED
                BY <1>3, <1>4, <3>2, <4>1 DEF Before
        <3> QED
            BY <1>4, <3>1, <3>2
    <2>2. Coming(c)'
        <3>1. line' \in Typings(c)
            BY <1>1, <1>6
        <3> QED
            BY <1>1, <3>1, ByteComes
    <2> QED
        BY <1>1, <2>1, <2>2 DEF KeysAreRead
<1> QED
    BY <1>5, <1>6

\* A quote that opens or closes an argument.
LEMMA QuoteRead ==
    ASSUME KeysAreRead, SplitTypes, CloseQuote \/ \E quote \in Delimiters : OpenQuote(quote)
    PROVE  SplitTypes' /\ KeysAreRead'
<1>1. PICK b \in Delimiters : (CloseQuote /\ b = typing) \/ OpenQuote(b)
    BY DEF CloseQuote
<1>2. b \in Characters /\ <<b>> \in Typings(b)
    BY AlphabetFacts DEF Alphabet, Typings
<1>3. /\ Settled /\ previous # Backslash /\ previous' = previous
      /\ SplitTypes' /\ delimiter' = delimiter /\ part' = part /\ parts' = parts
      /\ line' = <<b>> /\ escape' = <<>> /\ decoded' = <<>>
    BY <1>1, KeyPressed DEF CloseQuote, OpenQuote
<1>4. Coming(b)'
    BY <1>2, <1>3, ByteComes
<1>5. Before(b)'
    <2>1. CASE CloseQuote /\ b = typing
        <3>1. delimiter = b /\ Open(part) /\ typing' = "closed" /\ meant' = meant
            BY <1>3, <2>1, AlphabetFacts DEF Settled, CloseQuote, Alphabet
        <3> QED
            BY <1>3, <3>1 DEF Before, Open
    <2>2. CASE OpenQuote(b)
        <3>1. typing' = b /\ delimiter = None /\ Done /\ meant' = Append(meant, <<>>)
            BY <1>3, <2>2, AlphabetFacts DEF Settled, OpenQuote, Alphabet
        <3> QED
            BY <1>3, <3>1 DEF Before, Open, Done
    <2> QED
        BY <1>1, <2>1, <2>2
<1>6. b \in Characters
    BY AlphabetFacts DEF Alphabet
<1> QED
    BY <1>3, <1>4, <1>5, <1>6 DEF KeysAreRead

\* One character of printableStringToBinary, case by case.
LEMMA DecoderStep ==
    ASSUME DecodeCharacter, NEW c, Head(line) = c
    PROVE  /\ Len(escape) = 0 /\ c # Backslash => decoded' = <<c>> /\ escape' = <<>>
           /\ Len(escape) = 0 /\ c = Backslash => decoded' = <<>> /\ escape' = <<c>>
           /\ Len(escape) = 1 /\ c = "x" => decoded' = <<>> /\ escape' = Append(escape, c)
           /\ Len(escape) = 1 /\ c # "x" => decoded' = <<Backslash, c>> /\ escape' = <<>>
           /\ Len(escape) = 2 /\ c \in HexDigits => decoded' = <<>> /\ escape' = Append(escape, c)
           /\ Len(escape) = 3 /\ c \in HexDigits =>
                  decoded' = <<FromHex(escape[3], c)>> /\ escape' = <<>>
<1> DEFINE n == Len(escape)
<1>1. CASE n = 0
    <2>1. ~(n >= 2) /\ ~(n = 1) /\ n # 2 /\ n # 3
        BY <1>1
    <2> QED
        BY <2>1 DEF DecodeCharacter, AfterX, AfterBackslash, Decode
<1>2. CASE n = 1
    <2>1. ~(n >= 2) /\ n # 0 /\ n # 2 /\ n # 3
        BY <1>2
    <2>2. IF c = "x" THEN Decode(<<>>, Append(escape, c)) ELSE Decode(<<Backslash, c>>, <<>>)
        BY <1>2, <2>1, Zenon DEF DecodeCharacter, AfterBackslash
    <2> QED
        BY <1>2, <2>1, <2>2 DEF Decode
<1>3. CASE n \in {2, 3}
    <2>1. n >= 2 /\ n # 1 /\ n # 0
        BY <1>3
    <2>2. c \in HexDigits => IF n = 3 THEN Decode(<<FromHex(escape[3], c)>>, <<>>)
                            ELSE Decode(<<>>, Append(escape, c))
        BY <2>1, Zenon DEF DecodeCharacter, AfterX
    <2>3. CASE n = 2
        <3>1. n # 3
            BY <2>3
        <3> QED
            BY <2>1, <2>2, <2>3, <3>1 DEF Decode
    <2>4. CASE n = 3
        <3>1. n # 2
            BY <2>4
        <3> QED
            BY <2>1, <2>2, <2>4, <3>1 DEF Decode
    <2> QED
        BY <1>3, <2>3, <2>4
<1> QED
    BY <1>1, <1>2, <1>3

\* The decoder takes one character of \xhh.
LEMMA HexRead ==
    ASSUME DecodeCharacter, NEW d \in HexDigits, NEW e \in HexDigits, HexComing(d, e)
    PROVE  HexComing(d, e)' \/ Buffers(<<>>, <<>>, <<FromHex(d, e)>>)'
<1>1. line # <<>> /\ decoded = <<>> /\ line' = Tail(line)
    BY DEF DecodeCharacter
<1>2. CASE Buffers(<<Backslash, "x", d, e>>, <<>>, <<>>)
    <2>1. Buffers(<<"x", d, e>>, <<Backslash>>, <<>>)'
        BY <1>2 DEF Buffers, DecodeCharacter, Decode
    <2> QED
        BY <2>1 DEF HexComing
<1>3. CASE Buffers(<<"x", d, e>>, <<Backslash>>, <<>>)
    <2>1. Buffers(<<d, e>>, <<Backslash, "x">>, <<>>)'
        <3>1. Len(<<Backslash>>) = 1 /\ Append(<<Backslash>>, "x") = <<Backslash, "x">>
            BY AppendTuples
        <3>2. Head(<<"x", d, e>>) = "x" /\ Tail(<<"x", d, e>>) = <<d, e>>
            OBVIOUS
        <3>3. /\ Len(escape) = 1 /\ Head(line) = "x" /\ Tail(line) = <<d, e>>
              /\ Append(escape, "x") = <<Backslash, "x">>
            BY <1>3, <3>1, <3>2 DEF Buffers
        <3> QED
            BY <1>1, <3>3, DecoderStep DEF Buffers
    <2> QED
        BY <2>1 DEF HexComing
<1>4. CASE Buffers(<<d, e>>, <<Backslash, "x">>, <<>>)
    <2>1. Buffers(<<e>>, <<Backslash, "x", d>>, <<>>)'
        <3>1. Len(<<Backslash, "x">>) = 2 /\ Append(<<Backslash, "x">>, d) = <<Backslash, "x", d>>
            BY AppendTuples
        <3>2. Head(<<d, e>>) = d /\ Tail(<<d, e>>) = <<e>>
            OBVIOUS
        <3>3. /\ Len(escape) = 2 /\ Head(line) = d /\ Tail(line) = <<e>>
              /\ Append(escape, d) = <<Backslash, "x", d>>
            BY <1>4, <3>1, <3>2 DEF Buffers
        <3> QED
            BY <1>1, <3>3, DecoderStep DEF Buffers
    <2> QED
        BY <2>1 DEF HexComing
<1>5. CASE Buffers(<<e>>, <<Backslash, "x", d>>, <<>>)
    <2>1. Len(escape) = 3 /\ Head(line) = e /\ Tail(line) = <<>> /\ escape[3] = d
        BY <1>5 DEF Buffers
    <2>2. Buffers(<<>>, <<>>, <<FromHex(d, e)>>)'
        BY <1>1, <2>1, DecoderStep DEF Buffers
    <2> QED
        BY <2>2
<1> QED
    BY <1>2, <1>3, <1>4, <1>5 DEF HexComing

\* The decoder takes one character of a key; what follows a backslash waits until
\* it is complete.
LEMMA DecoderRead ==
    ASSUME KeysAreRead, SplitTypes, DecodeCharacter
    PROVE  SplitTypes' /\ KeysAreRead'
<1>1. /\ previous' = previous /\ delimiter' = delimiter /\ part' = part /\ parts' = parts
      /\ typing' = typing /\ meant' = meant /\ line # <<>> /\ decoded = <<>> /\ line' = Tail(line)
    BY DEF DecodeCharacter, userVars, splitVars
<1>2. SplitTypes'
    BY <1>1 DEF SplitTypes
<1>3. \A b : /\ Before(b) => Before(b)'
             /\ BeforeEscape(b) => BeforeEscape(b)'
    BY <1>1 DEF Before, BeforeEscape, Open, Done
<1>4. ASSUME NEW b \in Characters, Coming(b) PROVE Coming(b)'
    <2>0. Alphabet
        BY AlphabetFacts
    <2>1. CASE Buffers(<<b>>, <<>>, <<>>)
        <3>1. Buffers(<<>>, <<>>, <<b>>)'
            <4>1. Len(escape) = 0 /\ Head(line) = b /\ Tail(line) = <<>> /\ b # Backslash
                <5>1. b # Backslash
                    BY <2>0 DEF Alphabet
                <5>2. Len(<<>>) = 0 /\ Head(<<b>>) = b /\ Tail(<<b>>) = <<>>
                    OBVIOUS
                <5> QED
                    BY <2>1, <5>1, <5>2 DEF Buffers
            <4> QED
                BY <1>1, <4>1, DecoderStep DEF Buffers
        <3> QED
            BY <3>1 DEF Coming
    <2>2. ASSUME NEW d \in HexDigits, NEW e \in HexDigits, FromHex(d, e) = b, HexComing(d, e)
          PROVE  Coming(b)'
        BY <1>1, <2>2, HexRead DEF Coming
    <2>3. ~Buffers(<<>>, <<>>, <<b>>)
        BY <1>1 DEF Buffers
    <2> QED
        BY <1>4, <2>1, <2>2, <2>3 DEF Coming
<1>5. ASSUME NEW q \in Delimiters, EscapeComing(q) PROVE EscapeComing(q)'
    <2>0. Alphabet /\ q # "x"
        BY AlphabetFacts DEF Alphabet
    <2>1. CASE Buffers(<<Backslash, q>>, <<>>, <<>>)
        <3>1. Buffers(<<q>>, <<Backslash>>, <<>>)'
            BY <2>0, <2>1 DEF Buffers, DecodeCharacter, Decode
        <3> QED
            BY <3>1 DEF EscapeComing
    <2>2. CASE Buffers(<<q>>, <<Backslash>>, <<>>)
        <3>1. Buffers(<<>>, <<>>, <<Backslash, q>>)'
            <4>1. Len(escape) = 1 /\ Head(line) = q /\ Tail(line) = <<>>
                BY <2>2 DEF Buffers
            <4> QED
                BY <1>1, <2>0, <4>1, DecoderStep DEF Buffers
        <3> QED
            BY <3>1 DEF EscapeComing
    <2>3. ~Buffers(<<>>, <<>>, <<Backslash, q>>)
        BY <1>1 DEF Buffers
    <2> QED
        BY <1>5, <2>1, <2>2, <2>3 DEF EscapeComing
<1>6. /\ ~Buffers(<<>>, <<>>, <<>>)
      /\ \A q : ~Buffers(<<>>, <<>>, <<q>>)
    BY <1>1 DEF Buffers
<1>7. CASE \E b \in Characters : Coming(b) /\ previous # Backslash /\ Before(b)
    <2>1. PICK b \in Characters : Coming(b) /\ previous # Backslash /\ Before(b)
        BY <1>7
    <2>2. Coming(b)' /\ previous' # Backslash /\ Before(b)'
        BY <1>1, <1>3, <1>4, <2>1
    <2> QED
        BY <1>2, <2>2 DEF KeysAreRead
<1>8. CASE \E q \in Delimiters : EscapeComing(q) /\ previous # Backslash /\ BeforeEscape(q)
    <2>1. PICK q \in Delimiters : EscapeComing(q) /\ previous # Backslash /\ BeforeEscape(q)
        BY <1>8
    <2>2. EscapeComing(q)' /\ previous' # Backslash /\ BeforeEscape(q)'
        BY <1>1, <1>3, <1>5, <2>1
    <2> QED
        BY <1>2, <2>2 DEF KeysAreRead
<1> QED
    BY <1>2, <1>6, <1>7, <1>8 DEF KeysAreRead

\* The splitter, case by case.
LEMMA SplitterStep ==
    ASSUME SplitByte, NEW b, Head(decoded) = b
    PROVE  /\ IsSpace(b) /\ delimiter = None =>
                  /\ parts' = (IF part # <<>> THEN Append(parts, part) ELSE parts)
                  /\ part' = <<>> /\ delimiter' = delimiter
           /\ IsQuote(b) /\ ~IsSpace(b) /\ previous = Backslash =>
                  part' = Append(Front(part), b) /\ parts' = parts /\ delimiter' = delimiter
           /\ IsQuote(b) /\ ~IsSpace(b) /\ previous # Backslash =>
                  /\ parts' = (IF delimiter = None THEN parts ELSE Append(parts, part))
                  /\ delimiter' = (IF delimiter = None THEN b ELSE None)
                  /\ part' = <<>>
           /\ ~(IsSpace(b) /\ delimiter = None) /\ ~IsQuote(b) =>
                  part' = Append(part, b) /\ parts' = parts /\ delimiter' = delimiter
<1>1. CASE IsSpace(b) /\ delimiter = None
    <2>1. ~IsQuote(b)
        BY <1>1, AlphabetFacts DEF IsQuote, IsSpace, Alphabet
    <2> QED
        BY <1>1, <2>1 DEF SplitByte, EndOfWord
<1>2. CASE IsQuote(b) /\ ~IsSpace(b) /\ previous = Backslash
    BY <1>2 DEF SplitByte, EscapedQuote
<1>3. CASE IsQuote(b) /\ ~IsSpace(b) /\ previous # Backslash
    BY <1>3 DEF SplitByte, Quote
<1>4. CASE ~(IsSpace(b) /\ delimiter = None) /\ ~IsQuote(b)
    BY <1>4 DEF SplitByte, Collect
<1> QED
    BY <1>1, <1>2, <1>3, <1>4

\* The splitter sees the byte of a key.
LEMMA ByteSplit ==
    ASSUME SplitTypes, SplitByte, NEW b \in Characters, decoded = <<b>>, line = <<>>, escape = <<>>,
           previous # Backslash, Before(b)
    PROVE  SplitTypes' /\ KeysAreRead'
<1>1. Head(decoded) = b /\ Tail(decoded) = <<>>
    OBVIOUS
<1>2. /\ decoded' = <<>> /\ line' = <<>> /\ escape' = <<>> /\ previous' = b /\ b # Backslash
      /\ meant' = meant /\ typing' = typing
    BY <1>1, AlphabetFacts DEF SplitByte, userVars, Alphabet
<1>3. Buffers(<<>>, <<>>, <<>>)' /\ previous' # Backslash
    BY <1>2 DEF Buffers
<1>4. part \in Seq(Bytes) /\ parts \in Seq(Seq(Bytes)) /\ b \in Bytes /\ <<>> \in Seq(Bytes)
    BY EmptySeq, AlphabetFacts DEF SplitTypes, Alphabet
<1>5. Append(parts, part) \in Seq(Seq(Bytes)) /\ Append(part, b) \in Seq(Bytes) /\ Append(part, b) # <<>>
    BY <1>4, FrontOfAppend
<1> HIDE DEF SplitTypes
<1>6. CASE typing = "blank" /\ IsSpace(b) /\ delimiter = None /\ (Done \/ (part # <<>> /\ Open(part)))
    <2>1. /\ parts' = (IF part # <<>> THEN Append(parts, part) ELSE parts)
          /\ part' = <<>> /\ delimiter' = None
        BY <1>1, <1>6, SplitterStep
    <2>2. Settled' /\ SplitTypes'
        BY <1>2, <1>4, <1>5, <1>6, <2>1 DEF Settled, Done, Open, SplitTypes
    <2> QED
        BY <1>3, <2>2 DEF KeysAreRead
<1>7. CASE /\ typing = "bare" /\ b \notin Delimiters \union Spaces /\ delimiter = None
           /\ Open(Append(part, b))
    <2>1. ~IsQuote(b) /\ ~IsSpace(b)
        BY <1>7 DEF IsQuote, IsSpace
    <2>2. part' = Append(part, b) /\ parts' = parts /\ delimiter' = None
        BY <1>1, <1>7, <2>1, SplitterStep
    <2>3. Settled' /\ SplitTypes'
        BY <1>2, <1>4, <1>5, <1>7, <2>2 DEF Settled, Open, SplitTypes
    <2> QED
        BY <1>3, <2>3 DEF KeysAreRead
<1>8. CASE typing \in Delimiters /\ b = typing /\ delimiter = None /\ part = <<>> /\ Open(part)
    <2>1. IsQuote(b) /\ ~IsSpace(b)
        BY <1>8, AlphabetFacts DEF IsQuote, IsSpace, Alphabet
    <2>2. part' = <<>> /\ parts' = parts /\ delimiter' = b
        BY <1>1, <1>8, <2>1, SplitterStep
    <2>3. Settled' /\ SplitTypes'
        BY <1>2, <1>4, <1>8, <2>2 DEF Settled, Open, SplitTypes
    <2> QED
        BY <1>3, <2>3 DEF KeysAreRead
<1>9. CASE typing \in Delimiters /\ b # typing /\ delimiter = typing /\ Open(Append(part, b))
    <2>1. ~IsQuote(b) /\ delimiter # None
        BY <1>9, AlphabetFacts DEF IsQuote, IsSpace, Alphabet
    <2>2. part' = Append(part, b) /\ parts' = parts /\ delimiter' = delimiter
        BY <1>1, <2>1, SplitterStep
    <2>3. Settled' /\ SplitTypes'
        BY <1>2, <1>4, <1>5, <1>9, <2>2 DEF Settled, Open, SplitTypes
    <2> QED
        BY <1>3, <2>3 DEF KeysAreRead
<1>10. CASE typing = "closed" /\ b \in Delimiters /\ delimiter = b /\ Open(part)
    <2>1. IsQuote(b) /\ ~IsSpace(b) /\ delimiter # None
        BY <1>10, AlphabetFacts DEF IsQuote, IsSpace, Alphabet
    <2>2. part' = <<>> /\ parts' = Append(parts, part) /\ delimiter' = None
        BY <1>1, <2>1, SplitterStep
    <2>3. Settled' /\ SplitTypes'
        BY <1>2, <1>4, <1>5, <1>10, <2>2 DEF Settled, Done, Open, SplitTypes
    <2> QED
        BY <1>3, <2>3 DEF KeysAreRead
<1> QED
    BY <1>6, <1>7, <1>8, <1>9, <1>10 DEF Before

\* The splitter sees the backslash before a quote, and keeps it for the moment.
LEMMA BackslashSplit ==
    ASSUME SplitTypes, SplitByte, NEW q \in Delimiters, decoded = <<Backslash, q>>, line = <<>>,
           escape = <<>>, BeforeEscape(q)
    PROVE  SplitTypes' /\ KeysAreRead'
<1>1. Head(decoded) = Backslash /\ Tail(decoded) = <<q>>
    OBVIOUS
<1>2. /\ decoded' = <<q>> /\ line' = <<>> /\ escape' = <<>> /\ previous' = Backslash
      /\ meant' = meant /\ typing' = typing
    BY <1>1 DEF SplitByte, userVars
<1>3. ~IsQuote(Backslash) /\ ~IsSpace(Backslash)
    BY AlphabetFacts DEF IsQuote, IsSpace, Alphabet
<1>4. part' = Append(part, Backslash) /\ parts' = parts /\ delimiter' = delimiter
    BY <1>1, <1>3, SplitterStep
<1>5. part \in Seq(Bytes) /\ Backslash \in Bytes
    BY AlphabetFacts DEF SplitTypes, Alphabet
<1>6. part' \in Seq(Bytes) /\ part' # <<>> /\ Front(part') = part
    BY <1>4, <1>5, FrontOfAppend
<1>7. InEscape(q)' /\ SplitTypes'
    BY <1>2, <1>4, <1>6 DEF InEscape, BeforeEscape, Open, SplitTypes
<1>8. Buffers(<<>>, <<>>, <<q>>)'
    BY <1>2 DEF Buffers
<1> QED
    BY <1>2, <1>7, <1>8 DEF KeysAreRead

\* The quote behind it takes its place.
LEMMA EscapedQuoteSplit ==
    ASSUME SplitTypes, SplitByte, NEW q \in Delimiters, decoded = <<q>>, line = <<>>, escape = <<>>,
           previous = Backslash, InEscape(q)
    PROVE  SplitTypes' /\ KeysAreRead'
<1>1. Head(decoded) = q /\ Tail(decoded) = <<>>
    OBVIOUS
<1>2. /\ decoded' = <<>> /\ line' = <<>> /\ escape' = <<>> /\ previous' = q /\ q # Backslash
      /\ meant' = meant /\ typing' = typing
    BY <1>1, AlphabetFacts DEF SplitByte, userVars, Alphabet
<1>3. IsQuote(q) /\ ~IsSpace(q) /\ q \in Bytes
    BY AlphabetFacts DEF IsQuote, IsSpace, InEscape, Alphabet
<1>4. part' = Append(Front(part), q) /\ parts' = parts /\ delimiter' = delimiter
    BY <1>1, <1>3, SplitterStep
<1>5. Front(part) \in Seq(Bytes)
    BY FrontFacts DEF SplitTypes, InEscape
<1>6. part' \in Seq(Bytes) /\ part' # <<>>
    BY <1>3, <1>4, <1>5, FrontOfAppend
<1>7. Settled' /\ SplitTypes'
    BY <1>2, <1>4, <1>6 DEF Settled, InEscape, Open, SplitTypes
<1>8. Buffers(<<>>, <<>>, <<>>)'
    BY <1>2 DEF Buffers
<1> QED
    BY <1>2, <1>7, <1>8 DEF KeysAreRead

LEMMA SplitterRead ==
    ASSUME KeysAreRead, SplitTypes, SplitByte
    PROVE  SplitTypes' /\ KeysAreRead'
<1>1. decoded # <<>>
    BY DEF SplitByte
<1>2. CASE \E b \in Characters : Coming(b) /\ previous # Backslash /\ Before(b)
    <2>1. PICK b \in Characters : Coming(b) /\ previous # Backslash /\ Before(b)
        BY <1>2
    <2>2. Buffers(<<>>, <<>>, <<b>>)
        BY <1>1, <2>1 DEF Coming, HexComing, Buffers
    <2> QED
        BY <2>1, <2>2, ByteSplit DEF Buffers
<1>3. CASE \E q \in Delimiters : EscapeComing(q) /\ previous # Backslash /\ BeforeEscape(q)
    <2>1. PICK q \in Delimiters : EscapeComing(q) /\ previous # Backslash /\ BeforeEscape(q)
        BY <1>3
    <2>2. Buffers(<<>>, <<>>, <<Backslash, q>>)
        BY <1>1, <2>1 DEF EscapeComing, Buffers
    <2> QED
        BY <2>1, <2>2, BackslashSplit DEF Buffers
<1>4. CASE \E q \in Delimiters : Buffers(<<>>, <<>>, <<q>>) /\ previous = Backslash /\ InEscape(q)
    BY <1>4, EscapedQuoteSplit DEF Buffers
<1>5. ~Buffers(<<>>, <<>>, <<>>)
    BY <1>1 DEF Buffers
<1> QED
    BY <1>2, <1>3, <1>4, <1>5 DEF KeysAreRead

LEMMA InitText == TextInit => TextInvariant
<1> SUFFICES ASSUME TextInit PROVE TextInvariant
    OBVIOUS
<1>1. TextTypes /\ SplitTypes
    BY EmptySeq, AlphabetFacts DEF TextInit, TextTypes, SplitTypes, Alphabet
<1>2. previous # Backslash /\ Settled /\ Buffers(<<>>, <<>>, <<>>)
    BY AlphabetFacts DEF TextInit, Settled, Done, Buffers, Alphabet, Bytes
<1> QED
    BY <1>1, <1>2 DEF TextInvariant, KeysAreRead

LEMMA TextStep == TextInvariant /\ [TextNext]_textVars => TextInvariant'
<1> SUFFICES ASSUME TextInvariant, [TextNext]_textVars PROVE TextInvariant'
    OBVIOUS
<1>1. TextTypes'
    BY UserTypes DEF TextInvariant
<1>2. ASSUME ~mistyped' PROVE SplitTypes' /\ KeysAreRead'
    <2>1. /\ ~mistyped /\ SplitTypes /\ KeysAreRead
          /\ \A digits : ~Mistype(digits)
        <3>1. ASSUME NEW digits, Mistype(digits) PROVE FALSE
            BY <1>2, <3>1 DEF Mistype
        <3>2. DecodeCharacter \/ SplitByte \/ UNCHANGED textVars => mistyped' = mistyped
            BY DEF DecodeCharacter, SplitByte, userVars, textVars
        <3>3. ASSUME NEW c, TypeBare(c) \/ TypeQuoted(c) \/ OpenQuote(c) \/ Blank(c) \/ CloseQuote
              PROVE  mistyped' = mistyped
            BY <3>3 DEF TypeBare, TypeQuoted, OpenQuote, Blank, CloseQuote
        <3>4. CASE mistyped' = mistyped
            BY <1>2, <3>1, <3>4 DEF TextInvariant
        <3> QED
            BY <3>1, <3>2, <3>3, <3>4 DEF TextNext
    <2>2. CASE \E b \in Spaces : Blank(b)
        BY <2>1, <2>2, BlankRead
    <2>3. CASE \E c \in Characters : TypeBare(c) \/ TypeQuoted(c)
        BY <2>1, <2>3, CharacterRead
    <2>4. CASE CloseQuote \/ \E quote \in Delimiters : OpenQuote(quote)
        BY <2>1, <2>4, QuoteRead
    <2>5. CASE DecodeCharacter
        BY <2>1, <2>5, DecoderRead
    <2>6. CASE SplitByte
        BY <2>1, <2>6, SplitterRead
    <2>7. CASE UNCHANGED textVars
        <3>1. UNCHANGED <<meant, typing, line, escape, decoded, previous, delimiter, part, parts>>
            BY <2>7 DEF textVars, userVars, splitVars
        <3> QED
            BY <2>1, <3>1 DEF SplitTypes, KeysAreRead, Buffers, Coming, HexComing, EscapeComing, Before,
               BeforeEscape, InEscape, Settled, Open, Done
    <2> QED
        BY <2>1, <2>2, <2>3, <2>4, <2>5, <2>6, <2>7 DEF TextNext
<1> QED
    BY <1>1, <1>2 DEF TextInvariant

LEMMA TextHolds == TextSpec => []TextInvariant
BY InitText, TextStep, PTL DEF TextSpec

\* However a command is typed, with quotes, quotes behind a backslash, bytes that are
\* no text, as they are or as \xhh, and spaces of every kind inside quotes,
\* printableStringToBinary and splitCommandString find the arguments that are meant, at
\* every end of a line.  Outside quotes every byte that isSpace takes for a space ends
\* the argument (Blank), and no argument has it.
THEOREM ArgumentsArrive == TextSpec => []ArgumentsAreKept
<1>1. TextInvariant => ArgumentsAreKept
    <2> SUFFICES ASSUME TextInvariant, LineIsRead, ~mistyped, typing \notin Delimiters
                 PROVE  Arguments = IF meant = <<>> THEN <<<<>>>> ELSE meant
        BY DEF ArgumentsAreKept
    <2>1. Settled /\ SplitTypes
        BY NothingLeft DEF LineIsRead, TextInvariant
    <2>2. CASE Done
        <3>1. Append(<<>>, <<>>) = <<<<>>>>
            OBVIOUS
        <3> QED
            BY <2>2, <3>1 DEF Done, Arguments
    <2>3. CASE part # <<>> /\ Open(part)
        <3>1. Append(parts, part) # <<>>
            BY <2>1, FrontOfAppend DEF SplitTypes
        <3> QED
            BY <2>3, <3>1 DEF Open, Arguments
    <2> QED
        BY <2>1, <2>2, <2>3 DEF Settled
<1> QED
    BY <1>1, TextHolds, PTL

-----------------------------------------------------------------------------
(* The hash tag. *)

\* indexOf: the first place of a character from some place on, or none.
LEMMA FirstPlace ==
    ASSUME NEW key \in Seq(Characters), NEW c, NEW from \in Nat \ {0}
    PROVE  /\ IndexFrom(key, c, from) = 0 => \A j \in from..Len(key) : key[j] # c
           /\ IndexFrom(key, c, from) # 0 =>
                  /\ IndexFrom(key, c, from) \in from..Len(key)
                  /\ key[IndexFrom(key, c, from)] = c
                  /\ \A j \in from..Len(key) : key[j] = c => IndexFrom(key, c, from) <= j
           /\ IndexFrom(key, c, from) \in Nat
<1> DEFINE places == {i \in from..Len(key) : key[i] = c}
           i == IndexFrom(key, c, from)
<1>1. Len(key) \in Nat /\ places \subseteq Nat
    BY SeqFacts
<1>2. i = IF places = {} THEN 0 ELSE CHOOSE k \in places : \A j \in places : k <= j
    BY DEF IndexFrom
<1>3. CASE places = {}
    BY <1>2, <1>3
<1>4. CASE places # {}
    <2>1. \E k \in places : \A j \in places : k <= j
        <3> HIDE DEF places
        <3> QED
            BY <1>1, <1>4, Least
    <2>2. i \in places /\ \A j \in places : i <= j
        <3> HIDE DEF places, i
        <3> QED
            BY <1>2, <1>4, <2>1
    <2>3. i \in from..Len(key) /\ key[i] = c
        BY <2>2
    <2>4. \A j \in from..Len(key) : key[j] = c => i <= j
        BY <2>2
    <2>5. i \in Nat /\ i # 0
        BY <1>1, <2>3
    <2> QED
        BY <2>3, <2>4, <2>5
<1> QED
    BY <1>3, <1>4

\* A key that is put together from what is before a tag, the tag and what is behind it.
TagAt(key, before, tag) ==
    /\ key[before + 1] = "{" /\ key[before + Len(tag) + 2] = "}"
    /\ \A j \in 1..Len(tag) : key[before + 1 + j] = tag[j]

LEMMA Joined ==
    ASSUME NEW s \in Seq(Characters), NEW t \in Seq(Characters)
    PROVE  /\ s \o t \in Seq(Characters) /\ Len(s \o t) = Len(s) + Len(t)
           /\ \A k \in 1..Len(s) : (s \o t)[k] = s[k]
           /\ \A k \in 1..Len(t) : (s \o t)[Len(s) + k] = t[k]
<1> DEFINE S == Characters
<1>1. s \in Seq(S) /\ t \in Seq(S)
    OBVIOUS
<1> HIDE DEF S
<1>2. /\ s \o t \in Seq(S) /\ Len(s \o t) = Len(s) + Len(t)
      /\ \A k \in 1..Len(s) : (s \o t)[k] = s[k]
      /\ \A k \in 1..Len(t) : (s \o t)[Len(s) + k] = t[k]
    BY <1>1, ConcatParts
<1> QED
    BY <1>2 DEF S

LEMMA OneCharacter ==
    ASSUME NEW c \in Characters
    PROVE  <<c>> \in Seq(Characters) /\ Len(<<c>>) = 1 /\ <<c>>[1] = c
OBVIOUS

LEMMA PutTogether ==
    ASSUME NEW key \in Seq(Characters), NEW tag \in Seq(Characters),
           NEW before \in Nat, NEW after \in Nat, before + Len(tag) + 2 + after = Len(key)
    PROVE  (key = SubSeq(key, 1, before) \o <<"{">> \o tag \o <<"}">>
                  \o SubSeq(key, Len(key) - after + 1, Len(key))) <=> TagAt(key, before, tag)
<1>0. PICK n \in Nat, t \in Nat : Len(key) = n /\ Len(tag) = t /\ before + t + 2 + after = n
    BY SeqFacts
<1> DEFINE p == SubSeq(key, 1, before)
           q == SubSeq(key, n - after + 1, n)
           open == <<"{">>
           close == <<"}">>
<1>1. PICK m1 \in Nat, m2 \in Nat, m3 \in Nat : m1 = before + 1 /\ m2 = m1 + t /\ m3 = m2 + 1
    OBVIOUS
<1>2. p \in Seq(Characters) /\ Len(p) = before /\ \A i \in 1..before : p[i] = key[i]
    <2>1. before <= n /\ 1 <= before + 1 /\ before - 1 + 1 = before
          /\ \A i \in 1..before : 1 + i - 1 = i
        BY <1>0
    <2>2. /\ p \in Seq(Characters) /\ Len(p) = before - 1 + 1
          /\ \A i \in 1..(before - 1 + 1) : p[i] = key[1 + i - 1]
        BY <1>0, <2>1, SubSeqFacts
    <2> HIDE DEF p
    <2> QED
        BY <2>1, <2>2
<1>3. /\ q \in Seq(Characters) /\ Len(q) = after
      /\ \A i \in 1..after : q[i] = key[m3 + i]
    <2>1. PICK m \in Nat \ {0} : m = n - after + 1
        BY <1>0
    <2>2. /\ m <= n + 1 /\ n <= n /\ n - m + 1 = after
          /\ \A i \in 1..after : m + i - 1 = m3 + i
        BY <1>0, <1>1, <2>1
    <2>3. /\ SubSeq(key, m, n) \in Seq(Characters) /\ Len(SubSeq(key, m, n)) = n - m + 1
          /\ \A i \in 1..(n - m + 1) : SubSeq(key, m, n)[i] = key[m + i - 1]
        BY <1>0, <2>2, SubSeqFacts
    <2>4. q = SubSeq(key, m, n)
        BY <2>1
    <2> HIDE DEF q
    <2> QED
        BY <2>2, <2>3, <2>4
<1>4. open \in Seq(Characters) /\ Len(open) = 1 /\ open[1] = "{"
    BY OneCharacter DEF Characters, Plain
<1>5. close \in Seq(Characters) /\ Len(close) = 1 /\ close[1] = "}"
    BY OneCharacter DEF Characters, Plain
<1>6. /\ \A i \in 1..before : i \in 1..m1 /\ i \in 1..m2 /\ i \in 1..m3
      /\ m1 \in 1..m1 /\ m1 \in 1..m2 /\ m1 \in 1..m3
      /\ \A i \in 1..t : m1 + i \in 1..m2 /\ m1 + i \in 1..m3
      /\ m3 \in 1..m3 /\ 1 \in 1..1
    BY <1>1
<1> DEFINE a == p \o open
           b == a \o tag
           c == b \o close
           d == c \o q
<1> HIDE DEF p, q, open, close
<1>7. a \in Seq(Characters) /\ Len(a) = m1 /\ (\A i \in 1..before : a[i] = key[i]) /\ a[m1] = "{"
    <2>1. /\ a \in Seq(Characters) /\ Len(a) = before + 1 /\ \A k \in 1..before : a[k] = p[k]
          /\ \A k \in 1..1 : a[before + k] = open[k]
        <3>1. /\ p \o open \in Seq(Characters) /\ Len(p \o open) = Len(p) + Len(open)
              /\ \A k \in 1..Len(p) : (p \o open)[k] = p[k]
              /\ \A k \in 1..Len(open) : (p \o open)[Len(p) + k] = open[k]
            BY <1>2, <1>4, Joined
        <3>2. Len(p) = before /\ Len(open) = 1
            BY <1>2, <1>4
        <3> QED
            BY <3>1, <3>2
    <2> HIDE DEF a
    <2> QED
        BY <1>1, <1>2, <1>4, <1>6, <2>1
<1> HIDE DEF a
<1>8. /\ b \in Seq(Characters) /\ Len(b) = m2 /\ (\A i \in 1..before : b[i] = key[i]) /\ b[m1] = "{"
      /\ \A i \in 1..t : b[m1 + i] = tag[i]
    <2>1. /\ b \in Seq(Characters) /\ Len(b) = m1 + t /\ \A k \in 1..m1 : b[k] = a[k]
          /\ \A k \in 1..t : b[m1 + k] = tag[k]
        <3>1. /\ a \o tag \in Seq(Characters) /\ Len(a \o tag) = Len(a) + Len(tag)
              /\ \A k \in 1..Len(a) : (a \o tag)[k] = a[k]
              /\ \A k \in 1..Len(tag) : (a \o tag)[Len(a) + k] = tag[k]
            BY <1>7, Joined
        <3>2. Len(a) = m1 /\ Len(tag) = t
            BY <1>7, <1>0
        <3> QED
            BY <3>1, <3>2
    <2> HIDE DEF b
    <2> QED
        BY <1>1, <1>6, <1>7, <2>1
<1> HIDE DEF b
<1>9. /\ c \in Seq(Characters) /\ Len(c) = m3 /\ (\A i \in 1..before : c[i] = key[i]) /\ c[m1] = "{"
      /\ (\A i \in 1..t : c[m1 + i] = tag[i]) /\ c[m3] = "}"
    <2>1. /\ c \in Seq(Characters) /\ Len(c) = m2 + 1 /\ \A k \in 1..m2 : c[k] = b[k]
          /\ \A k \in 1..1 : c[m2 + k] = close[k]
        <3>1. /\ b \o close \in Seq(Characters) /\ Len(b \o close) = Len(b) + Len(close)
              /\ \A k \in 1..Len(b) : (b \o close)[k] = b[k]
              /\ \A k \in 1..Len(close) : (b \o close)[Len(b) + k] = close[k]
            BY <1>5, <1>8, Joined
        <3>2. Len(b) = m2 /\ Len(close) = 1
            BY <1>5, <1>8
        <3> QED
            BY <3>1, <3>2
    <2> HIDE DEF c
    <2> QED
        BY <1>1, <1>5, <1>6, <1>8, <2>1
<1> HIDE DEF c
<1>10. /\ d \in Seq(Characters) /\ Len(d) = n /\ (\A i \in 1..before : d[i] = key[i]) /\ d[m1] = "{"
       /\ (\A i \in 1..t : d[m1 + i] = tag[i]) /\ d[m3] = "}"
       /\ \A i \in 1..after : d[m3 + i] = key[m3 + i]
    <2>1. /\ d \in Seq(Characters) /\ Len(d) = m3 + after /\ \A k \in 1..m3 : d[k] = c[k]
          /\ \A k \in 1..after : d[m3 + k] = q[k]
        <3>1. /\ c \o q \in Seq(Characters) /\ Len(c \o q) = Len(c) + Len(q)
              /\ \A k \in 1..Len(c) : (c \o q)[k] = c[k]
              /\ \A k \in 1..Len(q) : (c \o q)[Len(c) + k] = q[k]
            BY <1>3, <1>9, Joined
        <3>2. Len(c) = m3 /\ Len(q) = after
            BY <1>3, <1>9
        <3> QED
            BY <3>1, <3>2
    <2>2. m3 + after = n
        BY <1>0, <1>1
    <2> HIDE DEF d
    <2> QED
        BY <1>3, <1>6, <1>9, <2>1, <2>2
<1> HIDE DEF d
<1>11. TagAt(key, before, tag) <=> key[m1] = "{" /\ key[m3] = "}" /\ \A i \in 1..t : key[m1 + i] = tag[i]
    <2>1. before + 1 = m1 /\ before + Len(tag) + 2 = m3
        BY <1>0, <1>1
    <2> QED
        BY <1>0, <2>1 DEF TagAt
<1>12. ASSUME TagAt(key, before, tag) PROVE key = d
    <2>1. ASSUME NEW k \in 1..n PROVE key[k] = d[k]
        <3>1. CASE k \in 1..before
            BY <1>10, <3>1
        <3>2. CASE k = m1 \/ k = m3
            BY <1>10, <1>11, <1>12, <3>2
        <3>3. CASE k - m1 \in 1..t
            <4>1. PICK i \in 1..t : k = m1 + i
                BY <3>3
            <4> QED
                BY <1>10, <1>11, <1>12, <4>1
        <3>4. CASE k - m3 \in 1..after
            <4>1. PICK i \in 1..after : k = m3 + i
                BY <3>4
            <4> QED
                BY <1>10, <4>1
        <3>5. k \in 1..before \/ k = m1 \/ k - m1 \in 1..t \/ k = m3 \/ k - m3 \in 1..after
            BY <1>0, <1>1
        <3> QED
            BY <3>1, <3>2, <3>3, <3>4, <3>5
    <2> QED
        BY <1>0, <1>10, <2>1, SeqEqual
<1>13. ASSUME key = d PROVE TagAt(key, before, tag)
    BY <1>10, <1>11, <1>13
<1>14. d = SubSeq(key, 1, before) \o <<"{">> \o tag \o <<"}">> \o SubSeq(key, n - after + 1, n)
    BY DEF d, c, b, a, p, q, open, close
<1> QED
    BY <1>0, <1>12, <1>13, <1>14

\* The server's rule, place by place.
TagBetween(key, tag, before, after) ==
    /\ before + Len(tag) + 2 + after = Len(key)
    /\ tag # <<>>
    /\ TagAt(key, before, tag)
    /\ \A j \in 1..before : key[j] # "{"
    /\ \A j \in 1..Len(tag) : tag[j] # "}"

LEMMA TagMeans ==
    ASSUME NEW key \in Seq(Characters), NEW tag \in Seq(Characters)
    PROVE  HasTag(key, tag) <=> \E before, after \in 0..Len(key) : TagBetween(key, tag, before, after)
<1>1. PICK n \in Nat, t \in Nat : Len(key) = n /\ Len(tag) = t
    BY SeqFacts
<1>2. ASSUME NEW before \in 0..n, NEW after \in 0..n, before + t + 2 + after = n
      PROVE  /\ (key = SubSeq(key, 1, before) \o <<"{">> \o tag \o <<"}">>
                       \o SubSeq(key, n - after + 1, n)) <=> TagAt(key, before, tag)
             /\ "{" \notin Range(SubSeq(key, 1, before)) <=> \A j \in 1..before : key[j] # "{"
    <2>1. (key = SubSeq(key, 1, before) \o <<"{">> \o tag \o <<"}">>
                 \o SubSeq(key, n - after + 1, n)) <=> TagAt(key, before, tag)
        <3>1. before \in Nat /\ after \in Nat /\ before + Len(tag) + 2 + after = Len(key)
            BY <1>1, <1>2
        <3>2. (key = SubSeq(key, 1, before) \o <<"{">> \o tag \o <<"}">>
                  \o SubSeq(key, Len(key) - after + 1, Len(key))) <=> TagAt(key, before, tag)
            BY <3>1, PutTogether
        <3> QED
            BY <1>1, <3>2
    <2> DEFINE p == SubSeq(key, 1, before)
    <2>2. DOMAIN p = 1..before /\ \A j \in 1..before : p[j] = key[j]
        <3>1. before <= n /\ 1 <= before + 1 /\ before - 1 + 1 = before /\ before \in Nat
              /\ \A i \in 1..before : 1 + i - 1 = i
            OBVIOUS
        <3>2. DOMAIN p = 1..(before - 1 + 1) /\ \A i \in 1..(before - 1 + 1) : p[i] = key[1 + i - 1]
            BY <1>1, <3>1, SubSeqFacts
        <3> HIDE DEF p
        <3> QED
            BY <3>1, <3>2
    <2> HIDE DEF p
    <2>3. "{" \notin Range(p) <=> \A j \in 1..before : key[j] # "{"
        BY <2>2 DEF Range
    <2> QED
        BY <2>1, <2>3 DEF p
<1>3. "}" \notin Range(tag) <=> \A j \in 1..t : tag[j] # "}"
    BY <1>1, SeqFacts DEF Range
<1>4. \A before, after \in 0..n :
          TagBetween(key, tag, before, after) <=>
              /\ before + t + 2 + after = n
              /\ tag # <<>>
              /\ key = SubSeq(key, 1, before) \o <<"{">> \o tag \o <<"}">>
                       \o SubSeq(key, n - after + 1, n)
              /\ "{" \notin Range(SubSeq(key, 1, before))
              /\ "}" \notin Range(tag)
    BY <1>1, <1>2, <1>3 DEF TagBetween
<1> QED
    BY <1>1, <1>4 DEF HasTag

\* A tag starts behind the first "{" and ends before the first "}" behind that, and so
\* it is what the client hashes.
LEMMA TagIsHashed ==
    ASSUME NEW key \in Seq(Characters), NEW tag \in Seq(Characters)
    PROVE  HasTag(key, tag) => Hashed(key) = tag
<1>a. SUFFICES ASSUME HasTag(key, tag) PROVE Hashed(key) = tag
    OBVIOUS
<1> DEFINE start == IndexFrom(key, "{", 1)
           end == Closing(key, start)
<1>1. PICK n \in Nat, t \in Nat : Len(key) = n /\ Len(tag) = t
    BY SeqFacts
<1>2. PICK before \in 0..n, after \in 0..n : TagBetween(key, tag, before, after)
    BY <1>a, <1>1, TagMeans
<1>0. before \in Nat /\ after \in Nat /\ n \in Nat /\ t \in Nat
    BY <1>2
<1>b. before + t + 2 + after = n /\ t # 0
    BY <1>1, <1>2, EmptySeq DEF TagBetween
<1>3. /\ key[before + 1] = "{" /\ key[before + t + 2] = "}"
      /\ \A j \in 1..t : key[before + 1 + j] = tag[j]
      /\ \A j \in 1..before : key[j] # "{"
      /\ \A j \in 1..t : tag[j] # "}"
    BY <1>1, <1>2, EmptySeq DEF TagBetween, TagAt
<1>4. start = before + 1
    <2>1. /\ start = 0 => \A j \in 1..n : key[j] # "{"
          /\ start # 0 => /\ start \in 1..n /\ key[start] = "{"
                          /\ \A j \in 1..n : key[j] = "{" => start <= j
        <3> HIDE DEF start
        <3>1. 1 \in Nat \ {0}
            OBVIOUS
        <3>2. /\ start = 0 => \A j \in 1..Len(key) : key[j] # "{"
              /\ start # 0 => /\ start \in 1..Len(key) /\ key[start] = "{"
                              /\ \A j \in 1..Len(key) : key[j] = "{" => start <= j
            BY <3>1, FirstPlace, ZenonT(30) DEF start
        <3> QED
            BY <1>1, <3>2
    <2> HIDE DEF start
    <2>2. before + 1 \in 1..n
        BY <1>0, <1>b
    <2>3. start # 0 /\ start \in 1..n /\ key[start] = "{" /\ start <= before + 1
        BY <1>3, <2>1, <2>2
    <2>4. ~(start \in 1..before)
        BY <1>3, <2>3
    <2>5. start \in 1..n /\ start <= before + 1
        BY <2>3
    <2> QED
        BY <1>0, <2>4, <2>5
<1>5. end = before + t + 2
    <2>1. /\ end = 0 => \A j \in (start + 1)..n : key[j] # "}"
          /\ end # 0 => /\ end \in (start + 1)..n /\ key[end] = "}"
                        /\ \A j \in (start + 1)..n : key[j] = "}" => end <= j
        <3> HIDE DEF start
        <3>1. PICK from \in Nat \ {0} : from = start + 1
            BY <1>0, <1>4
        <3>2. end = IndexFrom(key, "}", from)
            BY <3>1 DEF end, Closing
        <3> HIDE DEF end
        <3>3. /\ end = 0 => \A j \in from..Len(key) : key[j] # "}"
              /\ end # 0 => /\ end \in from..Len(key) /\ key[end] = "}"
                            /\ \A j \in from..Len(key) : key[j] = "}" => end <= j
            BY <3>2, FirstPlace
        <3> QED
            BY <1>1, <3>1, <3>3
    <2> HIDE DEF start, end
    <2>2. before + t + 2 \in (start + 1)..n
        BY <1>0, <1>b, <1>4
    <2>3. end # 0 /\ end \in (start + 1)..n /\ key[end] = "}" /\ end <= before + t + 2
        BY <1>3, <2>1, <2>2
    <2>a. end \in (start + 1)..n /\ end <= before + t + 2
        BY <2>3
    <2>4. end \in Nat /\ before + 2 <= end
        BY <1>0, <1>4, <2>a
    <2>5. ASSUME end < before + t + 2 PROVE FALSE
        <3>1. PICK j \in 1..t : end = before + 1 + j
            <4>1. end - (before + 1) \in 1..t /\ end = before + 1 + (end - (before + 1))
                BY <1>0, <2>4, <2>5
            <4> QED
                BY <4>1
        <3> QED
            BY <1>3, <2>3, <3>1
    <2> QED
        BY <1>0, <2>a, <2>4, <2>5
<1> HIDE DEF start, end
<1>6. Hashed(key) = SubSeq(key, before + 2, before + t + 1)
    <2>1. start # 0 /\ end # 0 /\ end # start + 1 /\ start + 1 = before + 2 /\ end - 1 = before + t + 1
        BY <1>0, <1>b, <1>4, <1>5
    <2>2. Hashed(key) = IF start # 0 /\ end # 0 /\ end # start + 1
                        THEN SubSeq(key, start + 1, end - 1) ELSE key
        BY DEF Hashed, start, end
    <2> QED
        BY <2>1, <2>2
<1>7. SubSeq(key, before + 2, before + t + 1) = tag
    <2> DEFINE m == before + 2
               k == before + t + 1
               s == SubSeq(key, m, k)
    <2>1. m \in Nat \ {0} /\ k \in Nat /\ m <= k + 1 /\ k <= n /\ k - m + 1 = t
          /\ \A i \in 1..t : m + i - 1 = before + 1 + i
        BY <1>0, <1>b
    <2> HIDE DEF m, k
    <2>2. s \in Seq(Characters) /\ Len(s) = k - m + 1 /\ \A i \in 1..(k - m + 1) : s[i] = key[m + i - 1]
        BY <1>1, <2>1, SubSeqFacts
    <2> HIDE DEF s
    <2>3. Len(s) = t /\ \A i \in 1..t : s[i] = tag[i]
        BY <1>3, <2>1, <2>2
    <2>4. s = tag
        BY <1>1, <2>2, <2>3, SeqEqual
    <2> QED
        BY <2>4 DEF s, m, k
<1> QED
    BY <1>6, <1>7

\* What the client hashes is the tag, or the key when it has none.
LEMMA HashedIsTag ==
    ASSUME NEW key \in Seq(Characters), Hashed(key) # key
    PROVE  HasTag(key, Hashed(key))
<1> DEFINE start == IndexFrom(key, "{", 1)
           end == Closing(key, start)
           tag == Hashed(key)
<1>1. PICK n \in Nat : Len(key) = n /\ DOMAIN key = 1..n
    BY SeqFacts
<1>2. start # 0 /\ end # 0 /\ end # start + 1 /\ tag = SubSeq(key, start + 1, end - 1)
    <2>1. tag = IF start # 0 /\ end # 0 /\ end # start + 1
                THEN SubSeq(key, start + 1, end - 1) ELSE key
        BY DEF Hashed
    <2> HIDE DEF start, end
    <2> QED
        BY <2>1
<1>3. start \in 1..n /\ key[start] = "{" /\ \A j \in 1..n : key[j] = "{" => start <= j
    <2> HIDE DEF start
    <2>1. 1 \in Nat \ {0}
        OBVIOUS
    <2>2. start # 0 => /\ start \in 1..Len(key) /\ key[start] = "{"
                       /\ \A j \in 1..Len(key) : key[j] = "{" => start <= j
        BY <2>1, FirstPlace DEF start
    <2> QED
        BY <1>1, <1>2, <2>2
<1>4. end \in (start + 1)..n /\ key[end] = "}" /\ \A j \in (start + 1)..n : key[j] = "}" => end <= j
    <2> HIDE DEF start
    <2>0. start \in 1..n
        BY <1>3
    <2>1. PICK from \in Nat \ {0} : from = start + 1
        BY <2>0
    <2>2. end = IndexFrom(key, "}", from)
        BY <2>1 DEF end, Closing
    <2> HIDE DEF end
    <2>3. end # 0 => /\ end \in from..Len(key) /\ key[end] = "}"
                     /\ \A j \in from..Len(key) : key[j] = "}" => end <= j
        BY <2>2, FirstPlace
    <2> QED
        BY <1>1, <1>2, <2>1, <2>3
<1> HIDE DEF start, end, tag
<1>5. PICK before \in 0..n, after \in 0..n, t \in Nat \ {0} :
          start = before + 1 /\ end = before + t + 2 /\ before + t + 2 + after = n
    <2>1. start - 1 \in 0..n /\ n - end \in 0..n /\ end - start - 1 \in Nat \ {0}
          /\ start = (start - 1) + 1 /\ end = (start - 1) + (end - start - 1) + 2
          /\ (start - 1) + (end - start - 1) + 2 + (n - end) = n
        <3>1. PICK x \in 1..n : x = start
            BY <1>3
        <3>2. PICK y \in (x + 1)..n : y = end
            BY <1>4, <3>1
        <3>3. y # x + 1
            BY <1>2, <3>1, <3>2
        <3>4. /\ x - 1 \in 0..n /\ n - y \in 0..n /\ y - x - 1 \in Nat \ {0}
              /\ x = (x - 1) + 1 /\ y = (x - 1) + (y - x - 1) + 2
              /\ (x - 1) + (y - x - 1) + 2 + (n - y) = n
            BY <1>1, <3>3
        <3> QED
            BY <3>1, <3>2, <3>4
    <2> QED
        BY <2>1
<1>6. tag \in Seq(Characters) /\ Len(tag) = t /\ \A i \in 1..t : tag[i] = key[before + 1 + i]
    <2> DEFINE m == start + 1
               k == end - 1
               s == SubSeq(key, m, k)
    <2>1. m \in Nat \ {0} /\ k \in Nat /\ m <= k + 1 /\ k <= n /\ k - m + 1 = t
          /\ \A i \in 1..t : m + i - 1 = before + 1 + i
        BY <1>5
    <2>2. tag = s
        BY <1>2
    <2> HIDE DEF m, k
    <2>3. s \in Seq(Characters) /\ Len(s) = k - m + 1 /\ \A i \in 1..(k - m + 1) : s[i] = key[m + i - 1]
        BY <1>1, <2>1, SubSeqFacts
    <2> HIDE DEF s
    <2> QED
        BY <2>1, <2>2, <2>3
<1>7. \A j \in 1..before : key[j] # "{"
    <2>1. \A j \in 1..before : j \in 1..n /\ ~(start <= j)
        BY <1>5
    <2> QED
        BY <1>3, <2>1
<1>8. \A j \in 1..t : tag[j] # "}"
    <2>1. \A j \in 1..t : before + 1 + j \in (start + 1)..n /\ ~(end <= before + 1 + j)
        BY <1>5
    <2> QED
        BY <1>4, <1>6, <2>1
<1>9. TagBetween(key, tag, before, after)
    <2>1. tag # <<>>
        BY <1>6, EmptySeq
    <2>2. TagAt(key, before, tag)
        BY <1>3, <1>4, <1>5, <1>6 DEF TagAt
    <2> QED
        BY <1>1, <1>5, <1>6, <1>7, <1>8, <2>1, <2>2 DEF TagBetween
<1>10. HasTag(key, tag)
    BY <1>1, <1>6, <1>9, TagMeans
<1> QED
    BY <1>10 DEF tag

\* A key of the command is sent to the node that owns its slot: calcKeyHashSlot hashes
\* the same bytes of every argument as the server does.
THEOREM SlotIsTheServers == TextSpec => []HashesAsTheServer
<1>1. TextInvariant => HashesAsTheServer
    <2> SUFFICES ASSUME TextInvariant, NEW key \in Range(meant)
                 PROVE  /\ \A i, j \in DOMAIN key :
                               HasTag(key, SubSeq(key, i, j)) => Hashed(key) = SubSeq(key, i, j)
                        /\ Hashed(key) # key => HasTag(key, Hashed(key))
        BY DEF HashesAsTheServer
    <2>1. key \in Seq(Characters)
        BY SeqFacts DEF TextInvariant, TextTypes, Range
    <2>2. ASSUME NEW i \in DOMAIN key, NEW j \in DOMAIN key
          PROVE  SubSeq(key, i, j) \in Seq(Characters)
        <3>1. DOMAIN key = 1..Len(key) /\ Len(key) \in Nat /\ \A k \in DOMAIN key : key[k] \in Characters
            BY <2>1, SeqFacts
        <3>2. i \in Int /\ j \in Int /\ \A k \in i..j : key[k] \in Characters
            BY <3>1
        <3> QED
            BY <3>2, SubSeqProperties
    <2> QED
        BY <2>1, <2>2, TagIsHashed, HashedIsTag
<1> QED
    BY <1>1, TextHolds, PTL

=============================================================================

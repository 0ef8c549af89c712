----------------------------- MODULE TransportProofs -----------------------------
(***************************************************************************)
(* Proofs about Transport: receive() keeps in step with the messages, so     *)
(* that Transport implements MessageStream.                                  *)
(***************************************************************************)
EXTENDS Transport, Integers, SequenceTheorems, WellFoundedInduction, TLAPS

-----------------------------------------------------------------------------
(* Texts and frames *)

LEMMA TextFacts ==
    ASSUME NEW t \in Texts
    PROVE  /\ t \in Seq(Units) /\ Len(t) \in Nat \ {0} /\ t # << >>
           /\ \A i \in 1..Len(t) : t[i] \in Units
           /\ t[1] \in Words /\ t[1] \notin Nat /\ t[1] # NL /\ t[Len(t)] # NL
<1>1. t \in Seq(Units) /\ t # << >> /\ t[1] \in Words /\ t[Len(t)] # NL
    BY TextsAssumption
<1>2. Len(t) \in Nat \ {0}
    BY <1>1, EmptySeq
<1>3. \A i \in 1..Len(t) : t[i] \in Units
    BY <1>1, ElementOfSeq
<1>4. t[1] \notin Nat /\ t[1] # NL
    BY <1>1, UnitsAssumption
<1> QED
    BY <1>1, <1>2, <1>3, <1>4

LEMMA WithLineFeed ==
    ASSUME NEW t \in Texts
    PROVE  /\ Short(t) \in Seq(Units) /\ Len(Short(t)) = Len(t) + 1
           /\ \A i \in 1..Len(t) : Short(t)[i] = t[i]
           /\ Short(t)[Len(t) + 1] = NL
<1> NL \in Units
    BY DEF Units
<1> QED
    BY TextFacts, AppendProperties DEF Short

\* A nonempty set of places in a sequence has a last one.
LEMMA LastPlace ==
    ASSUME NEW n \in Nat, NEW S \in SUBSET (1..n), S # {}
    PROVE  \E x \in S : \A y \in S : y <= x
<1> DEFINE T == {n - x : x \in S}
<1>1. \A x \in S : n - x \in Nat /\ x \in Int
    OBVIOUS
<1>2. T \subseteq Nat /\ T # {}
    BY <1>1, Zenon
<1>3. PICK m \in T : \A k \in T : ~(<<k, m>> \in OpToRel(<, Nat))
    BY <1>2, NatLessThanWellFounded, WFMin
<1>4. \A k \in T : ~(k < m)
    BY <1>2, <1>3 DEF OpToRel
<1>5. PICK x \in S : m = n - x
    BY Zenon
<1>6. \A y \in S : n - y \in T
    BY Zenon
<1> HIDE DEF T
<1> QED
    BY <1>1, <1>4, <1>5, <1>6

\* Only the end of a text is stripped.
LEMMA StrippedIsPrefix ==
    ASSUME NEW s \in Seq(Units)
    PROVE  \E n \in 0..Len(s) : Stripped(s) = SubSeq(s, 1, n)
<1> DEFINE Last(n) == (\A i \in n + 1..Len(s) : s[i] = NL) /\ (n = 0 \/ s[n] # NL)
           N == CHOOSE n \in 0..Len(s) : Last(n)
<1>1. Len(s) \in Nat
    BY LenProperties
<1>2. \E n \in 0..Len(s) : Last(n)
    <2> DEFINE S == {i \in 1..Len(s) : s[i] # NL}
    <2>1. CASE S = {}
        <3>1. Last(0) /\ 0 \in 0..Len(s)
            BY <1>1, <2>1
        <3> QED
            BY <3>1
    <2>2. CASE S # {}
        <3>1. PICK n \in S : \A y \in S : y <= n
            BY <1>1, <2>2, LastPlace
        <3>2. n \in 0..Len(s) /\ s[n] # NL
            BY <1>1, <3>1
        <3>3. \A i \in n + 1..Len(s) : i \in 1..Len(s) /\ ~(i <= n)
            BY <1>1, <3>2
        <3>4. Last(n)
            BY <3>1, <3>2, <3>3
        <3> QED
            BY <3>2, <3>4
    <2> QED
        BY <2>1, <2>2
<1>3. N \in 0..Len(s)
    BY <1>2
<1>4. Stripped(s) = SubSeq(s, 1, N)
    BY DEF Stripped
<1> QED
    BY <1>3, <1>4

\* Whatever is parsed is a reply of units, or refused.
LEMMA ParsedType ==
    ASSUME NEW s \in Seq(Units)
    PROVE  /\ Parsed(s) \in [is : {"raised", "reply"}, text : Seq(Units)]
           /\ Parsed(s).is = "reply" =>
                /\ Parsed(s).text # << >> /\ Parsed(s).text[1] \in ReplyKind
                /\ Len(s) > 0 /\ Parsed(s).text[1] = s[1]
<1>1. Len(s) \in Nat
    BY LenProperties
<1>2. PICK n \in 0..Len(s) : Stripped(s) = SubSeq(s, 1, n)
    BY StrippedIsPrefix
<1>3. n \in Int /\ n \in Nat /\ n <= Len(s) /\ n - 1 + 1 = n
    BY <1>1, <1>2
<1>4. \A i \in 1..n : s[i] \in Units
    BY <1>1, <1>2, ElementOfSeq
<1>5. /\ SubSeq(s, 1, n) \in Seq(Units)
      /\ Len(SubSeq(s, 1, n)) = IF 1 <= n THEN n - 1 + 1 ELSE 0
      /\ \A i \in 1..n - 1 + 1 : SubSeq(s, 1, n)[i] = s[1 + i - 1]
    BY <1>3, <1>4, SubSeqProperties
<1>6. Stripped(s) # << >> => Len(s) > 0 /\ Stripped(s)[1] = s[1]
    <2> SUFFICES ASSUME Stripped(s) # << >> PROVE Len(s) > 0 /\ Stripped(s)[1] = s[1]
        OBVIOUS
    <2>1. Len(SubSeq(s, 1, n)) # 0
        BY <1>2, <1>5, EmptySeq
    <2>2. 1 <= n /\ 1 \in 1..n - 1 + 1 /\ 1 + 1 - 1 = 1
        BY <1>3, <1>5, <2>1
    <2> QED
        BY <1>2, <1>3, <1>5, <2>2
<1>7. Stripped(s) \in Seq(Units) /\ << >> \in Seq(Units)
    BY <1>2, <1>5, EmptySeq
<1> QED
    BY <1>6, <1>7 DEF Parsed, Raised, Outcome

\* What a text says does not depend on the line feed that may follow it.
LEMMA StrippedText ==
    ASSUME NEW t \in Texts
    PROVE  Stripped(t) = t /\ Stripped(Short(t)) = t
<1> DEFINE Last(s, n) == (\A i \in n + 1..Len(s) : s[i] = NL) /\ (n = 0 \/ s[n] # NL)
<1>1. (CHOOSE n \in 0..Len(t) : Last(t, n)) = Len(t)
    <2>1. Last(t, Len(t)) /\ Len(t) \in 0..Len(t)
        BY TextFacts
    <2>2. \A n \in 0..Len(t) : Last(t, n) => n = Len(t)
        <3> SUFFICES ASSUME NEW n \in 0..Len(t), Last(t, n), n # Len(t) PROVE FALSE
            OBVIOUS
        <3>1. Len(t) \in n + 1..Len(t)
            BY TextFacts
        <3> QED
            BY <3>1, TextFacts
    <2> QED
        BY <2>1, <2>2
<1>2. (CHOOSE n \in 0..Len(Short(t)) : Last(Short(t), n)) = Len(t)
    <2>1. Last(Short(t), Len(t)) /\ Len(t) \in 0..Len(Short(t))
        BY TextFacts, WithLineFeed
    <2>2. \A n \in 0..Len(Short(t)) : Last(Short(t), n) => n = Len(t)
        <3> SUFFICES ASSUME NEW n \in 0..Len(Short(t)), Last(Short(t), n), n # Len(t) PROVE FALSE
            OBVIOUS
        <3>1. CASE n < Len(t)
            <4>1. Len(t) \in n + 1..Len(Short(t))
                BY <3>1, TextFacts, WithLineFeed
            <4>2. Short(t)[Len(t)] = t[Len(t)] /\ t[Len(t)] # NL
                BY TextFacts, WithLineFeed
            <4> QED
                BY <4>1, <4>2
        <3>2. CASE n = Len(t) + 1
            BY <3>2, TextFacts, WithLineFeed
        <3> QED
            BY <3>1, <3>2, TextFacts, WithLineFeed
    <2> QED
        BY <2>1, <2>2
<1>3. SubSeq(t, 1, Len(t)) = t
    BY TextFacts, SubSeqFull
<1>4. SubSeq(Short(t), 1, Len(t)) = t
    <2>1. \A i \in 1..Len(t) : Short(t)[i] \in Units
        BY TextFacts, WithLineFeed
    <2>2. /\ SubSeq(Short(t), 1, Len(t)) \in Seq(Units)
          /\ Len(SubSeq(Short(t), 1, Len(t))) = Len(t)
          /\ \A i \in 1..Len(t) : SubSeq(Short(t), 1, Len(t))[i] = t[i]
        BY <2>1, TextFacts, WithLineFeed, SubSeqProperties
    <2> QED
        BY <2>2, TextFacts, SeqEqual
<1> QED
    BY <1>1, <1>2, <1>3, <1>4 DEF Stripped

LEMMA ParsedText ==
    ASSUME NEW t \in Texts
    PROVE  Parsed(Short(t)) = Parsed(t)
BY StrippedText DEF Parsed

\* A frame is a line without line feeds, or a header and a body.
IsLine(f, t) ==
    /\ f = Short(t)
    /\ \A i \in 1..Len(t) : t[i] # NL

IsLong(f, t) ==
    \E b \in {t, Short(t)} :
        /\ Len(b) \in Nat \ {0} /\ Len(f) = Len(b) + 2
        /\ f[1] = Len(b) /\ f[2] = NL
        /\ \A i \in 1..Len(b) : f[i + 2] = b[i] /\ b[i] \in Units
        /\ b \in Seq(Units)

LEMMA FrameFacts ==
    ASSUME NEW t \in Texts, NEW f \in Frames(t)
    PROVE  /\ f \in Seq(Units) /\ Len(f) \in Nat \ {0}
           /\ IF IsShort(t) THEN IsLine(f, t) ELSE IsLong(f, t)
<1>1. CASE IsShort(t)
    <2>1. DOMAIN t = 1..Len(t)
        BY TextFacts, LenProperties
    <2>2. f = Short(t) /\ \A i \in DOMAIN t : t[i] # NL
        BY <1>1 DEF Frames, IsShort
    <2> QED
        BY <1>1, <2>1, <2>2, TextFacts, WithLineFeed DEF IsLine
<1>2. ASSUME NEW b \in {t, Short(t)}, f = Long(b) PROVE f \in Seq(Units) /\ Len(f) \in Nat \ {0} /\ IsLong(f, t)
    <2>1. b \in Seq(Units) /\ Len(b) \in Nat \ {0}
        BY TextFacts, WithLineFeed
    <2>2. <<Len(b), NL>> \in Seq(Units) /\ Len(<<Len(b), NL>>) = 2
        BY <2>1 DEF Units
    <2>3. /\ f \in Seq(Units) /\ Len(f) = 2 + Len(b)
          /\ \A i \in 1..2 + Len(b) : f[i] = IF i <= 2 THEN <<Len(b), NL>>[i] ELSE b[i - 2]
        BY <1>2, <2>1, <2>2, ConcatProperties DEF Long
    <2>4. f[1] = Len(b) /\ f[2] = NL
        BY <2>1, <2>3
    <2>5. \A i \in 1..Len(b) : f[i + 2] = b[i] /\ b[i] \in Units
        <3> SUFFICES ASSUME NEW i \in 1..Len(b) PROVE f[i + 2] = b[i] /\ b[i] \in Units
            OBVIOUS
        <3>1. i + 2 \in 1..2 + Len(b) /\ ~(i + 2 <= 2) /\ (i + 2) - 2 = i
            BY <2>1
        <3>2. b[i] \in Units
            BY <2>1, ElementOfSeq
        <3> QED
            BY <2>3, <3>1, <3>2
    <2> QED
        BY <2>1, <2>3, <2>4, <2>5 DEF IsLong
<1> QED
    BY <1>1, <1>2 DEF Frames

\* A frame begins with a word or with a number, which tells the two framings apart.
LEMMA FramesDiffer ==
    ASSUME NEW t \in Texts, NEW f \in Frames(t)
    PROVE  (IsLine(f, t) => IsShort(t)) /\ (IsLong(f, t) => ~IsShort(t))
<1>1. IsLine(f, t) => f[1] \in Words
    BY TextFacts, WithLineFeed, TextsAssumption DEF IsLine
<1>2. IsLong(f, t) => f[1] \in Nat
    BY DEF IsLong
<1> QED
    BY <1>1, <1>2, FrameFacts, UnitsAssumption

-----------------------------------------------------------------------------
(* The inductive invariant *)

\* Where the i-th message begins in the stream.
Start(i) == IF i = 1 THEN 0 ELSE ends[i - 1]

\* The i-th message lies in the stream as one of its frames.
Lies(i) ==
    \E f \in Frames(sent[i]) :
        /\ ends[i] = Start(i) + Len(f)
        /\ \A j \in 1..Len(f) : stream[Start(i) + j] = f[j]

StreamInv ==
    /\ Start(Len(sent) + 1) = Len(stream)
    /\ \A i \in 1..Len(sent) : Lies(i) /\ Start(i) \in Nat /\ ends[i] <= Len(stream)

\* While nothing is lost, what is consumed are the messages taken, and the header of
\* the next one if its body is read.
AtBody(k) ==
    \E f \in Frames(sent[k]) :
        /\ IsLong(f, sent[k])
        /\ ends[k] = Start(k) + Len(f) /\ \A j \in 1..Len(f) : stream[Start(k) + j] = f[j]
        /\ at = Start(k) + 2 /\ length = Len(f) - 2

PositionInv ==
    intact =>
        /\ reading # "body" => at = Start(taken + 1)
        /\ reading = "body" => taken < Len(sent) /\ AtBody(taken + 1)

TIInv == TransportTypeOK /\ StreamInv /\ PositionInv

\* The message that is read next.
LEMMA NextMessage ==
    ASSUME TIInv, taken < Len(sent)
    PROVE  /\ taken + 1 \in 1..Len(sent) /\ sent[taken + 1] \in Texts
           /\ Start(taken + 1) \in Nat /\ ends[taken + 1] = Start(taken + 2)
           /\ ends[taken + 1] \in Nat /\ Start(taken + 1) < ends[taken + 1]
<1>1. taken + 1 \in 1..Len(sent) /\ sent \in Seq(Texts) /\ ends \in Seq(Nat) /\ Len(ends) = Len(sent)
    BY DEF TIInv, TransportTypeOK
<1>2. sent[taken + 1] \in Texts /\ ends[taken + 1] \in Nat
    <2>1. taken + 1 \in 1..Len(ends)
        BY <1>1
    <2>2. sent[taken + 1] \in Texts
        BY <1>1, ElementOfSeq
    <2>3. ends[taken + 1] \in Nat
        BY <1>1, <2>1, ElementOfSeq
    <2> QED
        BY <2>2, <2>3
<1>3. Start(taken + 2) = ends[taken + 1]
    BY <1>1 DEF Start, TIInv, TransportTypeOK
<1>4. Start(taken + 1) \in Nat /\ Lies(taken + 1)
    BY <1>1 DEF TIInv, StreamInv
<1>5. PICK f \in Frames(sent[taken + 1]) : ends[taken + 1] = Start(taken + 1) + Len(f)
    BY <1>4 DEF Lies
<1>6. Len(f) \in Nat \ {0}
    BY <1>2, <1>5, FrameFacts
<1> QED
    BY <1>1, <1>2, <1>3, <1>4, <1>5, <1>6

\* Something is there to be read only if a message is.
LEMMA SomethingToRead ==
    ASSUME TIInv, intact, reading # "body", at < Len(stream)
    PROVE  taken < Len(sent)
BY DEF TIInv, TransportTypeOK, StreamInv, PositionInv

\* The first line feed ends a short message or the header of a long one.
LEMMA FirstLine ==
    ASSUME TIInv, intact, reading # "body", NEW p \in LineFeeds, EndsLine(p)
    PROVE  /\ taken < Len(sent)
           /\ \/ LineTo(p) = sent[taken + 1] /\ p = ends[taken + 1] /\ IsShort(sent[taken + 1])
              \/ \E f \in Frames(sent[taken + 1]) :
                    /\ IsLong(f, sent[taken + 1]) /\ p = at + 2
                    /\ ends[taken + 1] = Start(taken + 1) + Len(f)
                    /\ \A j \in 1..Len(f) : stream[Start(taken + 1) + j] = f[j]
                    /\ Len(LineTo(p)) = 1 /\ LineTo(p)[1] = Len(f) - 2
<1> DEFINE k == taken + 1
           t == sent[k]
<1>1. /\ stream \in Seq(Units) /\ Len(stream) \in Nat /\ at \in Nat /\ arrived \in Nat
      /\ arrived <= Len(stream) /\ at = Start(k)
      /\ p \in at + 1..arrived /\ stream[p] = NL
      /\ \A q \in at + 1..p - 1 : stream[q] # NL
    <2>1. stream \in Seq(Units) /\ at = Start(k) /\ p \in at + 1..arrived /\ stream[p] = NL
        BY DEF TIInv, TransportTypeOK, PositionInv, LineFeeds
    <2>2. Len(stream) \in Nat
        BY <2>1, LenProperties
    <2>3. arrived \in Nat /\ at \in Nat /\ arrived <= Len(stream)
        BY <2>2 DEF TIInv, TransportTypeOK
    <2>4. \A q \in at + 1..p - 1 : stream[q] # NL
        <3> SUFFICES ASSUME NEW q \in at + 1..p - 1, stream[q] = NL PROVE FALSE
            OBVIOUS
        <3>1. q \in LineFeeds
            BY <2>1, <2>3 DEF LineFeeds
        <3> QED
            BY <2>1, <2>3, <3>1 DEF EndsLine
    <2> QED
        BY <2>1, <2>2, <2>3, <2>4
<1>2. taken < Len(sent)
    BY <1>1, SomethingToRead
<1>3. t \in Texts /\ k \in 1..Len(sent) /\ ends[k] \in Nat
    BY <1>2, NextMessage
<1>4. PICK f \in Frames(t) : ends[k] = at + Len(f) /\ \A j \in 1..Len(f) : stream[at + j] = f[j]
    BY <1>1, <1>3 DEF TIInv, StreamInv, Lies
<1>5. \A i \in at + 1..p - 1 : stream[i] \in Units
    BY <1>1, ElementOfSeq
<1>6. /\ LineTo(p) \in Seq(Units) /\ Len(LineTo(p)) = p - at - 1
      /\ \A i \in 1..p - at - 1 : LineTo(p)[i] = stream[at + i]
    <2> DEFINE m == at + 1
               n == p - 1
    <2>1. m \in Int /\ n \in Int /\ m <= n + 1 /\ n - m + 1 = p - at - 1
        BY <1>1
    <2>2. \A i \in 1..p - at - 1 : m + i - 1 = at + i
        BY <1>1
    <2>3. \A i \in m..n : stream[i] \in Units
        BY <1>5
    <2> HIDE DEF k, t, m, n
    <2>4. /\ SubSeq(stream, m, n) \in Seq(Units)
          /\ Len(SubSeq(stream, m, n)) = IF m <= n THEN n - m + 1 ELSE 0
          /\ \A i \in 1..n - m + 1 : SubSeq(stream, m, n)[i] = stream[m + i - 1]
        BY ONLY <2>1, <2>3, SubSeqProperties
    <2>5. Len(SubSeq(stream, m, n)) = p - at - 1
        BY ONLY <2>1, <2>4
    <2>6. \A i \in 1..p - at - 1 : SubSeq(stream, m, n)[i] = stream[at + i]
        BY <2>1, <2>2, <2>4
    <2> QED
        BY <2>4, <2>5, <2>6 DEF LineTo, m, n
<1>7. CASE IsLine(f, t) /\ IsShort(t)
    <2>1. /\ f = Short(t) /\ Len(f) = Len(t) + 1 /\ f[Len(t) + 1] = NL /\ Len(t) \in Nat \ {0}
          /\ \A i \in 1..Len(t) : f[i] = t[i] /\ f[i] # NL
        BY <1>3, <1>7, TextFacts, WithLineFeed DEF IsLine
    <2>2. p = at + Len(t) + 1
        <3>1. stream[at + (Len(t) + 1)] = NL
            BY <1>4, <2>1
        <3>2. p <= at + Len(t) + 1
            BY <1>1, <2>1, <3>1
        <3>3. ~(p < at + Len(t) + 1)
            <4> SUFFICES ASSUME p < at + Len(t) + 1 PROVE FALSE
                OBVIOUS
            <4>1. p - at \in 1..Len(t) /\ at + (p - at) = p
                BY <1>1, <2>1
            <4>2. stream[at + (p - at)] = f[p - at]
                BY <1>4, <2>1, <4>1
            <4> QED
                BY <1>1, <2>1, <4>1, <4>2
        <3>4. p \in Int /\ at \in Nat /\ Len(t) \in Nat
            BY <1>1, <2>1
        <3> QED
            BY ONLY <3>2, <3>3, <3>4
    <2>3. LineTo(p) = t
        <3>1. at \in Nat /\ p - at - 1 = Len(t) /\ Len(t) \in Nat
            BY <1>1, <2>1, <2>2
        <3>2. \A i \in 1..Len(t) : LineTo(p)[i] = t[i]
            <4> SUFFICES ASSUME NEW i \in 1..Len(t) PROVE LineTo(p)[i] = t[i]
                OBVIOUS
            <4>1. LineTo(p)[i] = stream[at + i]
                BY <1>6, <3>1
            <4>2. stream[at + i] = f[i]
                BY <1>4, <2>1
            <4> QED
                BY <2>1, <4>1, <4>2
        <3>3. Len(LineTo(p)) = Len(t)
            BY <1>6, <3>1
        <3> QED
            BY <1>3, <1>6, <3>2, <3>3, TextFacts, SeqEqual
    <2> QED
        BY <1>1, <1>2, <1>4, <1>7, <2>1, <2>2, <2>3
<1>8. CASE IsLong(f, t)
    <2>1. /\ Len(f) \in Nat /\ Len(f) > 2 /\ f[1] = Len(f) - 2 /\ f[2] = NL
          /\ f[1] \in Nat /\ f[1] # NL
        BY <1>8, UnitsAssumption DEF IsLong
    <2>2. stream[at + 1] # NL /\ stream[at + 2] = NL /\ stream[at + 1] = Len(f) - 2
        BY <1>4, <2>1
    <2>3. p = at + 2
        BY <1>1, <2>2
    <2>4. Len(LineTo(p)) = 1 /\ LineTo(p)[1] = Len(f) - 2
        <3>1. at \in Nat /\ p - at - 1 = 1
            BY <1>1, <2>3
        <3>2. LineTo(p)[1] = stream[at + 1]
            BY <1>6, <3>1
        <3> QED
            BY <1>6, <2>2, <3>1, <3>2
    <2> QED
        BY <1>1, <1>2, <1>4, <1>8, <2>3, <2>4
<1> QED
    BY <1>3, <1>4, <1>7, <1>8, FrameFacts

-----------------------------------------------------------------------------
(* What a read finds while nothing is lost *)

LEMMA LineIsMessage ==
    ASSUME TIInv, intact, ReadsLine
    PROVE  /\ taken < Len(sent)
           /\ at' = ends[taken + 1] /\ outcome' = Parsed(sent[taken + 1])
<1>1. PICK p \in LineFeeds :
        EndsLine(p) /\ ~IsHeader(LineTo(p)) /\ at' = p /\ outcome' = Parsed(LineTo(p))
    BY DEF ReadsLine, Takes
<1>2. reading # "body"
    BY DEF ReadsLine
<1>3. taken < Len(sent)
    BY <1>1, <1>2, FirstLine
<1>4. CASE LineTo(p) = sent[taken + 1] /\ p = ends[taken + 1]
    BY <1>1, <1>3, <1>4
<1>5. ASSUME NEW f \in Frames(sent[taken + 1]), IsLong(f, sent[taken + 1]),
             Len(LineTo(p)) = 1, LineTo(p)[1] = Len(f) - 2
      PROVE  FALSE
    <2>1. Len(f) - 2 \in Nat
        BY <1>5 DEF IsLong
    <2> QED
        BY <1>1, <1>5, <2>1 DEF IsHeader
<1> QED
    BY <1>1, <1>2, <1>4, <1>5, FirstLine

LEMMA HeaderOfMessage ==
    ASSUME TIInv, intact, reading # "body",
           NEW p \in LineFeeds, EndsLine(p), IsHeader(LineTo(p))
    PROVE  /\ taken < Len(sent)
           /\ \E f \in Frames(sent[taken + 1]) :
                /\ IsLong(f, sent[taken + 1]) /\ p = at + 2
                /\ ends[taken + 1] = Start(taken + 1) + Len(f)
                /\ \A j \in 1..Len(f) : stream[Start(taken + 1) + j] = f[j]
                /\ LineTo(p)[1] = Len(f) - 2
<1>1. taken < Len(sent)
    BY FirstLine
<1>2. sent[taken + 1] \in Texts
    BY <1>1, NextMessage
<1>3. LineTo(p) # sent[taken + 1]
    BY <1>2, TextFacts DEF IsHeader
<1> QED
    BY <1>1, <1>3, FirstLine

LEMMA BodyIsMessage ==
    ASSUME TIInv, intact, ReadsBody
    PROVE  /\ taken < Len(sent)
           /\ at' = ends[taken + 1] /\ outcome' = Parsed(sent[taken + 1])
<1> DEFINE t == sent[taken + 1]
           k == taken + 1
<1>1. taken < Len(sent) /\ AtBody(taken + 1) /\ reading = "body"
    BY DEF TIInv, PositionInv, ReadsBody
<1>2. t \in Texts /\ Start(k) \in Nat /\ ends[k] \in Nat /\ k \in 1..Len(sent)
    BY <1>1, NextMessage
<1>3. PICK f \in Frames(t) :
        /\ IsLong(f, t)
        /\ ends[k] = Start(k) + Len(f) /\ \A j \in 1..Len(f) : stream[Start(k) + j] = f[j]
        /\ at = Start(k) + 2 /\ length = Len(f) - 2
    BY <1>1 DEF AtBody
<1>4. PICK b \in {t, Short(t)} :
        /\ Len(b) \in Nat \ {0} /\ Len(f) = Len(b) + 2
        /\ \A i \in 1..Len(b) : f[i + 2] = b[i] /\ b[i] \in Units
        /\ b \in Seq(Units)
    BY <1>3 DEF IsLong
<1>a. /\ Start(k) \in Nat /\ Len(b) \in Nat /\ Len(f) = Len(b) + 2
      /\ at = Start(k) + 2 /\ length = Len(f) - 2 /\ ends[k] = Start(k) + Len(f)
    BY <1>2, <1>3, <1>4, Zenon
<1> HIDE DEF t, k
<1>5. length = Len(b) /\ at \in Nat /\ Len(b) \in Nat /\ ends[k] = at + Len(b)
    BY ONLY <1>a
<1>6. \A i \in 1..Len(b) : stream[at + i] = b[i] /\ b[i] \in Units
    <2> SUFFICES ASSUME NEW i \in 1..Len(b) PROVE stream[at + i] = b[i] /\ b[i] \in Units
        OBVIOUS
    <2>1. i + 2 \in 1..Len(f) /\ at + i = Start(k) + (i + 2)
        BY ONLY <1>a, i \in 1..Len(b)
    <2> QED
        BY <1>3, <1>4, <2>1
<1>7. SubSeq(stream, at + 1, at + length) = b
    <2> DEFINE m == at + 1
               n == at + Len(b)
    <2>1. m \in Int /\ n \in Int /\ n - m + 1 = Len(b) /\ m <= n
        BY <1>4, <1>5
    <2>2. \A i \in m..n : stream[i] \in Units
        <3> SUFFICES ASSUME NEW i \in m..n PROVE stream[i] \in Units
            OBVIOUS
        <3>1. i - at \in 1..Len(b) /\ at + (i - at) = i
            BY <1>5
        <3> QED
            BY <1>6, <3>1
    <2>3. \A i \in 1..Len(b) : m + i - 1 = at + i
        BY <1>5
    <2> HIDE DEF m, n
    <2>4. /\ SubSeq(stream, m, n) \in Seq(Units)
          /\ Len(SubSeq(stream, m, n)) = Len(b)
          /\ \A i \in 1..n - m + 1 : SubSeq(stream, m, n)[i] = stream[m + i - 1]
        BY <2>1, <2>2, SubSeqProperties
    <2>5. \A i \in 1..Len(b) : SubSeq(stream, m, n)[i] = b[i]
        BY <1>6, <2>1, <2>3, <2>4
    <2>6. SubSeq(stream, m, n) = b
        BY <1>4, <2>4, <2>5, SeqEqual
    <2> QED
        BY <1>5, <2>6 DEF m, n
<1>8. Parsed(b) = Parsed(t)
    BY <1>2, <1>4, ParsedText
<1>9. at' = ends[k] /\ outcome' = Parsed(t)
    BY <1>5, <1>7, <1>8 DEF ReadsBody, Takes
<1> QED
    BY <1>1, <1>9 DEF t, k

\* Only a message over the limits is refused.
LEMMA RefusedIsOverLimit ==
    ASSUME TIInv, intact, RefusesBody \/ OverrunsLine
    PROVE  taken < Len(sent) /\ OverLimit(sent[taken + 1])
<1>1. ASSUME RefusesBody
      PROVE  taken < Len(sent) /\ OverLimit(sent[taken + 1])
    <2>1. PICK p \in LineFeeds :
            EndsLine(p) /\ IsHeader(LineTo(p)) /\ ~Accepts(LineTo(p)[1]) /\ reading = "line"
        BY <1>1 DEF RefusesBody
    <2>2. taken < Len(sent)
        BY <2>1, HeaderOfMessage
    <2>3. PICK f \in Frames(sent[taken + 1]) :
            IsLong(f, sent[taken + 1]) /\ LineTo(p)[1] = Len(f) - 2
        BY <2>1, HeaderOfMessage
    <2>4. sent[taken + 1] \in Texts
        BY <2>2, NextMessage
    <2>5. Len(f) - 2 <= Len(sent[taken + 1]) + 1
        BY <2>3, <2>4, TextFacts, WithLineFeed DEF IsLong
    <2>6. Len(f) - 2 \in Nat /\ Len(sent[taken + 1]) \in Nat
        BY <2>3, <2>4, TextFacts DEF IsLong
    <2>7. ~IsShort(sent[taken + 1])
        BY <2>3, <2>4, FramesDiffer
    <2> QED
        BY <2>1, <2>2, <2>3, <2>5, <2>6, <2>7, LimitsAssumption DEF OverLimit, Accepts
<1>2. ASSUME OverrunsLine
      PROVE  taken < Len(sent) /\ OverLimit(sent[taken + 1])
    <2> DEFINE t == sent[taken + 1]
               k == taken + 1
    <2>1. reading = "line" /\ at \in Nat /\ arrived \in Nat /\ at = Start(k) /\ Len(stream) \in Nat
        <3>1. Len(stream) \in Nat
            BY LenProperties DEF TIInv, TransportTypeOK
        <3> QED
            BY <1>2, <3>1 DEF OverrunsLine, TIInv, TransportTypeOK, PositionInv
    <2>2. CASE \E p \in LineFeeds : EndsLine(p) /\ ~FitsLine(p)
        <3>1. PICK p \in LineFeeds : EndsLine(p) /\ ~FitsLine(p)
            BY <2>2
        <3>2. p \in Int /\ p - at - 1 > MaxLine
            BY <2>1, <3>1, LimitsAssumption DEF FitsLine, LineFeeds
        <3>3. taken < Len(sent)
            BY <2>1, <3>1, FirstLine
        <3>4. t \in Texts /\ Len(t) \in Nat
            BY <3>3, NextMessage, TextFacts
        <3>5. p # at + 2
            BY <2>1, <3>2, LimitsAssumption
        <3>6. LineTo(p) = t /\ IsShort(t)
            BY <2>1, <3>1, <3>5, FirstLine
        <3>7. Len(LineTo(p)) = p - at - 1
            <4>1. at + 1 \in Int /\ p - 1 \in Int /\ at + 1 <= p - 1
                BY <2>1, <3>2, LimitsAssumption
            <4>2. \A i \in at + 1..p - 1 : stream[i] \in Units
                <5>1. stream \in Seq(Units) /\ p <= Len(stream)
                    BY <2>1 DEF LineFeeds, TIInv, TransportTypeOK
                <5>2. \A i \in at + 1..p - 1 : i \in 1..Len(stream)
                    BY <2>1, <3>2, <5>1
                <5> QED
                    BY <5>1, <5>2, ElementOfSeq
            <4>3. Len(SubSeq(stream, at + 1, p - 1)) = (p - 1) - (at + 1) + 1
                BY <4>1, <4>2, SubSeqProperties
            <4> QED
                BY <2>1, <3>2, <4>3 DEF LineTo
        <3> QED
            BY <3>2, <3>3, <3>4, <3>6, <3>7 DEF OverLimit
    <2>3. CASE LineFeeds = {} /\ arrived - at > MaxLine
        <3>1. arrived <= Len(stream) /\ at < Len(stream)
            BY <2>1, <2>3, LimitsAssumption DEF TIInv, TransportTypeOK
        <3>2. taken < Len(sent)
            BY <2>1, <3>1, SomethingToRead
        <3>3. t \in Texts /\ k \in 1..Len(sent) /\ ends[k] \in Nat /\ Len(t) \in Nat
            BY <3>2, NextMessage, TextFacts
        <3>4. PICK f \in Frames(t) : ends[k] = at + Len(f) /\ \A j \in 1..Len(f) : stream[at + j] = f[j]
            BY <2>1, <3>3 DEF TIInv, StreamInv, Lies
        <3>5. \A q \in at + 1..arrived : stream[q] # NL
            BY <2>3 DEF LineFeeds
        <3>6. CASE IsLong(f, t)
            <4>1. f[2] = NL /\ 2 \in 1..Len(f)
                BY <3>6 DEF IsLong
            <4>2. stream[at + 2] = NL
                BY <3>4, <4>1
            <4>3. at + 2 \in at + 1..arrived
                <5>1. at \in Nat /\ arrived \in Nat /\ arrived - at > MaxLine /\ MaxLine \in Nat \ {0}
                    BY <2>1, <2>3, LimitsAssumption
                <5> QED
                    BY ONLY <5>1
            <4> QED
                BY <3>5, <4>2, <4>3
        <3>7. CASE IsLine(f, t)
            <4>1. Len(f) = Len(t) + 1 /\ f[Len(t) + 1] = NL /\ Len(t) + 1 \in 1..Len(f)
                BY <3>3, <3>7, TextFacts, WithLineFeed DEF IsLine
            <4>2. stream[at + (Len(t) + 1)] = NL
                BY <3>4, <4>1
            <4>3. ~(at + (Len(t) + 1) \in at + 1..arrived)
                BY <3>5, <4>2
            <4>4. Len(t) > MaxLine
                BY <2>1, <2>3, <3>3, <4>3, LimitsAssumption
            <4>5. IsShort(t)
                BY <3>3, <3>7, FramesDiffer
            <4> QED
                BY <3>2, <4>4, <4>5 DEF OverLimit
        <3> QED
            BY <3>3, <3>6, <3>7, FrameFacts
    <2> QED
        BY <1>2, <2>2, <2>3 DEF OverrunsLine
<1> QED
    BY <1>1, <1>2

-----------------------------------------------------------------------------
(* The actions preserve the invariant *)

LEMMA PartOfStream ==
    ASSUME TransportTypeOK, NEW m \in Nat \ {0}, NEW n \in Int, n <= Len(stream)
    PROVE  SubSeq(stream, m, n) \in Seq(Units)
<1>1. stream \in Seq(Units) /\ Len(stream) \in Nat
    BY LenProperties DEF TransportTypeOK
<1>2. \A i \in m..n : i \in 1..Len(stream)
    BY <1>1
<1>3. \A i \in m..n : stream[i] \in Units
    BY <1>1, <1>2, ElementOfSeq
<1> QED
    BY <1>3, SubSeqProperties

LEMMA InitInv == TransportInit => TIInv
<1> SUFFICES ASSUME TransportInit PROVE TIInv
    OBVIOUS
<1>1. TransportTypeOK
    <2>1. << >> \in Seq(Units) /\ << >> \in Seq(Texts) /\ << >> \in Seq(Nat) /\ Len(<< >>) = 0
        BY EmptySeq
    <2> QED
        BY <2>1 DEF TransportInit, TransportTypeOK, Nothing, Outcome
<1>2. StreamInv
    BY EmptySeq DEF TransportInit, StreamInv, Start
<1>3. PositionInv
    BY DEF TransportInit, PositionInv, Start
<1> QED
    BY <1>1, <1>2, <1>3 DEF TIInv

LEMMA SameStream ==
    ASSUME StreamInv, stream' = stream, sent' = sent, ends' = ends
    PROVE  StreamInv' /\ \A i : Start(i)' = Start(i)
BY DEF StreamInv, Lies, Start

LEMMA SendsInv ==
    ASSUME TIInv, NEW t \in Texts, Sends(t)
    PROVE  TIInv'
<1> DEFINE n == Len(sent)
           L == Len(stream)
<1>1. PICK f \in Frames(t) : stream' = stream \o f /\ ends' = Append(ends, L + Len(f))
    BY DEF Sends
<1>2. f \in Seq(Units) /\ Len(f) \in Nat \ {0}
    BY FrameFacts
<1>3. stream \in Seq(Units) /\ L \in Nat /\ sent \in Seq(Texts) /\ ends \in Seq(Nat)
      /\ n \in Nat /\ Len(ends) = n /\ taken \in 0..n /\ arrived \in 0..L
    BY LenProperties DEF TIInv, TransportTypeOK
<1>4. /\ stream' \in Seq(Units) /\ Len(stream') = L + Len(f)
      /\ \A i \in 1..L : stream'[i] = stream[i]
      /\ \A j \in 1..Len(f) : stream'[L + j] = f[j]
    <2>1. /\ stream' \in Seq(Units) /\ Len(stream') = L + Len(f)
          /\ \A i \in 1..L + Len(f) : stream'[i] = IF i <= L THEN stream[i] ELSE f[i - L]
        BY <1>1, <1>2, <1>3, ConcatProperties
    <2>2. \A i \in 1..L : i \in 1..L + Len(f) /\ i <= L
        BY <1>2, <1>3
    <2>3. \A j \in 1..Len(f) : L + j \in 1..L + Len(f) /\ ~(L + j <= L) /\ (L + j) - L = j
        BY <1>2, <1>3
    <2> QED
        BY <2>1, <2>2, <2>3
<1>5. /\ sent' \in Seq(Texts) /\ Len(sent') = n + 1
      /\ \A i \in 1..n : sent'[i] = sent[i]
      /\ sent'[n + 1] = t
    BY <1>3, AppendProperties DEF Sends
<1>6. /\ ends' \in Seq(Nat) /\ Len(ends') = n + 1
      /\ \A i \in 1..n : ends'[i] = ends[i]
      /\ ends'[n + 1] = L + Len(f)
    <2>1. L + Len(f) \in Nat
        BY <1>2, <1>3
    <2> QED
        BY <1>1, <1>3, <2>1, AppendProperties
<1>7. \A i \in 1..n + 1 : Start(i)' = Start(i)
    <2> SUFFICES ASSUME NEW i \in 1..n + 1 PROVE Start(i)' = Start(i)
        OBVIOUS
    <2>1. CASE i = 1
        BY <2>1 DEF Start
    <2>2. CASE i # 1
        <3>1. i - 1 \in 1..n
            BY <1>3, <2>2
        <3> QED
            BY <1>6, <2>2, <3>1 DEF Start
    <2> QED
        BY <2>1, <2>2
<1>8. Start(n + 1) = L /\ \A i \in 1..n : Lies(i) /\ Start(i) \in Nat /\ ends[i] <= L
    BY DEF TIInv, StreamInv
<1>9. UNCHANGED <<arrived, link, at, reading, length, outcome, taken, intact>>
    BY DEF Sends, readVars
\* What lay in the stream still does.
<1>10. ASSUME NEW i \in 1..n, NEW g \in Frames(sent[i]),
              ends[i] = Start(i) + Len(g), \A j \in 1..Len(g) : stream[Start(i) + j] = g[j]
       PROVE  /\ g \in Frames(sent'[i]) /\ ends'[i] = Start(i)' + Len(g)
              /\ \A j \in 1..Len(g) : stream'[Start(i)' + j] = g[j]
    <2>1. sent[i] \in Texts
        BY <1>3, ElementOfSeq
    <2>2. Len(g) \in Nat
        BY <1>10, <2>1, FrameFacts
    <2>3. i \in 1..n + 1
        BY <1>3
    <2>4. Start(i)' = Start(i) /\ Start(i) \in Nat /\ ends[i] <= L
        BY <1>7, <1>8, <2>3
    <2>5. \A j \in 1..Len(g) : Start(i) + j \in 1..L
        BY <1>3, <1>10, <2>2, <2>4
    <2> QED
        BY <1>4, <1>5, <1>6, <1>10, <2>4, <2>5
<1> HIDE DEF n, L
<1>11. TransportTypeOK'
    <2>1. arrived' \in 0..Len(stream') /\ taken' \in 0..Len(sent')
        BY <1>2, <1>3, <1>4, <1>5, <1>9
    <2> QED
        BY <1>4, <1>5, <1>6, <1>9, <2>1 DEF TIInv, TransportTypeOK
<1>12. StreamInv'
    <2>1. (Start(Len(sent) + 1) = Len(stream))'
        <3>1. (n + 1) + 1 # 1 /\ ((n + 1) + 1) - 1 = n + 1
            BY <1>3
        <3> QED
            BY <1>4, <1>5, <1>6, <3>1 DEF Start
    <2>2. ASSUME NEW i \in 1..n
          PROVE  Lies(i)' /\ Start(i)' \in Nat /\ ends'[i] <= Len(stream')
        <3>1. PICK g \in Frames(sent[i]) :
                ends[i] = Start(i) + Len(g) /\ \A j \in 1..Len(g) : stream[Start(i) + j] = g[j]
            BY <1>8 DEF Lies
        <3>2. Lies(i)'
            BY <1>10, <3>1 DEF Lies
        <3>3. i \in 1..n + 1
            BY <1>3
        <3>4. Start(i)' \in Nat
            BY <1>7, <1>8, <3>3
        <3>5. ends[i] \in Nat
            BY <1>3, ElementOfSeq
        <3> QED
            BY <1>2, <1>3, <1>4, <1>6, <1>8, <3>2, <3>4, <3>5
    <2>3. ASSUME NEW i, i = n + 1
          PROVE  Lies(i)' /\ Start(i)' \in Nat /\ ends'[i] <= Len(stream')
        <3>1. i \in 1..n + 1
            BY <1>3, <2>3
        <3>2. Start(i)' = L
            BY <1>7, <1>8, <2>3, <3>1
        <3>3. Lies(i)'
            BY <1>4, <1>5, <1>6, <2>3, <3>2 DEF Lies
        <3> QED
            BY <1>2, <1>3, <1>4, <1>6, <2>3, <3>2, <3>3
    <2>4. \A i \in 1..Len(sent') : i \in 1..n \/ i = n + 1
        BY <1>3, <1>5
    <2>5. \A i \in 1..Len(sent') : Lies(i)' /\ Start(i)' \in Nat /\ ends'[i] <= Len(stream')
        BY <2>2, <2>3, <2>4
    <2> QED
        BY <2>1, <2>5 DEF StreamInv
<1>13. PositionInv'
    <2>1. taken + 1 \in 1..n + 1
        BY <1>3
    <2>2. Start(taken + 1)' = Start(taken + 1)
        BY <1>7, <1>9, <2>1
    <2>3. ASSUME taken < n, AtBody(taken + 1)
          PROVE  AtBody(taken + 1)'
        <3>1. taken + 1 \in 1..n
            BY <1>3, <2>3
        <3>2. PICK g \in Frames(sent[taken + 1]) :
                /\ IsLong(g, sent[taken + 1])
                /\ ends[taken + 1] = Start(taken + 1) + Len(g)
                /\ \A j \in 1..Len(g) : stream[Start(taken + 1) + j] = g[j]
                /\ at = Start(taken + 1) + 2 /\ length = Len(g) - 2
            BY <2>3 DEF AtBody
        <3>3. /\ g \in Frames(sent'[taken + 1])
              /\ ends'[taken + 1] = Start(taken + 1)' + Len(g)
              /\ \A j \in 1..Len(g) : stream'[Start(taken + 1)' + j] = g[j]
            BY <1>9, <1>10, <3>1, <3>2
        <3>4. sent'[taken + 1] = sent[taken + 1]
            BY <1>5, <3>1
        <3> QED
            BY <1>9, <2>2, <3>2, <3>3, <3>4 DEF AtBody
    <2>4. taken < n => taken < Len(sent')
        BY <1>3, <1>5
    <2> QED
        BY <1>9, <2>2, <2>3, <2>4 DEF TIInv, PositionInv, n
<1> QED
    BY <1>11, <1>12, <1>13 DEF TIInv

LEMMA NetworkInv ==
    ASSUME TIInv, Arrives \/ GoesDown
    PROVE  TIInv'
<1>1. UNCHANGED <<stream, sent, ends, at, reading, length, outcome, taken, intact>>
    BY DEF Arrives, GoesDown, readVars
<1>2. StreamInv'
    BY <1>1, SameStream DEF TIInv
<1>3. PositionInv'
    BY <1>1 DEF TIInv, PositionInv, AtBody, Start
<1>4. arrived' \in 0..Len(stream) /\ at \in 0..arrived' /\ link' \in {"up"} \cup LinkFaults
    <2>1. Len(stream) \in Nat
        BY LenProperties DEF TIInv, TransportTypeOK
    <2> QED
        BY <2>1 DEF Arrives, GoesDown, TIInv, TransportTypeOK
<1> QED
    BY <1>1, <1>2, <1>3, <1>4 DEF TIInv, TransportTypeOK

LEMMA HeaderInv ==
    ASSUME TIInv, ReadsHeader
    PROVE  TIInv'
<1>1. PICK p \in LineFeeds :
        /\ EndsLine(p) /\ IsHeader(LineTo(p)) /\ reading = "line"
        /\ at' = p /\ length' = LineTo(p)[1] /\ reading' = "body"
        /\ UNCHANGED <<stream, arrived, link, sent, ends, outcome, taken, intact>>
    BY DEF ReadsHeader, wireVars
<1>2. TransportTypeOK'
    <2>1. length' \in Nat /\ at' \in 0..arrived
        BY <1>1 DEF IsHeader, LineFeeds, TIInv, TransportTypeOK
    <2> QED
        BY <1>1, <2>1 DEF TIInv, TransportTypeOK
<1>3. StreamInv'
    BY <1>1, SameStream DEF TIInv
<1>4. PositionInv'
    <2> SUFFICES ASSUME intact PROVE taken < Len(sent) /\ AtBody(taken + 1)'
        BY <1>1 DEF PositionInv
    <2>1. taken < Len(sent)
        BY <1>1, HeaderOfMessage
    <2>2. PICK f \in Frames(sent[taken + 1]) :
            /\ IsLong(f, sent[taken + 1]) /\ p = at + 2
            /\ ends[taken + 1] = Start(taken + 1) + Len(f)
            /\ \A j \in 1..Len(f) : stream[Start(taken + 1) + j] = f[j]
            /\ LineTo(p)[1] = Len(f) - 2
        BY <1>1, HeaderOfMessage
    <2>3. at = Start(taken + 1)
        BY <1>1 DEF TIInv, PositionInv
    <2>4. Start(taken + 1)' = Start(taken + 1)
        BY <1>1 DEF Start
    <2> QED
        BY <1>1, <2>1, <2>2, <2>3, <2>4 DEF AtBody
<1> QED
    BY <1>2, <1>3, <1>4 DEF TIInv

\* A message that is taken is the next one, and leaves receive() at the one after it.
LEMMA TakesInv ==
    ASSUME TIInv, ReadsLine \/ ReadsBody
    PROVE  TIInv'
<1>1. PICK line \in Seq(Units) : at' \in 0..arrived /\ Takes(Parsed(line))
    <2>1. stream \in Seq(Units) /\ Len(stream) \in Nat /\ arrived \in 0..Len(stream) /\ at \in 0..arrived
          /\ length \in Nat
        BY LenProperties DEF TIInv, TransportTypeOK
    <2>2. CASE ReadsLine
        <3>1. PICK p \in LineFeeds : at' = p /\ Takes(Parsed(LineTo(p)))
            BY <2>2 DEF ReadsLine
        <3>2. at + 1 \in Nat \ {0} /\ p - 1 \in Int /\ p - 1 <= Len(stream) /\ p \in 0..arrived
            BY <2>1 DEF LineFeeds
        <3>3. LineTo(p) \in Seq(Units)
            BY <3>2, PartOfStream DEF LineTo, TIInv
        <3> QED
            BY <3>1, <3>2, <3>3
    <2>3. CASE ReadsBody
        <3>1. at' = at + length /\ Takes(Parsed(SubSeq(stream, at + 1, at + length)))
              /\ arrived - at >= length
            BY <2>3 DEF ReadsBody, BodyArrived
        <3>2. at + 1 \in Nat \ {0} /\ at + length \in Int /\ at + length <= Len(stream)
              /\ at + length \in 0..arrived
            BY <2>1, <3>1
        <3>3. SubSeq(stream, at + 1, at + length) \in Seq(Units)
            BY <3>2, PartOfStream DEF TIInv
        <3> QED
            BY <3>1, <3>2, <3>3
    <2> QED
        BY <2>2, <2>3
<1>2. /\ reading' = "no" /\ outcome' = Parsed(line)
      /\ taken' = IF intact THEN taken + 1 ELSE taken
      /\ UNCHANGED <<stream, arrived, link, sent, ends, length, intact>>
    BY <1>1 DEF Takes, wireVars
<1>3. intact => taken < Len(sent) /\ at' = ends[taken + 1]
    BY LineIsMessage, BodyIsMessage
<1>4. TransportTypeOK'
    <2>1. taken' \in 0..Len(sent)
        <3>1. Len(sent) \in Nat /\ taken \in 0..Len(sent) /\ intact \in BOOLEAN
            BY LenProperties DEF TIInv, TransportTypeOK
        <3> QED
            BY <1>2, <1>3, <3>1
    <2>2. outcome' \in [is : {"nothing", "raised", "reply"}, text : Seq(Units)]
        BY <1>2, ParsedType
    <2> QED
        BY <1>1, <1>2, <2>1, <2>2 DEF TIInv, TransportTypeOK
<1>5. StreamInv'
    BY <1>2, SameStream DEF TIInv
<1>6. PositionInv'
    <2> SUFFICES ASSUME intact PROVE (at = Start(taken + 1))'
        BY <1>2 DEF PositionInv
    <2>1. taken \in Nat
        BY LenProperties DEF TIInv, TransportTypeOK
    <2>2. taken' + 1 # 1 /\ (taken' + 1) - 1 = taken + 1
        BY <1>2, <2>1
    <2> QED
        BY <1>2, <1>3, <2>2 DEF Start
<1> QED
    BY <1>4, <1>5, <1>6 DEF TIInv

LEMMA BreaksInv ==
    ASSUME TIInv, NEW result \in [is : {"nothing", "raised", "reply"}, text : Seq(Units)],
           Breaks(result), at' \in 0..arrived
    PROVE  TIInv'
<1>1. /\ UNCHANGED <<stream, arrived, link, sent, ends, length, taken>>
      /\ reading' = "no" /\ outcome' = result /\ intact' = FALSE
    BY DEF Breaks, wireVars
<1>2. StreamInv'
    BY <1>1, SameStream DEF TIInv
<1> QED
    BY <1>1, <1>2 DEF TIInv, TransportTypeOK, PositionInv

LEMMA FailuresInv ==
    ASSUME TIInv, RefusesBody \/ OverrunsLine \/ ReachesEnd \/ MeetsReset
    PROVE  TIInv'
<1>1. stream \in Seq(Units) /\ Len(stream) \in Nat /\ arrived \in 0..Len(stream) /\ at \in 0..arrived
    BY LenProperties DEF TIInv, TransportTypeOK
<1>2. Raised \in [is : {"nothing", "raised", "reply"}, text : Seq(Units)]
    BY EmptySeq DEF Raised, Outcome
<1>3. at' \in 0..arrived
    BY <1>1 DEF RefusesBody, OverrunsLine, ReachesEnd, MeetsReset, LineFeeds
<1>4. CASE RefusesBody \/ OverrunsLine \/ MeetsReset
    BY <1>2, <1>3, <1>4, BreaksInv DEF RefusesBody, OverrunsLine, MeetsReset
<1>5. CASE ReachesEnd
    <2> DEFINE rest == SubSeq(stream, at + 1, arrived)
    <2>1. at + 1 \in Nat \ {0} /\ arrived \in Int /\ arrived <= Len(stream)
        BY <1>1
    <2>2. rest \in Seq(Units)
        BY <2>1, PartOfStream DEF TIInv
    <2>3. Parsed(rest) \in [is : {"nothing", "raised", "reply"}, text : Seq(Units)]
        BY <2>2, ParsedType
    <2>4. Breaks(Raised) \/ Breaks(Parsed(rest))
        BY <1>5 DEF ReachesEnd
    <2> QED
        BY <1>2, <1>3, <2>3, <2>4, BreaksInv
<1> QED
    BY <1>4, <1>5

LEMMA ReceiveInv ==
    ASSUME TIInv, StartsReceive \/ ReceiveCancelled
    PROVE  TIInv'
<1>1. /\ UNCHANGED <<stream, arrived, link, sent, ends, at, length, outcome, taken>>
      /\ reading' \in {"no", "line"} /\ intact' \in BOOLEAN
      /\ intact' => intact /\ reading # "body"
    <2>1. intact \in BOOLEAN
        BY DEF TIInv, TransportTypeOK
    <2>2. CASE StartsReceive
        BY <2>1, <2>2 DEF StartsReceive, wireVars
    <2>3. CASE ReceiveCancelled
        BY <2>1, <2>3 DEF ReceiveCancelled, wireVars
    <2> QED
        BY <2>2, <2>3
<1>2. StreamInv' /\ \A i : Start(i)' = Start(i)
    BY <1>1, SameStream DEF TIInv
<1>3. PositionInv'
    BY <1>1, <1>2 DEF TIInv, PositionInv, Start
<1> QED
    BY <1>1, <1>2, <1>3 DEF TIInv, TransportTypeOK

LEMMA StepInv == TIInv /\ [TransportNext]_transportVars => TIInv'
<1> SUFFICES ASSUME TIInv, [TransportNext]_transportVars PROVE TIInv'
    OBVIOUS
<1>1. ASSUME NEW t \in Texts, Sends(t) PROVE TIInv'
    BY <1>1, SendsInv
<1>2. CASE Arrives \/ GoesDown
    BY <1>2, NetworkInv
<1>3. CASE StartsReceive \/ ReceiveCancelled
    BY <1>3, ReceiveInv
<1>4. CASE ReadsHeader
    BY <1>4, HeaderInv
<1>5. CASE ReadsLine \/ ReadsBody
    BY <1>5, TakesInv
<1>6. CASE RefusesBody \/ OverrunsLine \/ ReachesEnd \/ MeetsReset
    BY <1>6, FailuresInv
<1>7. CASE UNCHANGED transportVars
    <2>1. UNCHANGED <<stream, arrived, at, link, reading, length, outcome, sent, ends, taken, intact>>
        BY <1>7 DEF transportVars, wireVars, readVars
    <2>2. StreamInv'
        BY <2>1, SameStream DEF TIInv
    <2> QED
        BY <2>1, <2>2 DEF TIInv, TransportTypeOK, PositionInv, AtBody, Start
<1> QED
    BY <1>1, <1>2, <1>3, <1>4, <1>5, <1>6, <1>7 DEF TransportNext, Receives

\* The invariant holds in every state.
THEOREM TransportInductive == TransportSpec => []TIInv
<1>1. TransportInit => TIInv
    BY InitInv
<1>2. TIInv /\ [TransportNext]_transportVars => TIInv'
    BY StepInv
<1> QED
    BY <1>1, <1>2, PTL DEF TransportSpec

\* In whatever pieces the stream arrives, receive() consumes nothing that has not
\* arrived, and returns nothing that is not a reply.
THEOREM TransportTypeCorrect == TransportSpec => []TransportTypeOK
<1>1. TIInv => TransportTypeOK
    BY DEF TIInv
<1> QED
    BY <1>1, TransportInductive, PTL

\* _read_one never waits for bytes that follow a message to return that message.
THEOREM NoMessageWaits == TransportSpec => []Prompt
<1>1. TIInv => Prompt
    <2> SUFFICES ASSUME TIInv, intact, taken < Len(sent), ends[taken + 1] <= arrived
                 PROVE  /\ reading = "line" => LineFeeds # {}
                        /\ reading = "body" => BodyArrived
        BY DEF Prompt
    <2> DEFINE k == taken + 1
               t == sent[k]
    <2>1. t \in Texts /\ Start(k) \in Nat /\ ends[k] \in Nat /\ k \in 1..Len(sent)
        BY NextMessage
    <2>2. at \in Nat /\ arrived \in Nat
        <3>1. Len(stream) \in Nat
            BY LenProperties DEF TIInv, TransportTypeOK
        <3> QED
            BY <3>1 DEF TIInv, TransportTypeOK
    <2>3. ASSUME reading = "line" PROVE LineFeeds # {}
        <3>1. at = Start(k)
            BY <2>3 DEF TIInv, PositionInv
        <3>2. PICK f \in Frames(t) : ends[k] = at + Len(f) /\ \A j \in 1..Len(f) : stream[at + j] = f[j]
            BY <2>1, <3>1 DEF TIInv, StreamInv, Lies
        <3>3. \E j \in 1..Len(f) : f[j] = NL
            <4>1. CASE IsLine(f, t)
                BY <2>1, <4>1, TextFacts, WithLineFeed DEF IsLine
            <4>2. CASE IsLong(f, t)
                <5>1. Len(f) \in Nat /\ 2 <= Len(f) /\ f[2] = NL
                    BY <4>2 DEF IsLong
                <5> QED
                    BY <5>1
            <4> QED
                BY <2>1, <4>1, <4>2, FrameFacts
        <3>4. PICK j \in 1..Len(f) : f[j] = NL
            BY <3>3
        <3>5. Len(f) \in Nat
            BY <2>1, FrameFacts
        <3>6. at + j \in at + 1..arrived
            BY <2>2, <3>2, <3>5
        <3> QED
            BY <3>2, <3>4, <3>6 DEF LineFeeds
    <2>4. ASSUME reading = "body" PROVE BodyArrived
        <3>1. PICK f \in Frames(t) :
                IsLong(f, t) /\ ends[k] = Start(k) + Len(f) /\ at = Start(k) + 2 /\ length = Len(f) - 2
            BY <2>4 DEF TIInv, PositionInv, AtBody
        <3>2. Len(f) \in Nat
            BY <2>1, FrameFacts
        <3> QED
            BY <2>1, <2>2, <3>1, <3>2 DEF BodyArrived
    <2> QED
        BY <2>3, <2>4
<1> QED
    BY <1>1, TransportInductive, PTL

-----------------------------------------------------------------------------
(* Transport implements MessageStream *)

Queue == SubSeq(sent, taken + 1, Len(sent))

QueueIsRest ==
    /\ Queue \in Seq(Texts) /\ Len(Queue) = Len(sent) - taken
    /\ \A i \in 1..Len(sent) - taken : Queue[i] = sent[taken + i]

LEMMA QueueFacts == TIInv => QueueIsRest
<1> SUFFICES ASSUME TIInv PROVE QueueIsRest
    OBVIOUS
<1>1. Len(sent) \in Nat /\ sent \in Seq(Texts) /\ taken \in 0..Len(sent)
    BY LenProperties DEF TIInv, TransportTypeOK
<1> DEFINE m == taken + 1
           n == Len(sent)
<1>2. m \in Int /\ n \in Int /\ n - m + 1 = n - taken
    BY <1>1
<1>3. \A i \in m..n : sent[i] \in Texts
    <2>1. \A i \in m..n : i \in 1..Len(sent)
        BY <1>1
    <2> QED
        BY <1>1, <2>1, ElementOfSeq
<1>4. (m <= n \/ n - taken = 0) /\ \A i \in 1..n - taken : m + i - 1 = taken + i
    BY <1>1
<1>5. ~(m <= n) => n - taken = 0
    BY <1>1
<1> HIDE DEF m, n
<1>6. /\ SubSeq(sent, m, n) \in Seq(Texts)
      /\ Len(SubSeq(sent, m, n)) = IF m <= n THEN n - m + 1 ELSE 0
      /\ \A i \in 1..n - m + 1 : SubSeq(sent, m, n)[i] = sent[m + i - 1]
    BY <1>2, <1>3, SubSeqProperties
<1>7. Len(SubSeq(sent, m, n)) = n - taken
    BY <1>2, <1>5, <1>6
<1>8. \A i \in 1..n - taken : SubSeq(sent, m, n)[i] = sent[taken + i]
    BY <1>2, <1>4, <1>6
<1> QED
    BY <1>6, <1>7, <1>8 DEF m, n, Queue, QueueIsRest

LEMMA QueueGrows ==
    ASSUME TIInv, TIInv', NEW t \in Texts, Sends(t)
    PROVE  Queue' = Append(Queue, t)
<1>1. Len(sent) \in Nat /\ sent \in Seq(Texts) /\ taken \in 0..Len(sent) /\ taken' = taken
      /\ sent' = Append(sent, t)
    BY LenProperties DEF TIInv, TransportTypeOK, Sends, readVars
<1>2. Len(sent') = Len(sent) + 1 /\ (\A i \in 1..Len(sent) : sent'[i] = sent[i])
      /\ sent'[Len(sent) + 1] = t
    BY <1>1, AppendProperties
<1>3. /\ Queue' \in Seq(Texts) /\ Len(Queue') = Len(sent') - taken
      /\ \A i \in 1..Len(sent') - taken : Queue'[i] = sent'[taken + i]
    <2>1. QueueIsRest'
        BY QueueFacts, PTL
    <2> QED
        BY <1>1, <2>1 DEF QueueIsRest
<1>4. /\ Queue \in Seq(Texts) /\ Len(Queue) = Len(sent) - taken
      /\ \A i \in 1..Len(sent) - taken : Queue[i] = sent[taken + i]
    BY QueueFacts DEF QueueIsRest
<1> DEFINE q == Len(sent) - taken
<1>5. q \in Nat /\ Len(sent') - taken = q + 1 /\ taken + (q + 1) = Len(sent) + 1
      /\ \A i \in 1..q : taken + i \in 1..Len(sent) /\ i \in 1..q + 1
    BY <1>1, <1>2
<1>6. /\ Append(Queue, t) \in Seq(Texts) /\ Len(Append(Queue, t)) = q + 1
      /\ \A i \in 1..q : Append(Queue, t)[i] = Queue[i]
      /\ Append(Queue, t)[q + 1] = t
    BY <1>4, AppendProperties
<1> HIDE DEF q
<1>7. \A i \in 1..q + 1 : Queue'[i] = Append(Queue, t)[i]
    <2> SUFFICES ASSUME NEW i \in 1..q + 1 PROVE Queue'[i] = Append(Queue, t)[i]
        OBVIOUS
    <2>1. CASE i = q + 1
        BY <1>2, <1>3, <1>5, <1>6, <2>1
    <2>2. CASE i \in 1..q
        <3>1. Queue'[i] = sent'[taken + i] /\ sent'[taken + i] = sent[taken + i]
            BY <1>2, <1>3, <1>5, <2>2
        <3>2. Queue[i] = sent[taken + i]
            BY <1>4, <2>2 DEF q
        <3> QED
            BY <1>6, <2>2, <3>1, <3>2
    <2>3. i = q + 1 \/ i \in 1..q
        <3>1. q \in Nat
            BY <1>5
        <3> QED
            BY ONLY <3>1, i \in 1..q + 1
    <2> QED
        BY <2>1, <2>2, <2>3
<1> QED
    BY <1>3, <1>5, <1>6, <1>7, SeqEqual

LEMMA QueueShrinks ==
    ASSUME TIInv, TIInv', taken < Len(sent), taken' = taken + 1, sent' = sent
    PROVE  Queue # << >> /\ Head(Queue) = sent[taken + 1] /\ Queue' = Tail(Queue)
<1>1. Len(sent) \in Nat /\ taken \in Nat
    BY LenProperties DEF TIInv, TransportTypeOK
<1>2. /\ Queue \in Seq(Texts) /\ Len(Queue) = Len(sent) - taken
      /\ \A i \in 1..Len(sent) - taken : Queue[i] = sent[taken + i]
    BY QueueFacts DEF QueueIsRest
<1>3. /\ Queue' \in Seq(Texts) /\ Len(Queue') = Len(sent) - (taken + 1)
      /\ \A i \in 1..Len(sent) - (taken + 1) : Queue'[i] = sent[(taken + 1) + i]
    <2>1. QueueIsRest'
        BY QueueFacts, PTL
    <2> QED
        BY <2>1 DEF QueueIsRest
<1>4. Queue # << >>
    BY <1>1, <1>2, EmptySeq
<1>5. Head(Queue) = sent[taken + 1]
    BY <1>1, <1>2, <1>4, HeadTailProperties
<1>6. /\ Tail(Queue) \in Seq(Texts) /\ Len(Tail(Queue)) = Len(Queue) - 1
      /\ \A i \in 1..Len(Tail(Queue)) : Tail(Queue)[i] = Queue[i + 1]
    BY <1>2, <1>4, HeadTailProperties
<1>7. Len(Queue') = Len(Tail(Queue))
    BY <1>1, <1>2, <1>3, <1>6
<1>8. \A i \in 1..Len(Queue') : Queue'[i] = Tail(Queue)[i]
    <2> SUFFICES ASSUME NEW i \in 1..Len(Queue') PROVE Queue'[i] = Tail(Queue)[i]
        OBVIOUS
    <2>1. i \in 1..Len(sent) - (taken + 1) /\ i + 1 \in 1..Len(sent) - taken
          /\ taken + (i + 1) = (taken + 1) + i
        BY <1>1, <1>3
    <2>2. Tail(Queue)[i] = Queue[i + 1]
        BY <1>6, <1>7
    <2> QED
        BY <1>2, <1>3, <2>1, <2>2
<1> QED
    BY <1>3, <1>4, <1>5, <1>6, <1>7, <1>8, SeqEqual

LEMMA InitImplements == TransportInit => Messages!Init
<1> SUFFICES ASSUME TransportInit PROVE Messages!Init
    OBVIOUS
<1>1. Len(Queue) = 0 /\ Queue \in Seq(Texts)
    <2>1. Len(sent) - taken = 0
        BY EmptySeq DEF TransportInit
    <2> QED
        BY <2>1, InitInv, QueueFacts DEF QueueIsRest
<1>2. SubSeq(sent, taken + 1, Len(sent)) = << >>
    BY <1>1, EmptySeq DEF Queue
<1> QED
    BY <1>2 DEF Messages!Init, TransportInit, Nothing, Outcome

LEMMA StepImplements ==
    ASSUME TIInv, TIInv', [TransportNext]_transportVars
    PROVE  [Messages!Next]_(Messages!vars)
<1> DEFINE MVars == <<Queue, outcome, intact, link = "up">>
<1>1. MVars = Messages!vars
    BY DEF Messages!vars, Queue
<1>2. intact \in BOOLEAN /\ LinkFaults \subseteq {"ended", "reset"}
    BY LinkAssumption DEF TIInv, TransportTypeOK
<1>3. ASSUME NEW t \in Texts, Sends(t) PROVE Messages!Next
    <2>1. UNCHANGED <<outcome, intact, link>> /\ link = "up"
        BY <1>3 DEF Sends, readVars
    <2>2. Queue' = Append(Queue, t)
        BY <1>3, QueueGrows
    <2>3. Messages!Send(t)
        BY <2>1, <2>2 DEF Messages!Send, Queue
    <2> QED
        BY <2>3 DEF Messages!Next
<1>4. ASSUME Arrives \/ StartsReceive \/ ReadsHeader \/ UNCHANGED transportVars
      PROVE  UNCHANGED Messages!vars
    <2>1. UNCHANGED <<sent, taken, outcome, intact, link>>
        BY <1>4 DEF Arrives, StartsReceive, ReadsHeader, transportVars, wireVars, readVars
    <2> QED
        BY <2>1 DEF Messages!vars
<1>5. ASSUME GoesDown PROVE Messages!Next
    <2>1. UNCHANGED <<sent, taken, outcome, intact>> /\ link = "up" /\ link' # "up"
        BY <1>2, <1>5 DEF GoesDown, readVars
    <2>2. Messages!GoDown
        BY <2>1 DEF Messages!GoDown
    <2> QED
        BY <2>2 DEF Messages!Next
<1>6. ASSUME ReadsLine \/ ReadsBody PROVE Messages!Next
    <2>1. UNCHANGED <<sent, link, intact>> /\ taken' = IF intact THEN taken + 1 ELSE taken
        BY <1>6 DEF ReadsLine, ReadsBody, Takes, wireVars
    <2>2. CASE intact
        <3>1. taken < Len(sent) /\ outcome' = Parsed(sent[taken + 1])
            BY <1>6, <2>2, LineIsMessage, BodyIsMessage
        <3>2. Queue # << >> /\ Head(Queue) = sent[taken + 1] /\ Queue' = Tail(Queue)
            BY <2>1, <2>2, <3>1, QueueShrinks
        <3>3. Messages!Receive
            BY <2>1, <2>2, <3>1, <3>2 DEF Messages!Receive, Queue
        <3> QED
            BY <3>3 DEF Messages!Next
    <2>3. CASE ~intact
        <3>1. UNCHANGED <<sent, taken, link, intact>>
            BY <2>1, <2>3
        <3>2. Messages!Afterwards
            BY <2>3, <3>1 DEF Messages!Afterwards
        <3> QED
            BY <3>2 DEF Messages!Next
    <2> QED
        BY <2>2, <2>3
<1>7. ASSUME RefusesBody \/ OverrunsLine \/ ReachesEnd \/ MeetsReset PROVE Messages!Next
    <2>1. UNCHANGED <<sent, taken, link>> /\ intact' = FALSE
        BY <1>7 DEF RefusesBody, OverrunsLine, ReachesEnd, MeetsReset, Breaks, wireVars
    <2>2. CASE ~intact
        <3>1. Messages!Afterwards
            BY <1>2, <2>1, <2>2 DEF Messages!Afterwards
        <3> QED
            BY <3>1 DEF Messages!Next
    <2>3. CASE intact /\ (ReachesEnd \/ MeetsReset)
        <3>1. link # "up"
            BY <2>3 DEF ReachesEnd, MeetsReset
        <3>2. Messages!Break
            BY <2>1, <2>3, <3>1 DEF Messages!Break
        <3> QED
            BY <3>2 DEF Messages!Next
    <2>4. CASE intact /\ (RefusesBody \/ OverrunsLine)
        <3>1. taken < Len(sent) /\ OverLimit(sent[taken + 1])
            BY <2>4, RefusedIsOverLimit
        <3>2. outcome'.is = "raised"
            BY <2>4 DEF RefusesBody, OverrunsLine, Breaks, Raised, Outcome
        <3>3. Queue # << >> /\ Head(Queue) = sent[taken + 1]
            <4>1. Len(sent) \in Nat /\ taken \in Nat
                BY LenProperties DEF TIInv, TransportTypeOK
            <4>2. Queue \in Seq(Texts) /\ Len(Queue) = Len(sent) - taken /\ Queue[1] = sent[taken + 1]
                BY <3>1, <4>1, QueueFacts DEF QueueIsRest
            <4>3. Queue # << >>
                BY <3>1, <4>1, <4>2, EmptySeq
            <4> QED
                BY <4>2, <4>3, HeadTailProperties
        <3>4. Messages!Break
            BY <2>1, <2>4, <3>1, <3>2, <3>3 DEF Messages!Break, Queue
        <3> QED
            BY <3>4 DEF Messages!Next
    <2> QED
        BY <1>7, <2>2, <2>3, <2>4
<1>8. ASSUME ReceiveCancelled PROVE [Messages!Next]_(Messages!vars)
    <2>1. UNCHANGED <<sent, taken, link, outcome>> /\ intact' = (intact /\ reading = "line")
        BY <1>8 DEF ReceiveCancelled, wireVars
    <2>2. CASE intact' = intact
        BY <2>1, <2>2 DEF Messages!vars
    <2>3. CASE intact' # intact
        <3>1. intact = TRUE /\ intact' = FALSE
            BY <1>2, <2>1, <2>3
        <3>2. Messages!Break
            BY <2>1, <3>1 DEF Messages!Break
        <3> QED
            BY <3>2 DEF Messages!Next
    <2> QED
        BY <2>2, <2>3
<1> QED
    BY <1>3, <1>4, <1>5, <1>6, <1>7, <1>8 DEF TransportNext, Receives

\* Until the connection is lost, a message is over the limits or receive() is
\* cancelled, receive() returns the messages of the server, whole and in order.
THEOREM ImplementsMessages == TransportSpec => ImplementsMessageStream
<1>1. TransportInit => Messages!Init
    BY InitImplements
<1>2. TIInv /\ TIInv' /\ [TransportNext]_transportVars => [Messages!Next]_(Messages!vars)
    BY StepImplements
<1> QED
    BY <1>1, <1>2, TransportInductive, PTL DEF TransportSpec, ImplementsMessageStream, Messages!Spec

=============================================================================

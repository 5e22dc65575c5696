-------------------------- MODULE IngestionProofs --------------------------
(***************************************************************************)
(* Theorems about Chunking and Ingestion, for every set of engagements, of *)
(* contents, of documents and of requests at once, whatever text the       *)
(* parser makes of a content, and all sizes of chunks that fit together.   *)
(*                                                                         *)
(* First what chunk_text makes of every text.  Its loop is a recursive     *)
(* function of the blocks read, so what it keeps is proved by induction on *)
(* their number, which here is that a set of naturals has a least element. *)
(* Then what the steps of the requests keep; there only the number of the  *)
(* chunks of a text is used.                                               *)
(***************************************************************************)
EXTENDS Ingestion, FiniteSetTheorems, SequenceTheorems, TLAPS

(***************************************************************************)
(* Least elements and induction                                            *)
(***************************************************************************)
\* A set of naturals has a least element.
LEMMA LeastNatural ==
    ASSUME NEW T \in SUBSET Nat, T # {}
    PROVE  \E m \in T : \A k \in T : m <= k
  <1> DEFINE R == StrictSubsetOrdering(Nat)
             below == {1 .. k : k \in T}
  <1>1. IsWellFoundedOn(R, FiniteSubsetsOf(Nat))
    BY FS_StrictSubsetOrderingWellFounded
  <1>2. below \subseteq FiniteSubsetsOf(Nat) /\ below # {}
    <2>1. ASSUME NEW k \in T PROVE 1 .. k \in FiniteSubsetsOf(Nat)
      BY FS_Interval DEF FiniteSubsetsOf
    <2> QED BY <2>1
  <1>3. PICK x \in below : \A y \in below : ~ (<<y, x>> \in R)
    <2> HIDE DEF below, R
    <2> QED BY <1>1, <1>2, WFMin
  <1>4. PICK m \in T : x = 1 .. m
    OBVIOUS
  <1>5. ASSUME NEW k \in T PROVE m <= k
    <2>1. ~ (<<1 .. k, 1 .. m>> \in R)
      BY <1>3, <1>4
    <2>2. SUFFICES ASSUME k < m PROVE <<1 .. k, 1 .. m>> \in R
      BY <2>1
    <2>3. 1 .. k \subseteq 1 .. m /\ m \in 1 .. m /\ m \notin 1 .. k
      BY <2>2
    <2>4. 1 .. k \in SUBSET Nat /\ 1 .. m \in SUBSET Nat
      OBVIOUS
    <2> QED BY <2>3, <2>4 DEF StrictSubsetOrdering
  <1> QED BY <1>5

\* What holds of 0, and of n + 1 if it holds of n, holds of every natural number.
LEMMA EveryNatural ==
    ASSUME NEW S, 0 \in S, \A n \in Nat : n \in S => n + 1 \in S
    PROVE  Nat \subseteq S
  <1> DEFINE T == Nat \ S
  <1> SUFFICES ASSUME T # {} PROVE FALSE
    OBVIOUS
  <1>1. PICK m \in T : \A k \in T : m <= k
    BY LeastNatural
  <1>2. m # 0 /\ m - 1 \in Nat /\ m - 1 \notin T
    BY <1>1
  <1> QED BY <1>2

(***************************************************************************)
(* The two recursive functions                                             *)
(***************************************************************************)
LEMMA ReadBlocksStep ==
    ASSUME NEW text \in Seq(Nat)
    PROVE  /\ ReadBlocks(text)[0] = NothingRead
           /\ \A k \in 1 .. Len(text) :
                 ReadBlocks(text)[k] = AddBlock(ReadBlocks(text)[k - 1], text[k])
  <1> DEFINE Reads(g, n) == g = [k \in 0 .. n |-> IF k = 0 THEN NothingRead
                                                 ELSE AddBlock(g[k - 1], text[k])]
             S == {n \in Nat : \E g : Reads(g, n)}
  <1>1. 0 \in S
    <2>1. Reads([k \in 0 .. 0 |-> NothingRead], 0)
      OBVIOUS
    <2> QED BY <2>1
  <1>2. ASSUME NEW n \in Nat, n \in S PROVE n + 1 \in S
    <2>1. PICK g : Reads(g, n)
      BY <1>2
    <2> DEFINE h == [k \in 0 .. n + 1 |-> IF k = n + 1 THEN AddBlock(g[n], text[n + 1]) ELSE g[k]]
    <2>2. Reads(h, n + 1)
      <3>1. ASSUME NEW k \in 0 .. n + 1
            PROVE h[k] = IF k = 0 THEN NothingRead ELSE AddBlock(h[k - 1], text[k])
        <4>1. CASE k = n + 1
          BY <4>1
        <4>2. CASE k # n + 1
          BY <2>1, <4>2
        <4> QED BY <4>1, <4>2
      <3> QED BY <3>1
    <2>3. \E x : Reads(x, n + 1)
      BY <2>2
    <2> HIDE DEF Reads
    <2> QED BY <2>3
  <1>3. Len(text) \in S
    <2>1. Nat \subseteq S
      <3> HIDE DEF S
      <3> QED BY <1>1, <1>2, EveryNatural
    <2>2. Len(text) \in Nat
      OBVIOUS
    <2> HIDE DEF S
    <2> QED BY <2>1, <2>2
  <1>4. PICK g : Reads(g, Len(text))
    BY <1>3
  <1>5. Reads(ReadBlocks(text), Len(text))
    <2>1. ReadBlocks(text) = CHOOSE after : Reads(after, Len(text))
      BY DEF ReadBlocks
    <2>2. \E after : Reads(after, Len(text))
      BY <1>4
    <2> HIDE DEF Reads
    <2> QED BY <2>1, <2>2
  <1> QED BY <1>5

LEMMA BlockEndsStep ==
    ASSUME NEW text \in Seq(Nat)
    PROVE  /\ EndOfBlock(text, 0) = 0
           /\ \A k \in 1 .. Len(text) :
                 EndOfBlock(text, k) = EndOfBlock(text, k - 1) + text[k]
  <1> DEFINE Ends(g, n) == g = [k \in 0 .. n |-> IF k = 0 THEN 0 ELSE g[k - 1] + text[k]]
             S == {n \in Nat : \E g : Ends(g, n)}
  <1>1. 0 \in S
    <2>1. Ends([k \in 0 .. 0 |-> 0], 0)
      OBVIOUS
    <2> QED BY <2>1
  <1>2. ASSUME NEW n \in Nat, n \in S PROVE n + 1 \in S
    <2>1. PICK g : Ends(g, n)
      BY <1>2
    <2> DEFINE h == [k \in 0 .. n + 1 |-> IF k = n + 1 THEN g[n] + text[n + 1] ELSE g[k]]
    <2>2. Ends(h, n + 1)
      <3>1. ASSUME NEW k \in 0 .. n + 1
            PROVE h[k] = IF k = 0 THEN 0 ELSE h[k - 1] + text[k]
        <4>1. CASE k = n + 1
          BY <4>1
        <4>2. CASE k # n + 1
          BY <2>1, <4>2
        <4> QED BY <4>1, <4>2
      <3> QED BY <3>1
    <2>3. \E x : Ends(x, n + 1)
      BY <2>2
    <2> HIDE DEF Ends
    <2> QED BY <2>3
  <1>3. Len(text) \in S
    <2>1. Nat \subseteq S
      <3> HIDE DEF S
      <3> QED BY <1>1, <1>2, EveryNatural
    <2>2. Len(text) \in Nat
      OBVIOUS
    <2> HIDE DEF S
    <2> QED BY <2>1, <2>2
  <1>4. PICK g : Ends(g, Len(text))
    BY <1>3
  <1>5. Ends(BlockEnds(text), Len(text))
    <2>1. BlockEnds(text) = CHOOSE end : Ends(end, Len(text))
      BY DEF BlockEnds
    <2>2. \E end : Ends(end, Len(text))
      BY <1>4
    <2> HIDE DEF Ends
    <2> QED BY <2>1, <2>2
  <1>6. PICK end : end = BlockEnds(text)
    OBVIOUS
  <1>7. end = [k \in 0 .. Len(text) |-> IF k = 0 THEN 0 ELSE end[k - 1] + text[k]]
    BY <1>5, <1>6
  <1>8. end[0] = 0 /\ \A k \in 1 .. Len(text) : end[k] = end[k - 1] + text[k]
    <2>1. Len(text) \in Nat
      OBVIOUS
    <2>2. 0 \in 0 .. Len(text) /\ \A k \in 1 .. Len(text) : k \in 0 .. Len(text) /\ k # 0
      BY <2>1
    <2> QED BY <1>7, <2>2
  <1> QED BY <1>6, <1>8 DEF EndOfBlock

LEMMA BlockEndsGrow ==
    ASSUME NEW text \in Seq(Nat)
    PROVE  \A k \in 0 .. Len(text) :
              /\ EndOfBlock(text, k) \in Nat
              /\ \A j \in 0 .. k : /\ EndOfBlock(text, j) \in Nat
                                  /\ EndOfBlock(text, j) <= EndOfBlock(text, k)
  <1> DEFINE Fine(k) == /\ EndOfBlock(text, k) \in Nat
                        /\ \A j \in 0 .. k : /\ EndOfBlock(text, j) \in Nat
                                            /\ EndOfBlock(text, j) <= EndOfBlock(text, k)
             S == {k \in Nat : k <= Len(text) => Fine(k)}
  <1>1. 0 \in S
    BY BlockEndsStep
  <1>2. ASSUME NEW n \in Nat, n \in S PROVE n + 1 \in S
    <2> SUFFICES ASSUME n + 1 <= Len(text) PROVE Fine(n + 1)
      OBVIOUS
    <2>1. Fine(n)
      BY <1>2
    <2>2. EndOfBlock(text, n + 1) = EndOfBlock(text, n) + text[n + 1] /\ text[n + 1] \in Nat
      BY BlockEndsStep
    <2>3. ASSUME NEW j \in 0 .. n + 1
          PROVE  /\ EndOfBlock(text, j) \in Nat
                 /\ EndOfBlock(text, j) <= EndOfBlock(text, n + 1)
      <3>1. CASE j = n + 1
        BY <2>1, <2>2, <3>1
      <3>2. CASE j # n + 1
        <4>1. j \in 0 .. n
          BY <3>2
        <4>2. EndOfBlock(text, j) <= EndOfBlock(text, n) /\ EndOfBlock(text, j) \in Nat
          BY <2>1, <4>1
        <4> QED BY <2>1, <2>2, <4>2
      <3> QED BY <3>1, <3>2
    <2> QED BY <2>1, <2>2, <2>3
  <1>3. Nat \subseteq S
    <2> HIDE DEF S
    <2> QED BY <1>1, <1>2, EveryNatural
  <1>4. ASSUME NEW k \in 0 .. Len(text) PROVE Fine(k)
    BY <1>3
  <1> QED BY <1>4

\* No paragraph ends strictly inside another block.
LEMMA InsideIsNoEnd ==
    ASSUME NEW text \in Seq(Nat), NEW k \in 1 .. Len(text), NEW w \in Nat,
           EndOfBlock(text, k - 1) < w, w < EndOfBlock(text, k)
    PROVE  w \notin ParagraphEnds(text)
  <1> SUFFICES ASSUME NEW j \in 1 .. Len(text), w = EndOfBlock(text, j) PROVE FALSE
    BY DEF ParagraphEnds
  <1>1. CASE j <= k - 1
    <2>1. j \in 0 .. k - 1 /\ k - 1 \in 0 .. Len(text)
      BY <1>1
    <2>2. EndOfBlock(text, j) <= EndOfBlock(text, k - 1) /\ EndOfBlock(text, k - 1) \in Nat
      BY <2>1, BlockEndsGrow
    <2> QED BY <2>2
  <1>2. CASE k <= j
    <2>1. k \in 0 .. j /\ j \in 0 .. Len(text)
      BY <1>2
    <2>2. EndOfBlock(text, k) <= EndOfBlock(text, j) /\ EndOfBlock(text, k) \in Nat
      BY <2>1, BlockEndsGrow
    <2> QED BY <2>2
  <1> QED BY <1>1, <1>2

(***************************************************************************)
(* Runs of words                                                           *)
(***************************************************************************)
Run(c) ==
    /\ c \in Seq(Nat) /\ c # <<>>
    /\ c[1] >= 1
    /\ \A i \in 1 .. Len(c) : c[i] = c[1] + i - 1

LEMMA RunFacts ==
    ASSUME NEW c, Run(c)
    PROVE  /\ Len(c) \in Nat /\ Len(c) >= 1
           /\ c[1] \in Nat /\ c[1] >= 1
           /\ Last(c) = c[1] + Len(c) - 1 /\ Last(c) \in Nat
  <1>1. Len(c) \in Nat /\ Len(c) >= 1
    BY EmptySeq DEF Run
  <1>2. c[1] \in Nat
    BY <1>1 DEF Run
  <1>3. Last(c) = c[1] + Len(c) - 1
    BY <1>1 DEF Run, Last
  <1> QED BY <1>1, <1>2, <1>3 DEF Run

LEMMA RunsJoin ==
    ASSUME NEW a, NEW b, Run(a), Run(b), b[1] = Last(a) + 1
    PROVE  /\ Run(a \o b) /\ (a \o b)[1] = a[1]
           /\ Last(a \o b) = Last(b) /\ Len(a \o b) = Len(a) + Len(b)
  <1> DEFINE c == a \o b
  <1>1. /\ c \in Seq(Nat) /\ Len(c) = Len(a) + Len(b)
        /\ \A i \in 1 .. Len(a) + Len(b) :
              c[i] = IF i <= Len(a) THEN a[i] ELSE b[i - Len(a)]
    BY ConcatProperties DEF Run
  <1>2. /\ Len(a) \in Nat /\ Len(a) >= 1 /\ a[1] \in Nat /\ a[1] >= 1
        /\ Last(a) = a[1] + Len(a) - 1
        /\ Len(b) \in Nat /\ Len(b) >= 1
        /\ Last(b) = b[1] + Len(b) - 1
    BY RunFacts
  <1> HIDE DEF c
  <1>3. c[1] = a[1]
    BY <1>1, <1>2
  <1>4. ASSUME NEW i \in 1 .. Len(c) PROVE c[i] = c[1] + i - 1
    <2>1. CASE i <= Len(a)
      <3>1. c[i] = a[i] /\ i \in 1 .. Len(a)
        BY <1>1, <1>2, <2>1
      <3> QED BY <1>3, <3>1 DEF Run
    <2>2. CASE i > Len(a)
      <3>1. c[i] = b[i - Len(a)] /\ i - Len(a) \in 1 .. Len(b)
        BY <1>1, <1>2, <2>2
      <3>2. b[i - Len(a)] = b[1] + (i - Len(a)) - 1
        BY <3>1 DEF Run
      <3>3. i \in Nat /\ b[1] = a[1] + Len(a)
        <4>1. i \in Nat
          BY <1>1, <1>2
        <4>2. b[1] = (a[1] + Len(a) - 1) + 1
          BY <1>2
        <4> QED BY <1>2, <4>1, <4>2
      <3>4. c[i] = (a[1] + Len(a)) + (i - Len(a)) - 1
        BY <3>1, <3>2, <3>3
      <3> QED BY <1>2, <1>3, <3>3, <3>4
    <2> QED BY <1>1, <1>2, <2>1, <2>2
  <1>5. c # <<>>
    BY <1>1, <1>2
  <1>6. Run(c)
    BY <1>1, <1>2, <1>3, <1>4, <1>5 DEF Run
  <1>7. Last(c) = Last(b)
    <2>1. Last(c) = c[1] + Len(c) - 1
      BY <1>6, RunFacts
    <2> QED BY <1>1, <1>2, <1>3, <2>1
  <1> QED BY <1>1, <1>3, <1>6, <1>7 DEF c

\* The words of a paragraph of count words after the first read ones.
LEMMA ParagraphIsRun ==
    ASSUME NEW read \in Nat, NEW count \in Nat \ {0}
    PROVE  LET words == [i \in 1 .. count |-> read + i]
           IN  /\ Run(words) /\ Len(words) = count
               /\ words[1] = read + 1 /\ Last(words) = read + count
  <1> DEFINE words == [i \in 1 .. count |-> read + i]
  <1>1. words \in Seq(Nat) /\ Len(words) = count
    OBVIOUS
  <1>2. \A i \in 1 .. count : words[i] = read + i
    OBVIOUS
  <1> HIDE DEF words
  <1>3. words[1] = read + 1 /\ words # <<>>
    BY <1>1, <1>2
  <1>4. Run(words)
    BY <1>1, <1>2, <1>3 DEF Run
  <1> QED BY <1>1, <1>2, <1>3, <1>4 DEF Last, words

(***************************************************************************)
(* The windows of a long paragraph                                         *)
(***************************************************************************)
LEMMA Sizes ==
    /\ TargetWords \in Nat /\ MinWords \in Nat /\ MinWords >= 1
    /\ OverlapWords \in Nat /\ OverlapWords >= 1 /\ OverlapWords < TargetWords
    /\ MinWords <= OverlapWords + 1
    /\ Step = TargetWords - OverlapWords /\ Step \in Nat /\ Step >= 1
  <1>1. /\ TargetWords \in Nat /\ MinWords \in Nat /\ MinWords >= 1 /\ OverlapPercent \in Nat
        /\ OverlapWords < TargetWords /\ MinWords <= OverlapWords + 1
    BY ChunkingAssumption
  <1>2. OverlapWords \in Nat /\ OverlapWords >= 1
    <2> DEFINE rounded == (TargetWords * OverlapPercent + 50) \div 100
    <2>1. TargetWords * OverlapPercent \in Nat
      BY <1>1
    <2>2. rounded \in Nat
      BY <2>1
    <2>3. OverlapWords = IF rounded > 1 THEN rounded ELSE 1
      BY DEF OverlapWords
    <2> HIDE DEF rounded
    <2> QED BY <2>2, <2>3
  <1> QED BY <1>1, <1>2 DEF Step

LEMMA WindowFacts ==
    ASSUME NEW words, Run(words), NEW i \in Nat, i < Len(words)
    PROVE  LET w == Window(words, i)
               end == IF i + TargetWords < Len(words) THEN i + TargetWords ELSE Len(words)
           IN  Run(w) /\ w[1] = words[1] + i /\ Len(w) = end - i
  <1> DEFINE end == IF i + TargetWords < Len(words) THEN i + TargetWords ELSE Len(words)
             w == Window(words, i)
  <1>1. Len(words) \in Nat /\ words[1] \in Nat /\ words[1] >= 1
    BY RunFacts
  <1>2. end \in Nat /\ i + 1 <= end /\ end <= Len(words)
    BY <1>1, Sizes
  <1>3. w = SubSeq(words, i + 1, end)
    BY DEF Window
  <1> HIDE DEF end, w
  <1>4. \A j \in i + 1 .. end : words[j] \in Nat
    BY <1>1, <1>2 DEF Run
  <1>5. /\ w \in Seq(Nat) /\ Len(w) = end - i
        /\ \A j \in 1 .. end - i : w[j] = words[i + j]
    <2>1. i + 1 \in Int /\ end \in Int
      BY <1>2
    <2>2. /\ w \in Seq(Nat)
          /\ Len(w) = IF i + 1 <= end THEN end - (i + 1) + 1 ELSE 0
          /\ \A j \in 1 .. end - (i + 1) + 1 : w[j] = words[i + 1 + j - 1]
      BY <1>3, <1>4, <2>1, SubSeqProperties
    <2> QED BY <1>2, <2>2
  <1>6. \A j \in 1 .. end - i : w[j] = words[1] + i + j - 1
    <2> SUFFICES ASSUME NEW j \in 1 .. end - i PROVE w[j] = words[1] + i + j - 1
      OBVIOUS
    <2>1. i + j \in 1 .. Len(words) /\ j \in Nat
      BY <1>1, <1>2
    <2>2. words[i + j] = words[1] + (i + j) - 1
      BY <2>1 DEF Run
    <2> QED BY <1>1, <1>5, <2>1, <2>2
  <1>7. w[1] = words[1] + i
    <2>1. 1 \in 1 .. end - i
      BY <1>2
    <2> QED BY <1>1, <1>6, <2>1
  <1>8. w # <<>>
    BY <1>2, <1>5
  <1>9. Run(w)
    <2>1. ASSUME NEW j \in 1 .. Len(w) PROVE w[j] = w[1] + j - 1
      BY <1>5, <1>6, <1>7
    <2>2. w[1] >= 1
      BY <1>1, <1>7
    <2> QED BY <1>5, <1>8, <2>1, <2>2 DEF Run
  <1> QED BY <1>5, <1>7, <1>9 DEF w, end

\* The starts of the windows are an interval from 0, whose last reaches the end.
LEMMA WindowStarts ==
    ASSUME NEW count \in Nat, count > TargetWords
    PROVE  LET starts == {k \in 0 .. count : k > 0 => (k - 1) * Step + TargetWords < count}
           IN  \E m \in Nat \ {0} :
                  /\ starts = 0 .. m /\ Cardinality(starts) = m + 1
                  /\ m * Step < count /\ m * Step + TargetWords >= count
                  /\ \A k \in 1 .. m : (k - 1) * Step + TargetWords < count
  <1> DEFINE starts == {k \in 0 .. count : k > 0 => (k - 1) * Step + TargetWords < count}
             Over == {k \in Nat : k * Step + TargetWords >= count}
  <1>1. \A k \in Nat : k * Step \in Nat /\ k * Step >= k /\ (k + 1) * Step = k * Step + Step
    BY Sizes
  <1>2. \A j, k \in Nat : j <= k => j * Step <= k * Step
    BY Sizes
  <1>3. count \in Over
    BY <1>1, Sizes
  <1>4. PICK m \in Over : \A k \in Over : m <= k
    BY <1>3, LeastNatural
  <1>5. m # 0
    BY Sizes
  <1>6. \A k \in 1 .. m : (k - 1) * Step + TargetWords < count
    <2> SUFFICES ASSUME NEW k \in 1 .. m PROVE (k - 1) * Step + TargetWords < count
      OBVIOUS
    <2>1. k - 1 \in Nat /\ k - 1 \notin Over
      BY <1>4
    <2>2. (k - 1) * Step \in Nat
      BY <1>1, <2>1
    <2> QED BY <2>1, <2>2, Sizes
  <1>7. m * Step < count
    <2>1. m - 1 \in Nat /\ m \in 1 .. m
      BY <1>5
    <2>2. m * Step = (m - 1) * Step + Step /\ (m - 1) * Step \in Nat
      BY <1>1, <2>1
    <2>3. (m - 1) * Step + TargetWords < count
      BY <1>6, <2>1
    <2> QED BY <2>2, <2>3, Sizes
  <1>8. m <= count
    BY <1>1, <1>7
  <1>9. starts = 0 .. m
    <2>1. ASSUME NEW k \in starts PROVE k \in 0 .. m
      <3> SUFFICES ASSUME k > m PROVE FALSE
        OBVIOUS
      <3>1. k - 1 \in Nat /\ m <= k - 1
        OBVIOUS
      <3>2. m * Step <= (k - 1) * Step
        BY <1>2, <3>1
      <3>3. (k - 1) * Step + TargetWords < count
        BY <3>1
      <3>4. m * Step \in Nat /\ (k - 1) * Step \in Nat
        BY <1>1, <3>1
      <3> QED BY <3>2, <3>3, <3>4, Sizes
    <2>2. ASSUME NEW k \in 0 .. m PROVE k \in starts
      BY <1>6, <1>8
    <2> HIDE DEF starts
    <2> QED BY <2>1, <2>2
  <1>10. Cardinality(0 .. m) = m + 1
    BY FS_Interval
  <1> HIDE DEF starts
  <1>11. /\ m \in Nat \ {0} /\ starts = 0 .. m /\ Cardinality(starts) = m + 1
         /\ m * Step < count /\ m * Step + TargetWords >= count
         /\ \A k \in 1 .. m : (k - 1) * Step + TargetWords < count
    BY <1>4, <1>5, <1>6, <1>7, <1>9, <1>10
  <1> QED BY <1>11 DEF starts

(***************************************************************************)
(* Chains of chunks                                                        *)
(***************************************************************************)
\* How a chunk goes on after the one before it.
Linked(text, before, chunk) ==
    /\ chunk[1] = Last(before) + 1
          - (IF Last(before) \in ParagraphEnds(text) THEN 0 ELSE OverlapWords)
    /\ Len(before) < MinWords => InsideOversized(text, chunk[1])

Piece(text, chunk) ==
    /\ Run(chunk)
    /\ Len(chunk) < TargetWords + MinWords
    /\ Last(chunk) \in ParagraphEnds(text) \/ InsideOversized(text, Last(chunk))

Chain(text, made) ==
    /\ made \in Seq(Seq(Nat))
    /\ \A c \in 1 .. Len(made) : Piece(text, made[c])
    /\ \A c \in 2 .. Len(made) : Linked(text, made[c - 1], made[c])

LEMMA ChainOfOne ==
    ASSUME NEW text, NEW chunk, Piece(text, chunk)
    PROVE  Chain(text, <<chunk>>) /\ Last(<<chunk>>) = chunk
  <1>1. chunk \in Seq(Nat)
    BY DEF Piece, Run
  <1>2. <<chunk>> \in Seq(Seq(Nat)) /\ Len(<<chunk>>) = 1 /\ <<chunk>>[1] = chunk
    BY <1>1
  <1> QED BY <1>2 DEF Chain, Last

LEMMA ChainsJoin ==
    ASSUME NEW text, NEW a, NEW b, Chain(text, a), Chain(text, b), a # <<>>, b # <<>>,
           Linked(text, Last(a), b[1])
    PROVE  /\ Chain(text, a \o b) /\ a \o b # <<>>
           /\ (a \o b)[1] = a[1] /\ Last(a \o b) = Last(b)
           /\ Len(a \o b) = Len(a) + Len(b)
  <1> DEFINE c == a \o b
  <1>1. /\ c \in Seq(Seq(Nat)) /\ Len(c) = Len(a) + Len(b)
        /\ \A i \in 1 .. Len(a) + Len(b) :
              c[i] = IF i <= Len(a) THEN a[i] ELSE b[i - Len(a)]
    BY ConcatProperties DEF Chain
  <1>2. Len(a) \in Nat /\ Len(a) >= 1 /\ Len(b) \in Nat /\ Len(b) >= 1
    BY EmptySeq DEF Chain
  <1> HIDE DEF c
  <1>3. \A i \in 1 .. Len(a) : c[i] = a[i]
    BY <1>1, <1>2
  <1>4. \A i \in 1 .. Len(b) : c[Len(a) + i] = b[i]
    <2> SUFFICES ASSUME NEW i \in 1 .. Len(b) PROVE c[Len(a) + i] = b[i]
      OBVIOUS
    <2>1. Len(a) + i \in 1 .. Len(a) + Len(b) /\ ~ (Len(a) + i <= Len(a))
      BY <1>2
    <2>2. (Len(a) + i) - Len(a) = i
      BY <1>2
    <2> QED BY <1>1, <2>1, <2>2
  <1>5. ASSUME NEW i \in 1 .. Len(c) PROVE Piece(text, c[i])
    <2>1. CASE i <= Len(a)
      <3>1. i \in 1 .. Len(a)
        BY <1>1, <1>2, <2>1
      <3> QED BY <1>3, <3>1 DEF Chain
    <2>2. CASE i > Len(a)
      <3>1. i - Len(a) \in 1 .. Len(b) /\ Len(a) + (i - Len(a)) = i
        BY <1>1, <1>2, <2>2
      <3>2. c[i] = b[i - Len(a)]
        BY <1>4, <3>1
      <3> QED BY <3>1, <3>2 DEF Chain
    <2> QED BY <1>1, <1>2, <2>1, <2>2
  <1>6. ASSUME NEW i \in 2 .. Len(c) PROVE Linked(text, c[i - 1], c[i])
    <2>1. CASE i <= Len(a)
      <3>1. i \in 2 .. Len(a) /\ i \in 1 .. Len(a) /\ i - 1 \in 1 .. Len(a)
        BY <1>1, <1>2, <2>1
      <3>2. c[i] = a[i] /\ c[i - 1] = a[i - 1]
        BY <1>3, <3>1
      <3> QED BY <3>1, <3>2 DEF Chain
    <2>2. CASE i = Len(a) + 1
      <3>1. Len(a) \in 1 .. Len(a) /\ 1 \in 1 .. Len(b) /\ i - 1 = Len(a)
        BY <1>2, <2>2
      <3>2. c[i - 1] = Last(a) /\ c[i] = b[1]
        BY <1>3, <1>4, <2>2, <3>1 DEF Last
      <3> QED BY <3>2
    <2>3. CASE i > Len(a) + 1
      <3>1. PICK j \in 2 .. Len(b) : i = Len(a) + j
        <4>1. i - Len(a) \in 2 .. Len(b) /\ i = Len(a) + (i - Len(a))
          BY <1>1, <1>2, <2>3
        <4> QED BY <4>1
      <3>2. /\ j \in 1 .. Len(b) /\ j - 1 \in 1 .. Len(b)
            /\ Len(a) + (j - 1) = i - 1
        BY <1>2, <3>1
      <3>3. c[i] = b[j] /\ c[i - 1] = b[j - 1]
        BY <1>4, <3>1, <3>2
      <3> QED BY <3>1, <3>3 DEF Chain
    <2> QED BY <1>1, <1>2, <2>1, <2>2, <2>3
  <1>7. c # <<>>
    BY <1>1, <1>2
  <1>8. c[1] = a[1] /\ Last(c) = Last(b)
    <2>1. 1 \in 1 .. Len(a) /\ Len(b) \in 1 .. Len(b)
      BY <1>2
    <2> QED BY <1>1, <1>3, <1>4, <2>1 DEF Last
  <1>9. Chain(text, c)
    BY <1>1, <1>5, <1>6 DEF Chain
  <1> QED BY <1>1, <1>7, <1>8, <1>9 DEF c

\* What is strictly inside a long paragraph.
LEMMA InsideBlock ==
    ASSUME NEW text \in Seq(Nat), NEW k \in 1 .. Len(text), text[k] > TargetWords,
           NEW w \in Nat, EndOfBlock(text, k - 1) < w, w < EndOfBlock(text, k)
    PROVE  InsideOversized(text, w)
  BY DEF InsideOversized

LEMMA WindowsChain ==
    ASSUME NEW text \in Seq(Nat), NEW k \in 1 .. Len(text), text[k] > TargetWords
    PROVE  LET made == SplitLargeParagraph([i \in 1 .. text[k] |-> EndOfBlock(text, k - 1) + i])
           IN  /\ Chain(text, made) /\ made # <<>>
               /\ made[1][1] = EndOfBlock(text, k - 1) + 1
               /\ Last(Last(made)) = EndOfBlock(text, k)
               /\ Len(Last(made)) >= MinWords
  <1> DEFINE read == EndOfBlock(text, k - 1)
             count == text[k]
             words == [i \in 1 .. count |-> read + i]
             made == SplitLargeParagraph(words)
             starts == {j \in 0 .. count : j > 0 => (j - 1) * Step + TargetWords < count}
  <1>1. /\ count \in Nat /\ count > TargetWords
        /\ read \in Nat /\ EndOfBlock(text, k) = read + count
    <2>1. k - 1 \in 0 .. Len(text)
      OBVIOUS
    <2>2. read \in Nat
      BY <2>1, BlockEndsGrow
    <2> QED BY <2>2, BlockEndsStep
  <1>2. /\ Run(words) /\ Len(words) = count /\ words[1] = read + 1
    <2>1. count \in Nat \ {0}
      BY <1>1, Sizes
    <2> HIDE DEF read, count
    <2> QED BY <1>1, <2>1, ParagraphIsRun
  <1>3. PICK m \in Nat \ {0} :
            /\ starts = 0 .. m /\ Cardinality(starts) = m + 1
            /\ m * Step < count /\ m * Step + TargetWords >= count
            /\ \A j \in 1 .. m : (j - 1) * Step + TargetWords < count
    <2> HIDE DEF count
    <2> QED BY <1>1, WindowStarts
  <1>4. made = [j \in 1 .. m + 1 |-> Window(words, (j - 1) * Step)]
    <2> HIDE DEF words, starts
    <2>1. made = [j \in 1 .. Cardinality({i \in 0 .. count :
                       i > 0 => (i - 1) * Step + TargetWords < count}) |->
                       Window(words, (j - 1) * Step)]
      BY <1>2 DEF SplitLargeParagraph
    <2> QED BY <1>3, <2>1 DEF starts
  <1> HIDE DEF read, count, words, made, starts
  <1>5. ASSUME NEW j \in 1 .. m + 1
        PROVE  /\ Run(made[j])
               /\ (j - 1) * Step \in Nat
               /\ made[j][1] = read + 1 + (j - 1) * Step
               /\ j <= m => /\ Len(made[j]) = TargetWords
                            /\ Last(made[j]) = read + (j - 1) * Step + TargetWords
                            /\ (j - 1) * Step + TargetWords < count
               /\ j = m + 1 => /\ Len(made[j]) = count - m * Step
                               /\ Last(made[j]) = read + count
    <2> DEFINE i == (j - 1) * Step
    <2>1. made[j] = Window(words, i)
      BY <1>4
    <2>2. i \in Nat
      BY Sizes
    <2>3. j <= m => i + TargetWords < count
      BY <1>3
    <2>4. j = m + 1 => i < count /\ i + TargetWords >= count /\ i = m * Step
      BY <1>3
    <2>5. j <= m \/ j = m + 1
      OBVIOUS
    <2> HIDE DEF i
    <2>6. i < count
      BY <1>1, <2>2, <2>3, <2>4, <2>5, Sizes
    <2>7. /\ Run(made[j]) /\ made[j][1] = words[1] + i
          /\ Len(made[j]) = (IF i + TargetWords < count THEN i + TargetWords ELSE count) - i
      BY <1>2, <2>1, <2>2, <2>6, WindowFacts
    <2>8. Last(made[j]) = made[j][1] + Len(made[j]) - 1
      BY <2>7, RunFacts
    <2>9. j <= m => /\ Len(made[j]) = TargetWords
                    /\ Last(made[j]) = read + i + TargetWords
      BY <1>1, <1>2, <2>2, <2>3, <2>7, <2>8, Sizes
    <2>10. j = m + 1 => Len(made[j]) = count - i /\ Last(made[j]) = read + count
      BY <1>1, <1>2, <2>2, <2>4, <2>7, <2>8, Sizes
    <2>11. made[j][1] = read + 1 + i
      BY <1>1, <1>2, <2>2, <2>7
    <2> QED BY <2>2, <2>3, <2>4, <2>7, <2>9, <2>10, <2>11 DEF i
  <1>6. made \in Seq(Seq(Nat)) /\ Len(made) = m + 1 /\ made # <<>>
    <2>1. \A j \in 1 .. m + 1 : made[j] \in Seq(Nat)
      BY <1>5 DEF Run
    <2>2. made = [j \in 1 .. m + 1 |-> made[j]]
      BY <1>4
    <2>3. made \in [1 .. m + 1 -> Seq(Nat)] /\ m + 1 \in Nat
      BY <2>1, <2>2
    <2>4. made \in Seq(Seq(Nat))
      BY <2>3, SeqDef
    <2>5. Len(made) = m + 1
      BY <2>3, <2>4, LenProperties
    <2>6. m + 1 # 0
      OBVIOUS
    <2> QED BY <2>4, <2>5, <2>6, EmptySeq
  <1>7. ASSUME NEW j \in 1 .. m
        PROVE  /\ Last(made[j]) \in Nat
               /\ Last(made[j]) \notin ParagraphEnds(text)
               /\ InsideOversized(text, Last(made[j]))
    <2>1. /\ j \in 1 .. m + 1 /\ j <= m
      OBVIOUS
    <2>2. /\ Last(made[j]) = read + (j - 1) * Step + TargetWords
          /\ (j - 1) * Step + TargetWords < count
          /\ (j - 1) * Step \in Nat
      BY <1>5, <2>1
    <2>3. /\ Last(made[j]) \in Nat /\ EndOfBlock(text, k - 1) < Last(made[j])
          /\ Last(made[j]) < EndOfBlock(text, k)
      <3>1. PICK i, last : i = (j - 1) * Step /\ last = Last(made[j])
        OBVIOUS
      <3>2. last \in Nat /\ read < last /\ last < read + count
        BY <1>1, <2>2, <3>1, Sizes
      <3> QED BY <1>1, <3>1, <3>2 DEF read
    <2> QED BY <1>1, <2>3, InsideIsNoEnd, InsideBlock DEF count
  <1>8. ASSUME NEW j \in 1 .. m + 1 PROVE Piece(text, made[j])
    <2>1. Run(made[j])
      BY <1>5
    <2>2. CASE j <= m
      <3>1. j \in 1 .. m /\ Len(made[j]) = TargetWords
        BY <1>5, <2>2
      <3> QED BY <1>7, <2>1, <3>1, Sizes DEF Piece
    <2>3. CASE j = m + 1
      <3>1. Len(made[j]) = count - m * Step /\ Last(made[j]) = EndOfBlock(text, k)
        BY <1>1, <1>5, <2>3
      <3>2. EndOfBlock(text, k) \in ParagraphEnds(text)
        BY DEF ParagraphEnds
      <3>3. Len(made[j]) <= TargetWords
        BY <1>1, <1>3, <3>1, Sizes
      <3> QED BY <1>1, <1>3, <2>1, <3>1, <3>2, <3>3, Sizes DEF Piece
    <2> QED BY <2>2, <2>3
  <1>9. ASSUME NEW j \in 2 .. m + 1 PROVE Linked(text, made[j - 1], made[j])
    <2>1. j - 1 \in 1 .. m /\ j - 1 \in 1 .. m + 1 /\ j \in 1 .. m + 1
      OBVIOUS
    <2>2. /\ Last(made[j - 1]) = read + ((j - 1) - 1) * Step + TargetWords
          /\ Len(made[j - 1]) = TargetWords
      BY <1>5, <2>1
    <2>3. made[j][1] = read + 1 + (j - 1) * Step
      BY <1>5, <2>1
    <2>4. ((j - 1) - 1) * Step \in Nat /\ (j - 1) * Step = ((j - 1) - 1) * Step + Step
      BY <2>1, Sizes
    <2>5. made[j][1] = Last(made[j - 1]) + 1 - OverlapWords
      BY <1>1, <2>2, <2>3, <2>4, Sizes
    <2>6. Last(made[j - 1]) \notin ParagraphEnds(text)
      BY <1>7, <2>1
    <2>7. ~ (Len(made[j - 1]) < MinWords)
      BY <2>2, Sizes
    <2> QED BY <2>5, <2>6, <2>7 DEF Linked
  <1>10. Chain(text, made)
    BY <1>6, <1>8, <1>9 DEF Chain
  <1>11. made[1][1] = read + 1
    <2>1. 1 \in 1 .. m + 1 /\ (1 - 1) * Step = 0
      BY Sizes
    <2> QED BY <1>1, <1>5, <2>1
  <1>12. Last(made) = made[m + 1] /\ m + 1 \in 1 .. m + 1
    BY <1>6 DEF Last
  <1>13. Last(Last(made)) = EndOfBlock(text, k) /\ Len(Last(made)) = count - m * Step
    BY <1>1, <1>5, <1>12
  <1>14. Len(Last(made)) >= MinWords
    <2>1. m \in 1 .. m /\ m * Step = (m - 1) * Step + Step /\ (m - 1) * Step \in Nat
      BY Sizes
    <2>2. (m - 1) * Step + TargetWords < count
      BY <1>3, <2>1
    <2> QED BY <1>1, <1>13, <2>1, <2>2, Sizes
  <1> QED BY <1>6, <1>10, <1>11, <1>13, <1>14 DEF made, words, read, count

(***************************************************************************)
(* The loop of chunk_text                                                  *)
(***************************************************************************)
\* The chunks hold the words up to the given one, at which a paragraph ends.
Covers(text, word, made) ==
    /\ Chain(text, made)
    /\ made = <<>> => word = 0
    /\ made # <<>> =>
          /\ made[1][1] = 1
          /\ Last(Last(made)) = word /\ word \in ParagraphEnds(text)

\* The words read that the chunks of a state do not hold yet are its buffer.
Held(s) == IF s.buffer = <<>> THEN s.read ELSE s.buffer[1] - 1

Reading(text, word, s) ==
    /\ DOMAIN s = {"chunks", "buffer", "read"}
    /\ s.buffer \in Seq(Nat) /\ s.read = word
    /\ Covers(text, Held(s), s.chunks)
    /\ s.chunks # <<>> => Len(Last(s.chunks)) >= MinWords
    /\ s.buffer # <<>> =>
          /\ Run(s.buffer)
          /\ Last(s.buffer) = word /\ word \in ParagraphEnds(text)
          /\ Len(s.buffer) < TargetWords + MinWords

\* A short chunk may be followed by the start of a long paragraph only.
LEMMA CoversMore ==
    ASSUME NEW text, NEW word \in Nat, NEW made, Covers(text, word, made),
           NEW more, Chain(text, more), more # <<>>, more[1][1] = word + 1,
           NEW end, Last(Last(more)) = end, end \in ParagraphEnds(text),
           made # <<>> /\ Len(Last(made)) < MinWords => InsideOversized(text, word + 1)
    PROVE  /\ Covers(text, end, made \o more)
           /\ made \o more # <<>> /\ Last(made \o more) = Last(more)
  <1>1. CASE made = <<>>
    <2>1. made \o more = more
      BY <1>1, ConcatEmptySeq DEF Chain
    <2> QED BY <1>1, <2>1 DEF Covers
  <1>2. CASE made # <<>>
    <2>1. /\ Chain(text, made) /\ made[1][1] = 1
          /\ Last(Last(made)) = word /\ word \in ParagraphEnds(text)
      BY <1>2 DEF Covers
    <2>2. more[1][1] = word + 1 - 0
      OBVIOUS
    <2>3. Linked(text, Last(made), more[1])
      BY <1>2, <2>1, <2>2 DEF Linked
    <2>4. /\ Chain(text, made \o more) /\ made \o more # <<>>
          /\ (made \o more)[1] = made[1] /\ Last(made \o more) = Last(more)
      BY <1>2, <2>1, <2>3, ChainsJoin
    <2> QED BY <2>1, <2>4 DEF Covers
  <1> QED BY <1>1, <1>2

\* The chunks after a flush hold all that was read, the buffer as the last one.
Flushed(text, word, s, f) ==
    /\ DOMAIN f = {"chunks", "buffer", "read"}
    /\ f.buffer = <<>> /\ f.read = word
    /\ Covers(text, word, f.chunks)
    /\ s.buffer # <<>> => /\ f.chunks = s.chunks \o <<s.buffer>>
                          /\ f.chunks # <<>> /\ Last(f.chunks) = s.buffer
    /\ s.buffer = <<>> => f.chunks = s.chunks

LEMMA FlushCovers ==
    ASSUME NEW text, NEW word, NEW s, Reading(text, word, s), NEW f, f = Flush(s)
    PROVE  Flushed(text, word, s, f)
  <1> DEFINE b == s.buffer
             cs == s.chunks
  <1>1. /\ DOMAIN s = {"chunks", "buffer", "read"} /\ s.read = word
        /\ cs \in Seq(Seq(Nat)) /\ b \in Seq(Nat)
    BY DEF Reading, Covers, Chain
  <1>2. CASE b = <<>>
    <2>1. f = s /\ Held(s) = word
      BY <1>1, <1>2 DEF Flush, Held
    <2> QED BY <1>1, <1>2, <2>1 DEF Reading, Flushed
  <1>3. CASE b # <<>>
    <2>1. f = [s EXCEPT !.chunks = Append(@, s.buffer), !.buffer = <<>>]
      BY <1>3 DEF Flush
    <2>2. Append(cs, b) = cs \o <<b>>
      BY <1>1, AppendIsConcat
    <2>3. /\ DOMAIN f = {"chunks", "buffer", "read"}
          /\ f.chunks = cs \o <<b>> /\ f.buffer = <<>> /\ f.read = word
      BY <1>1, <2>1, <2>2
    <2>4. /\ Held(s) = b[1] - 1 /\ Covers(text, Held(s), cs)
          /\ cs # <<>> => Len(Last(cs)) >= MinWords
          /\ Run(b) /\ Last(b) = word /\ word \in ParagraphEnds(text)
          /\ Len(b) < TargetWords + MinWords
      BY <1>3 DEF Reading, Held
    <2>5. Piece(text, b)
      BY <2>4 DEF Piece
    <2>6. Chain(text, <<b>>) /\ Last(<<b>>) = b /\ <<b>> # <<>> /\ <<b>>[1] = b
      BY <2>5, ChainOfOne
    <2>7. b[1] \in Nat /\ b[1] >= 1
      BY <2>4, RunFacts
    <2>8. Held(s) \in Nat /\ b[1] = Held(s) + 1
      BY <2>4, <2>7
    <2>9. ~ (cs # <<>> /\ Len(Last(cs)) < MinWords)
      <3> SUFFICES ASSUME cs # <<>> PROVE ~ (Len(Last(cs)) < MinWords)
        OBVIOUS
      <3>1. Last(cs) \in Seq(Nat)
        BY <1>1 DEF Last
      <3>2. Len(Last(cs)) \in Nat
        BY <3>1
      <3> QED BY <2>4, <3>2, Sizes
    <2>10. /\ Covers(text, word, cs \o <<b>>)
           /\ cs \o <<b>> # <<>> /\ Last(cs \o <<b>>) = Last(<<b>>)
      <3>1. PICK held : held = Held(s)
        OBVIOUS
      <3>2. PICK more : more = <<b>>
        OBVIOUS
      <3>3. more[1][1] = held + 1 /\ Last(Last(more)) = word
        BY <2>4, <2>6, <2>8, <3>1, <3>2
      <3>4. Covers(text, held, cs) /\ held \in Nat /\ Chain(text, more) /\ more # <<>>
        BY <2>4, <2>6, <2>8, <3>1, <3>2
      <3> HIDE DEF cs, b
      <3>5. /\ Covers(text, word, cs \o more)
            /\ cs \o more # <<>> /\ Last(cs \o more) = Last(more)
        BY <2>4, <2>9, <3>3, <3>4, CoversMore
      <3> QED BY <3>2, <3>5
    <2> QED BY <1>3, <2>3, <2>6, <2>10 DEF Flushed
  <1> QED BY <1>2, <1>3

\* The words of block k, which AddParagraph reads after the ones before it.
BlockWords(text, k) == [i \in 1 .. text[k] |-> EndOfBlock(text, k - 1) + i]

LEMMA BlockWordsFacts ==
    ASSUME NEW text \in Seq(Nat), NEW k \in 1 .. Len(text), text[k] # 0
    PROVE  /\ EndOfBlock(text, k - 1) \in Nat /\ text[k] \in Nat /\ text[k] >= 1
           /\ EndOfBlock(text, k) = EndOfBlock(text, k - 1) + text[k]
           /\ EndOfBlock(text, k) \in ParagraphEnds(text)
           /\ BlockWords(text, k) \in Seq(Nat) /\ BlockWords(text, k) # <<>>
           /\ Run(BlockWords(text, k)) /\ Len(BlockWords(text, k)) = text[k]
           /\ BlockWords(text, k)[1] = EndOfBlock(text, k - 1) + 1
           /\ Last(BlockWords(text, k)) = EndOfBlock(text, k)
  <1>1. k - 1 \in 0 .. Len(text)
    OBVIOUS
  <1>2. EndOfBlock(text, k - 1) \in Nat /\ text[k] \in Nat /\ text[k] >= 1
    BY <1>1, BlockEndsGrow
  <1>3. EndOfBlock(text, k) = EndOfBlock(text, k - 1) + text[k]
    BY BlockEndsStep
  <1>4. EndOfBlock(text, k) \in ParagraphEnds(text)
    BY DEF ParagraphEnds
  <1>5. PICK read, count : read = EndOfBlock(text, k - 1) /\ count = text[k]
    OBVIOUS
  <1>6. BlockWords(text, k) = [i \in 1 .. count |-> read + i]
    BY <1>5 DEF BlockWords
  <1>7. /\ Run(BlockWords(text, k)) /\ Len(BlockWords(text, k)) = count
        /\ BlockWords(text, k)[1] = read + 1 /\ Last(BlockWords(text, k)) = read + count
    <2>1. read \in Nat /\ count \in Nat \ {0}
      BY <1>2, <1>5
    <2> QED BY <1>6, <2>1, ParagraphIsRun
  <1> QED BY <1>2, <1>3, <1>4, <1>5, <1>7 DEF Run

\* A long paragraph: the buffer and then the windows go to the chunks.
LEMMA LongParagraph ==
    ASSUME NEW text \in Seq(Nat), NEW k \in 1 .. Len(text), text[k] > TargetWords,
           NEW s, Reading(text, EndOfBlock(text, k - 1), s)
    PROVE  Reading(text, EndOfBlock(text, k), AddParagraph(s, text[k]))
  <1>1. PICK read, count, end, words :
            /\ read = EndOfBlock(text, k - 1) /\ count = text[k]
            /\ end = EndOfBlock(text, k) /\ words = BlockWords(text, k)
    OBVIOUS
  <1>2. text[k] # 0
    BY Sizes
  <1>3. /\ read \in Nat /\ count \in Nat /\ count >= 1 /\ end = read + count
        /\ end \in ParagraphEnds(text)
    BY <1>1, <1>2, BlockWordsFacts
  <1>4. PICK more : more = SplitLargeParagraph(words)
    OBVIOUS
  <1>5. /\ Chain(text, more) /\ more # <<>> /\ more[1][1] = read + 1
        /\ Last(Last(more)) = end /\ Len(Last(more)) >= MinWords
    BY <1>1, <1>4, WindowsChain DEF BlockWords
  <1>6. PICK f, made : f = Flush(s) /\ made = f.chunks
    OBVIOUS
  <1>7. /\ Covers(text, read, made)
        /\ DOMAIN f = {"chunks", "buffer", "read"}
        /\ f.buffer = <<>> /\ f.read = read
    <2>1. Reading(text, read, s)
      BY <1>1
    <2>2. Flushed(text, read, s, f)
      BY <1>6, <2>1, FlushCovers
    <2> QED BY <1>6, <2>2 DEF Flushed
  <1>8. PICK t : t = AddParagraph(s, count)
    OBVIOUS
  <1>9. /\ DOMAIN t = {"chunks", "buffer", "read"}
        /\ t.chunks = made \o more /\ t.buffer = <<>> /\ t.read = end
    <2>1. s.read = read
      BY <1>1 DEF Reading
    <2>2. words = [i \in 1 .. count |-> s.read + i]
      BY <1>1, <2>1 DEF BlockWords
    <2>3. count > TargetWords
      BY <1>1
    <2>4. t = [f EXCEPT !.chunks = @ \o more, !.read = @ + count]
      BY <1>4, <1>6, <1>8, <2>2, <2>3 DEF AddParagraph
    <2> QED BY <1>3, <1>6, <1>7, <2>4
  <1>10. InsideOversized(text, read + 1)
    <2>1. /\ read + 1 \in Nat /\ EndOfBlock(text, k - 1) < read + 1
          /\ read + 1 < EndOfBlock(text, k)
      <3>1. read + 1 \in Nat /\ read < read + 1 /\ read + 1 < end
        <4>1. count > TargetWords
          BY <1>1
        <4> QED BY <1>3, <4>1, Sizes
      <3> QED BY <1>1, <3>1
    <2> QED BY <2>1, InsideBlock
  <1>11. Covers(text, end, made \o more) /\ made \o more # <<>> /\ Last(made \o more) = Last(more)
    BY <1>3, <1>5, <1>7, <1>10, CoversMore
  <1>12. Held(t) = end
    BY <1>9 DEF Held
  <1>13. Reading(text, end, t)
    BY <1>5, <1>11, <1>9, <1>12 DEF Reading
  <1> QED BY <1>1, <1>8, <1>13

\* A paragraph that fits is added to the buffer, which is flushed before it
\* only when it reaches the floor.
LEMMA ShortParagraph ==
    ASSUME NEW text \in Seq(Nat), NEW k \in 1 .. Len(text), text[k] # 0,
           ~ (text[k] > TargetWords),
           NEW s, Reading(text, EndOfBlock(text, k - 1), s)
    PROVE  Reading(text, EndOfBlock(text, k), AddParagraph(s, text[k]))
  <1>1. PICK read, count, end, words :
            /\ read = EndOfBlock(text, k - 1) /\ count = text[k]
            /\ end = EndOfBlock(text, k) /\ words = BlockWords(text, k)
    OBVIOUS
  <1>2. /\ read \in Nat /\ count \in Nat /\ count >= 1 /\ end = read + count
        /\ end \in ParagraphEnds(text)
        /\ Run(words) /\ words # <<>> /\ words \in Seq(Nat) /\ Len(words) = count
        /\ words[1] = read + 1 /\ Last(words) = end
    BY <1>1, BlockWordsFacts
  <1>3. count <= TargetWords
    <2>1. ~ (count > TargetWords)
      BY <1>1
    <2> QED BY <1>2, <2>1, Sizes
  <1>4. PICK b, cs : b = s.buffer /\ cs = s.chunks
    OBVIOUS
  <1>5. /\ DOMAIN s = {"chunks", "buffer", "read"} /\ s.read = read
        /\ b \in Seq(Nat)
    BY <1>1, <1>4 DEF Reading
  <1> DEFINE full == Len(b) + count > TargetWords /\ Len(b) >= MinWords
             ready == IF full THEN Flush(s) ELSE s
  <1>6. AddParagraph(s, count) = [ready EXCEPT !.buffer = @ \o words, !.read = @ + count]
    <2>1. words = [i \in 1 .. count |-> s.read + i]
      BY <1>1, <1>5 DEF BlockWords
    <2>2. ~ (count > TargetWords)
      BY <1>2, <1>3, Sizes
    <2> QED BY <1>4, <2>1, <2>2 DEF AddParagraph
  <1>7. CASE full
    <2>1. Len(b) >= MinWords /\ b # <<>>
      BY <1>7, Sizes, EmptySeq
    <2>2. PICK f, made : f = Flush(s) /\ made = f.chunks
      OBVIOUS
    <2>3. /\ Covers(text, read, made)
          /\ DOMAIN f = {"chunks", "buffer", "read"}
          /\ f.buffer = <<>> /\ f.read = read
          /\ made # <<>> /\ Last(made) = b
      <3>1. Reading(text, read, s)
        BY <1>1
      <3>2. Flushed(text, read, s, f)
        BY <2>2, <3>1, FlushCovers
      <3> QED BY <1>4, <2>1, <2>2, <3>2 DEF Flushed
    <2>4. PICK t : t = AddParagraph(s, count)
      OBVIOUS
    <2>5. <<>> \o words = words
      BY <1>2, ConcatEmptySeq
    <2>6. /\ DOMAIN t = {"chunks", "buffer", "read"}
          /\ t.chunks = made /\ t.buffer = words /\ t.read = end
      <3>1. t = [f EXCEPT !.buffer = @ \o words, !.read = @ + count]
        BY <1>6, <1>7, <2>2, <2>4
      <3> QED BY <1>2, <2>2, <2>3, <2>5, <3>1
    <2>7. Held(t) = read
      BY <1>2, <2>6 DEF Held
    <2>8. Len(words) < TargetWords + MinWords
      BY <1>2, <1>3, Sizes
    <2>9. Reading(text, end, t)
      BY <1>2, <2>1, <2>3, <2>6, <2>7, <2>8 DEF Reading
    <2> QED BY <1>1, <2>4, <2>9
  <1>8. CASE ~ full
    <2>1. PICK buffer : buffer = b \o words
      OBVIOUS
    <2>2. PICK t : t = AddParagraph(s, count)
      OBVIOUS
    <2>3. /\ DOMAIN t = {"chunks", "buffer", "read"}
          /\ t.chunks = cs /\ t.buffer = buffer /\ t.read = end
      <3>1. t = [s EXCEPT !.buffer = @ \o words, !.read = @ + count]
        BY <1>6, <1>8, <2>2
      <3> QED BY <1>2, <1>4, <1>5, <2>1, <3>1
    <2>4. /\ Run(buffer) /\ Last(buffer) = end /\ buffer[1] - 1 = Held(s)
          /\ Len(buffer) < TargetWords + MinWords
      <3>1. CASE b = <<>>
        <4>1. buffer = words
          BY <1>2, <2>1, <3>1, ConcatEmptySeq
        <4> QED BY <1>2, <1>3, <1>4, <1>5, <3>1, <4>1, Sizes DEF Held
      <3>2. CASE b # <<>>
        <4>1. Run(b) /\ Last(b) = read /\ Len(b) < TargetWords + MinWords
          BY <1>1, <1>4, <3>2 DEF Reading
        <4>2. words[1] = Last(b) + 1
          BY <1>2, <4>1
        <4>3. /\ Run(buffer) /\ buffer[1] = b[1] /\ Last(buffer) = end
              /\ Len(buffer) = Len(b) + count
          BY <1>2, <2>1, <4>1, <4>2, RunsJoin
        <4>4. Len(b) \in Nat
          BY <4>1, RunFacts
        <4>5. Len(b) + count < TargetWords + MinWords
          <5>1. PICK size : size = Len(b)
            OBVIOUS
          <5>2. ~ (size + count > TargetWords /\ size >= MinWords)
            BY <1>8, <5>1
          <5>3. size + count < TargetWords + MinWords
            BY <1>2, <1>3, <4>4, <5>1, <5>2, Sizes
          <5> QED BY <5>1, <5>3
        <4> QED BY <1>4, <3>2, <4>3, <4>5 DEF Held
      <3> QED BY <3>1, <3>2
    <2>5. buffer \in Seq(Nat) /\ buffer # <<>>
      BY <2>4 DEF Run
    <2>6. Held(t) = Held(s)
      BY <2>3, <2>4, <2>5 DEF Held
    <2>7. Covers(text, Held(s), cs) /\ (cs # <<>> => Len(Last(cs)) >= MinWords)
      BY <1>4 DEF Reading
    <2>8. Reading(text, end, t)
      BY <1>2, <2>3, <2>4, <2>5, <2>6, <2>7 DEF Reading
    <2> QED BY <1>1, <2>2, <2>8
  <1> QED BY <1>7, <1>8

LEMMA BlocksRead ==
    ASSUME NEW text \in Seq(Nat)
    PROVE  \A k \in 0 .. Len(text) : Reading(text, EndOfBlock(text, k), ReadBlocks(text)[k])
  <1> DEFINE Read(k) == Reading(text, EndOfBlock(text, k), ReadBlocks(text)[k])
             S == {k \in Nat : k <= Len(text) => Read(k)}
  <1>1. Read(0)
    <2>1. PICK s : s = NothingRead
      OBVIOUS
    <2>2. /\ DOMAIN s = {"chunks", "buffer", "read"}
          /\ s.chunks = <<>> /\ s.buffer = <<>> /\ s.read = 0
      BY <2>1 DEF NothingRead
    <2>3. Held(s) = 0 /\ Chain(text, <<>>)
      BY <2>2 DEF Held, Chain
    <2>4. Reading(text, 0, s)
      BY <2>2, <2>3 DEF Reading, Covers
    <2> QED BY <2>1, <2>4, ReadBlocksStep, BlockEndsStep
  <1>2. ASSUME NEW n \in Nat, n \in S PROVE n + 1 \in S
    <2> SUFFICES ASSUME n + 1 <= Len(text) PROVE Read(n + 1)
      OBVIOUS
    <2>1. PICK k \in 1 .. Len(text) : k = n + 1
      OBVIOUS
    <2>2. PICK s : s = ReadBlocks(text)[k - 1]
      OBVIOUS
    <2>3. k - 1 = n /\ Reading(text, EndOfBlock(text, k - 1), s)
      BY <1>2, <2>1, <2>2
    <2>4. ReadBlocks(text)[k] = AddBlock(s, text[k])
      BY <2>2, ReadBlocksStep
    <2>5. CASE text[k] = 0
      <3>1. EndOfBlock(text, k) = EndOfBlock(text, k - 1)
        <4>1. EndOfBlock(text, k - 1) \in Nat
          BY BlockEndsGrow
        <4> QED BY <2>5, <4>1, BlockEndsStep
      <3> QED BY <2>1, <2>3, <2>4, <2>5, <3>1 DEF AddBlock
    <2>6. CASE text[k] # 0
      <3>1. ReadBlocks(text)[k] = AddParagraph(s, text[k])
        BY <2>4, <2>6 DEF AddBlock
      <3>2. Reading(text, EndOfBlock(text, k), AddParagraph(s, text[k]))
        BY <2>3, <2>6, LongParagraph, ShortParagraph
      <3> QED BY <2>1, <3>1, <3>2
    <2> QED BY <2>5, <2>6
  <1>3. 0 \in S
    BY <1>1
  <1>4. Nat \subseteq S
    <2> HIDE DEF S
    <2> QED BY <1>2, <1>3, EveryNatural
  <1>5. ASSUME NEW k \in 0 .. Len(text) PROVE Read(k)
    BY <1>4
  <1> QED BY <1>5

(***************************************************************************)
(* The trailing fragment                                                   *)
(***************************************************************************)
\* Chunks of the words up to the given one, the last of which may have been joined
\* with a fragment.
WellMade(text, word, made) ==
    /\ made \in Seq(Seq(Nat))
    /\ \A c \in 1 .. Len(made) :
          /\ Run(made[c])
          /\ Last(made[c]) \in ParagraphEnds(text) \/ InsideOversized(text, Last(made[c]))
          /\ Len(made[c]) < TargetWords + MinWords + (IF c = Len(made) THEN MinWords ELSE 0)
    /\ \A c \in 2 .. Len(made) : Linked(text, made[c - 1], made[c])
    /\ made = <<>> => word = 0
    /\ made # <<>> =>
          /\ made[1][1] = 1
          /\ Last(Last(made)) = word
          /\ Len(Last(made)) >= MinWords \/ Len(made) = 1

LEMMA CoversWellMade ==
    ASSUME NEW text, NEW word, NEW made, Covers(text, word, made),
           made # <<>> => Len(Last(made)) >= MinWords \/ Len(made) = 1
    PROVE  WellMade(text, word, made)
  <1>1. Chain(text, made)
    BY DEF Covers
  <1>2. ASSUME NEW c \in 1 .. Len(made)
        PROVE  /\ Run(made[c])
               /\ Last(made[c]) \in ParagraphEnds(text) \/ InsideOversized(text, Last(made[c]))
               /\ Len(made[c]) < TargetWords + MinWords + (IF c = Len(made) THEN MinWords ELSE 0)
    <2>1. Piece(text, made[c])
      BY <1>1 DEF Chain
    <2>2. Run(made[c]) /\ Len(made[c]) < TargetWords + MinWords
      BY <2>1 DEF Piece
    <2>3. Len(made[c]) \in Nat
      BY <2>2, RunFacts
    <2> QED BY <2>1, <2>2, <2>3, Sizes DEF Piece
  <1> QED BY <1>1, <1>2 DEF WellMade, Covers, Chain

\* The last two chunks are joined when the last one is short: it was the buffer.
LEMMA MergeWellMade ==
    ASSUME NEW text, NEW word, NEW s, Reading(text, word, s), NEW f, Flushed(text, word, s, f),
           NEW made, made = f.chunks, Len(made) >= 2, Len(Last(made)) < MinWords
    PROVE  WellMade(text, word, MergeTrailing(made))
  <1> DEFINE n == Len(made) - 1
             a == made[n]
             b == made[n + 1]
             front == SubSeq(made, 1, n)
             rest == SubSeq(front, 1, n - 1)
             merged == MergeTrailing(made)
  <1>1. /\ made \in Seq(Seq(Nat)) /\ Chain(text, made) /\ Covers(text, word, made)
        /\ made # <<>> /\ made[1][1] = 1 /\ Last(Last(made)) = word
    BY EmptySeq DEF Flushed, Covers, Chain
  <1>2. n \in Nat /\ n >= 1 /\ Len(made) = n + 1 /\ Last(made) = b
    BY <1>1 DEF Last
  <1> HIDE DEF n
  <1>3. /\ n \in 1 .. n + 1 /\ n + 1 \in 1 .. n + 1 /\ n + 1 \in 2 .. n + 1 /\ n + 1 - 1 = n
    BY <1>2
  <1>4. Piece(text, a) /\ Piece(text, b) /\ Linked(text, a, b)
    BY <1>1, <1>2, <1>3 DEF Chain
  <1>5. Run(a) /\ Run(b) /\ Last(b) = word /\ Len(b) < MinWords
    BY <1>1, <1>2, <1>4 DEF Piece
  <1>6. s.buffer # <<>> /\ b = s.buffer
    <2>1. Len(b) \in Nat
      BY <1>5, RunFacts
    <2>2. s.buffer # <<>>
      <3> SUFFICES ASSUME s.buffer = <<>> PROVE FALSE
        OBVIOUS
      <3>1. made = s.chunks
        BY DEF Flushed
      <3>2. Len(b) >= MinWords
        BY <1>1, <1>2, <3>1 DEF Reading
      <3> QED BY <1>5, <2>1, <3>2, Sizes
    <2> QED BY <1>2, <2>2 DEF Flushed
  <1>7. /\ front \in Seq(Seq(Nat)) /\ Len(front) = n
        /\ \A c \in 1 .. n : front[c] = made[c]
    <2>1. \A c \in 1 .. n : made[c] \in Seq(Nat)
      BY <1>1, <1>2
    <2>2. 1 \in Int /\ n \in Int /\ 1 <= n /\ n - 1 + 1 = n /\ \A c \in 1 .. n : 1 + c - 1 = c
      BY <1>2
    <2> QED BY <2>1, <2>2, SubSeqProperties
  <1>8. /\ rest \in Seq(Seq(Nat)) /\ Len(rest) = n - 1
        /\ \A c \in 1 .. n - 1 : rest[c] = made[c]
    <2>1. \A c \in 1 .. n - 1 : front[c] = made[c] /\ front[c] \in Seq(Nat)
      BY <1>2, <1>7
    <2>2. /\ 1 \in Int /\ n - 1 \in Int /\ n - 1 - 1 + 1 = n - 1
          /\ \A c \in 1 .. n - 1 : 1 + c - 1 = c
      BY <1>2
    <2> HIDE DEF front
    <2>3. /\ rest \in Seq(Seq(Nat))
          /\ Len(rest) = IF 1 <= n - 1 THEN n - 1 - 1 + 1 ELSE 0
          /\ \A c \in 1 .. n - 1 - 1 + 1 : rest[c] = front[1 + c - 1]
      BY <2>1, <2>2, SubSeqProperties
    <2> QED BY <1>2, <2>1, <2>2, <2>3
  <1>9. merged = Append(rest, a \o b)
    <2>1. Front(made) = front /\ Last(made) = b
      BY <1>2 DEF Front, n
    <2>2. Front(front) = rest /\ Last(front) = a
      <3> HIDE DEF front
      <3> QED BY <1>2, <1>7 DEF Front, Last
    <2> HIDE DEF front, rest
    <2> QED BY <1>2, <2>1, <2>2 DEF MergeTrailing
  <1>10. b[1] = Last(a) + 1 /\ Len(a) >= MinWords
    <2>1. PICK cs : cs = s.chunks
      OBVIOUS
    <2>2. /\ cs \in Seq(Seq(Nat)) /\ made = cs \o <<b>> /\ Held(s) = b[1] - 1
          /\ cs # <<>> => Last(Last(cs)) = Held(s) /\ Len(Last(cs)) >= MinWords
      BY <1>6, <2>1 DEF Reading, Flushed, Covers, Chain, Held
    <2>3. PICK last : last = b
      OBVIOUS
    <2>4. last \in Seq(Nat) /\ made = cs \o <<last>>
      BY <1>5, <2>2, <2>3 DEF Run
    <2> HIDE DEF b
    <2>5. made = Append(cs, last)
      BY <2>2, <2>4, AppendIsConcat
    <2>6. Len(made) = Len(cs) + 1 /\ \A i \in 1 .. Len(cs) : made[i] = cs[i]
      BY <2>2, <2>4, <2>5, AppendProperties
    <2>7. Len(cs) = n /\ cs # <<>>
      <3>1. Len(cs) \in Nat
        BY <2>2
      <3> QED BY <1>2, <2>6, <3>1
    <2>8. Last(cs) = a
      BY <1>2, <1>3, <2>6, <2>7 DEF Last
    <2>9. b[1] \in Nat
      BY <1>5, RunFacts
    <2> QED BY <2>2, <2>7, <2>8, <2>9
  <1>11. PICK ab : ab = a \o b
    OBVIOUS
  <1>12. /\ Run(ab) /\ ab[1] = a[1] /\ Last(ab) = word /\ Len(ab) = Len(a) + Len(b)
    BY <1>5, <1>10, <1>11, RunsJoin
  <1>13. /\ merged \in Seq(Seq(Nat)) /\ Len(merged) = n /\ merged # <<>>
         /\ \A c \in 1 .. n - 1 : merged[c] = made[c]
         /\ merged[n] = ab
    <2>1. ab \in Seq(Nat)
      BY <1>12 DEF Run
    <2>2. PICK r : r = rest
      OBVIOUS
    <2> HIDE DEF rest
    <2>3. r \in Seq(Seq(Nat))
      BY <1>8, <2>2
    <2>4. Append(r, ab) \in Seq(Seq(Nat)) /\ Append(r, ab) # <<>>
      BY <2>1, <2>3, AppendProperties
    <2>5. Len(Append(r, ab)) = Len(r) + 1 /\ Append(r, ab)[Len(r) + 1] = ab
      BY <2>1, <2>3, AppendProperties
    <2>6. \A i \in 1 .. Len(r) : Append(r, ab)[i] = r[i]
      BY <2>1, <2>3, AppendProperties
    <2>7. n - 1 + 1 = n
      BY <1>2
    <2> QED BY <1>8, <1>9, <1>11, <2>2, <2>4, <2>5, <2>6, <2>7
  <1> HIDE DEF a, b, merged
  <1>14. /\ Len(a) \in Nat /\ Len(b) \in Nat /\ Len(a) < TargetWords + MinWords
         /\ Len(ab) >= MinWords /\ Len(ab) < TargetWords + MinWords + MinWords
    <2>1. Len(a) \in Nat /\ Len(b) \in Nat
      BY <1>5, RunFacts
    <2>2. Len(a) < TargetWords + MinWords
      BY <1>4 DEF Piece
    <2> QED BY <1>5, <1>10, <1>12, <2>1, <2>2, Sizes
  <1>15. ASSUME NEW c \in 1 .. n
         PROVE  /\ Run(merged[c]) /\ merged[c][1] = made[c][1]
                /\ \/ Last(merged[c]) \in ParagraphEnds(text)
                   \/ InsideOversized(text, Last(merged[c]))
                /\ Len(merged[c]) < TargetWords + MinWords + (IF c = n THEN MinWords ELSE 0)
    <2>1. CASE c = n
      <3>1. merged[c] = ab /\ made[c] = a
        BY <1>13, <2>1 DEF a
      <3>2. word \in ParagraphEnds(text)
        BY <1>1 DEF Covers
      <3> QED BY <1>12, <1>14, <2>1, <3>1, <3>2
    <2>2. CASE c # n
      <3>1. c \in 1 .. n - 1 /\ c \in 1 .. n + 1
        BY <1>2, <2>2
      <3>2. merged[c] = made[c] /\ Piece(text, made[c])
        BY <1>1, <1>2, <1>13, <3>1 DEF Chain
      <3>3. Run(made[c]) /\ Len(made[c]) < TargetWords + MinWords + 0
        <4>1. Run(made[c]) /\ Len(made[c]) < TargetWords + MinWords
          BY <3>2 DEF Piece
        <4> QED BY <4>1, RunFacts, Sizes
      <3> QED BY <2>2, <3>2, <3>3 DEF Piece
    <2> QED BY <2>1, <2>2
  <1>16. ASSUME NEW c \in 2 .. n PROVE Linked(text, merged[c - 1], merged[c])
    <2>1. c \in 1 .. n /\ c - 1 \in 1 .. n - 1 /\ c \in 2 .. n + 1
      BY <1>2
    <2>2. merged[c - 1] = made[c - 1] /\ merged[c][1] = made[c][1]
      BY <1>13, <1>15, <2>1
    <2>3. Linked(text, made[c - 1], made[c])
      BY <1>1, <1>2, <2>1 DEF Chain
    <2> QED BY <2>2, <2>3 DEF Linked
  <1>17. Last(merged) = ab /\ merged[1][1] = 1
    <2>1. 1 \in 1 .. n
      BY <1>2
    <2> QED BY <1>1, <1>13, <1>15, <2>1 DEF Last
  <1>18. WellMade(text, word, merged)
    BY <1>12, <1>13, <1>14, <1>15, <1>16, <1>17 DEF WellMade
  <1> QED BY <1>18 DEF merged

LEMMA ChunksWellMade ==
    ASSUME NEW text \in Seq(Nat)
    PROVE  WellMade(text, EndOfBlock(text, Len(text)), ChunkText(text))
  <1>1. PICK s, word : s = ReadBlocks(text)[Len(text)] /\ word = EndOfBlock(text, Len(text))
    OBVIOUS
  <1>2. PICK f, made : f = Flush(s) /\ made = f.chunks
    OBVIOUS
  <1>3. Reading(text, word, s)
    <2>1. Len(text) \in 0 .. Len(text)
      OBVIOUS
    <2> QED BY <1>1, <2>1, BlocksRead
  <1>4. Flushed(text, word, s, f)
    BY <1>2, <1>3, FlushCovers
  <1>5. ChunkText(text) = MergeTrailing(made)
    BY <1>1, <1>2 DEF ChunkText
  <1>6. WellMade(text, word, MergeTrailing(made))
    <2>1. CASE Len(made) >= 2 /\ Len(Last(made)) < MinWords
      BY <1>2, <1>3, <1>4, <2>1, MergeWellMade
    <2>2. CASE ~ (Len(made) >= 2 /\ Len(Last(made)) < MinWords)
      <3>1. MergeTrailing(made) = made
        BY <2>2 DEF MergeTrailing
      <3>2. Covers(text, word, made) /\ made \in Seq(Seq(Nat))
        BY <1>2, <1>4 DEF Flushed, Covers, Chain
      <3>3. ASSUME made # <<>> PROVE Len(Last(made)) >= MinWords \/ Len(made) = 1
        <4>1. Len(made) \in Nat /\ Len(made) >= 1
          BY <3>2, <3>3, EmptySeq
        <4>2. Last(made) \in Seq(Nat)
          BY <3>2, <4>1 DEF Last
        <4>3. Len(Last(made)) \in Nat
          BY <4>2
        <4>4. PICK n, size : n = Len(made) /\ size = Len(Last(made))
          OBVIOUS
        <4>5. n \in Nat /\ n >= 1 /\ size \in Nat /\ ~ (n >= 2 /\ size < MinWords)
          BY <2>2, <4>1, <4>3, <4>4
        <4>6. size >= MinWords \/ n = 1
          BY <4>5, Sizes
        <4> QED BY <4>4, <4>6
      <3> QED BY <3>1, <3>2, <3>3, CoversWellMade
    <2> QED BY <2>1, <2>2
  <1> QED BY <1>1, <1>5, <1>6

(***************************************************************************)
(* What the chunks of a text are                                           *)
(***************************************************************************)
\* The first and the last word of a chunk, and the ones between them.
LEMMA ChunkEnds ==
    ASSUME NEW text, NEW word, NEW made, WellMade(text, word, made), NEW c \in 1 .. Len(made)
    PROVE  /\ Len(made) \in Nat
           /\ Len(made[c]) \in Nat /\ Len(made[c]) >= 1
           /\ made[c][1] \in Nat /\ made[c][1] >= 1
           /\ Last(made[c]) = made[c][1] + Len(made[c]) - 1 /\ Last(made[c]) \in Nat
  <1>1. Run(made[c]) /\ made \in Seq(Seq(Nat))
    BY DEF WellMade
  <1>2. Len(made) \in Nat
    BY <1>1
  <1> QED BY <1>1, <1>2, RunFacts

LEMMA ChunkWords ==
    ASSUME NEW text, NEW word, NEW made, WellMade(text, word, made), NEW c \in 1 .. Len(made)
    PROVE  /\ \A i \in 1 .. Len(made[c]) : made[c][i] = made[c][1] + i - 1
           /\ ToSet(made[c]) = made[c][1] .. Last(made[c])
  <1>1. PICK first, last, size :
            first = made[c][1] /\ last = Last(made[c]) /\ size = Len(made[c])
    OBVIOUS
  <1>2. /\ made[c] \in Seq(Nat)
        /\ \A i \in 1 .. size : made[c][i] = first + i - 1
    BY <1>1 DEF WellMade, Run
  <1>3. /\ first \in Nat /\ last \in Nat /\ size \in Nat /\ last = first + size - 1
    BY <1>1, ChunkEnds
  <1>4. ToSet(made[c]) = {made[c][i] : i \in 1 .. size}
    <2>1. DOMAIN made[c] = 1 .. size
      BY <1>1, <1>2, LenProperties
    <2> QED BY <2>1 DEF ToSet
  <1>5. \A i \in 1 .. size : first + i - 1 \in first .. last
    BY <1>3
  <1>6. \A w \in first .. last : \E i \in 1 .. size : w = first + i - 1
    <2> SUFFICES ASSUME NEW w \in first .. last PROVE \E i \in 1 .. size : w = first + i - 1
      OBVIOUS
    <2>1. w - first + 1 \in 1 .. size /\ w = first + (w - first + 1) - 1
      BY <1>3
    <2> QED BY <2>1
  <1>7. ToSet(made[c]) = first .. last
    BY <1>2, <1>4, <1>5, <1>6
  <1> QED BY <1>1, <1>2, <1>7

LEMMA WellMadeInOrder ==
    ASSUME NEW text \in Seq(Nat), NEW made,
           WellMade(text, EndOfBlock(text, Len(text)), made)
    PROVE  EveryWordInOrder(text, made)
  <1>1. PICK word : word = EndOfBlock(text, Len(text))
    OBVIOUS
  <1>2. WellMade(text, word, made)
    BY <1>1
  <1>3. ASSUME NEW c \in 1 .. Len(made), NEW i \in 2 .. Len(made[c])
        PROVE  made[c][i] = made[c][i - 1] + 1
    <2>1. i \in 1 .. Len(made[c]) /\ i - 1 \in 1 .. Len(made[c]) /\ made[c][1] \in Nat
      BY <1>2, ChunkEnds
    <2>2. made[c][i] = made[c][1] + i - 1 /\ made[c][i - 1] = made[c][1] + (i - 1) - 1
      BY <1>2, <2>1, ChunkWords
    <2> QED BY <2>1, <2>2
  <1>4. ASSUME made # <<>>
        PROVE  made[1][1] = 1 /\ Last(Last(made)) = word /\ word # 0
    <2>1. /\ made \in Seq(Seq(Nat)) /\ made[1][1] = 1 /\ Last(Last(made)) = word
      BY <1>2, <1>4 DEF WellMade
    <2>2. Len(made) \in Nat /\ Len(made) >= 1
      BY <1>4, <2>1, EmptySeq
    <2>3. PICK c \in 1 .. Len(made) : Last(made) = made[c]
      BY <2>2 DEF Last
    <2>4. Last(Last(made)) >= 1
      <3>1. /\ Len(made[c]) \in Nat /\ Len(made[c]) >= 1
            /\ made[c][1] \in Nat /\ made[c][1] >= 1
            /\ Last(made[c]) = made[c][1] + Len(made[c]) - 1
        BY <1>2, ChunkEnds
      <3> QED BY <2>3, <3>1
    <2> QED BY <2>1, <2>4
  <1>5. made = <<>> => word = 0
    BY <1>2 DEF WellMade
  <1>6. ASSUME NEW c \in 2 .. Len(made)
        PROVE  made[c][1] = Last(made[c - 1]) + 1
                  - (IF Last(made[c - 1]) \in ParagraphEnds(text) THEN 0 ELSE OverlapWords)
    BY <1>2 DEF WellMade, Linked
  <1> QED BY <1>1, <1>3, <1>4, <1>5, <1>6 DEF EveryWordInOrder

LEMMA WellMadeCut ==
    ASSUME NEW text, NEW word, NEW made, WellMade(text, word, made)
    PROVE  CutAtParagraphs(text, made)
  BY DEF WellMade, CutAtParagraphs

LEMMA WellMadeSized ==
    ASSUME NEW text, NEW word, NEW made, WellMade(text, word, made)
    PROVE  Sized(text, made)
  <1> SUFFICES ASSUME NEW c \in 1 .. Len(made), Len(made[c]) < MinWords, Len(made) > 1
               PROVE  c < Len(made) /\ InsideOversized(text, made[c + 1][1])
    BY DEF Sized, WellMade
  <1>1. /\ Len(made) \in Nat /\ Len(made[c]) \in Nat
    BY ChunkEnds
  <1>2. c # Len(made)
    <2> SUFFICES ASSUME c = Len(made) PROVE FALSE
      OBVIOUS
    <2>1. made # <<>> /\ Last(made) = made[c]
      BY <1>1 DEF Last
    <2>2. Len(made[c]) >= MinWords \/ Len(made) = 1
      BY <2>1 DEF WellMade
    <2> QED BY <1>1, <2>2, Sizes
  <1>3. PICK k \in 2 .. Len(made) : k = c + 1 /\ k - 1 = c
    BY <1>1, <1>2
  <1>4. Linked(text, made[c], made[c + 1])
    <2>1. Linked(text, made[k - 1], made[k])
      BY DEF WellMade
    <2> QED BY <1>3, <2>1
  <1> QED BY <1>1, <1>2, <1>4 DEF Linked

\* Whatever the lengths of its paragraphs, the chunks of a text lose or move no
\* word, are cut where they may be, and keep to the sizes.
THEOREM EveryTextWellChunked == TextsWellChunked
  <1> SUFFICES ASSUME NEW text \in Text
               PROVE  /\ EveryWordInOrder(text, ChunkText(text))
                      /\ CutAtParagraphs(text, ChunkText(text))
                      /\ Sized(text, ChunkText(text))
    BY DEF TextsWellChunked
  <1>1. text \in Seq(Nat)
    BY ChunkingAssumption
  <1>2. WellMade(text, EndOfBlock(text, Len(text)), ChunkText(text))
    BY <1>1, ChunksWellMade
  <1> QED BY <1>1, <1>2, WellMadeInOrder, WellMadeCut, WellMadeSized

WordsOf(made) == UNION {ToSet(made[c]) : c \in 1 .. Len(made)}

\* Every word of the text is in one of its chunks, and they hold no other.
LEMMA ChunksHoldText ==
    ASSUME NEW text \in Seq(Nat), NEW made, made = ChunkText(text)
    PROVE  /\ made \in Seq(Seq(Nat))
           /\ WordsOf(made) = 1 .. EndOfBlock(text, Len(text))
  <1>1. PICK word : word = EndOfBlock(text, Len(text))
    OBVIOUS
  <1>2. /\ WellMade(text, word, made) /\ made \in Seq(Seq(Nat)) /\ Len(made) \in Nat
    <2>1. WellMade(text, word, made)
      BY <1>1, ChunksWellMade
    <2>2. made \in Seq(Seq(Nat))
      BY <2>1 DEF WellMade
    <2> QED BY <2>1, <2>2
  <1>3. word \in Nat
    <2>1. Len(text) \in 0 .. Len(text)
      OBVIOUS
    <2> QED BY <1>1, <2>1, BlockEndsGrow
  <1>4. ASSUME NEW c \in 1 .. Len(made)
        PROVE  /\ ToSet(made[c]) = made[c][1] .. Last(made[c])
               /\ made[c][1] \in Nat /\ made[c][1] >= 1 /\ Last(made[c]) \in Nat
    BY <1>2, ChunkEnds, ChunkWords
  <1>5. ASSUME NEW c \in 1 .. Len(made)
        PROVE  Last(made[c]) <= word
    <2>1. \A k \in 1 .. Len(text) : EndOfBlock(text, k) <= word /\ EndOfBlock(text, k) \in Nat
      <3>1. Len(text) \in 0 .. Len(text) /\ \A k \in 1 .. Len(text) : k \in 0 .. Len(text)
        OBVIOUS
      <3> QED BY <1>1, <3>1, BlockEndsGrow
    <2>2. Last(made[c]) \in Nat
      BY <1>2, ChunkEnds
    <2>3. CASE Last(made[c]) \in ParagraphEnds(text)
      BY <2>1, <2>3 DEF ParagraphEnds
    <2>4. CASE InsideOversized(text, Last(made[c]))
      <3>1. PICK k \in 1 .. Len(text) : Last(made[c]) < EndOfBlock(text, k)
        BY <2>4 DEF InsideOversized
      <3> QED BY <1>3, <2>1, <2>2, <3>1
    <2> QED BY <1>2, <2>3, <2>4 DEF WellMade
  <1>6. ASSUME NEW c \in 1 .. Len(made), NEW w \in ToSet(made[c])
        PROVE  w \in 1 .. word
    <2>1. PICK first, last : first = made[c][1] /\ last = Last(made[c])
      OBVIOUS
    <2>2. w \in first .. last /\ first \in Nat /\ first >= 1 /\ last \in Nat /\ last <= word
      BY <1>4, <1>5, <2>1
    <2> QED BY <1>3, <2>2
  <1>7. ASSUME NEW w \in 1 .. word
        PROVE  \E c \in 1 .. Len(made) : w \in ToSet(made[c])
    <2> DEFINE T == {c \in 1 .. Len(made) : w <= Last(made[c])}
    <2>1. made # <<>>
      BY <1>2, <1>3 DEF WellMade
    <2>2. Len(made) >= 1 /\ Len(made) \in 1 .. Len(made) /\ 1 \in 1 .. Len(made)
      BY <1>2, <2>1, EmptySeq
    <2>3. made[1][1] = 1 /\ Last(made[Len(made)]) = word
      BY <1>2, <2>1 DEF WellMade, Last
    <2>4. Len(made) \in T /\ T \in SUBSET Nat
      BY <1>3, <2>2, <2>3
    <2>5. PICK c \in T : \A k \in T : c <= k
      <3> HIDE DEF T
      <3> QED BY <2>4, LeastNatural
    <2>6. c \in 1 .. Len(made) /\ w <= Last(made[c])
      OBVIOUS
    <2>7. made[c][1] <= w
      <3>1. CASE c = 1
        BY <2>3, <3>1
      <3>2. CASE c # 1
        <4>1. c - 1 \in 1 .. Len(made) /\ c - 1 \notin T /\ c \in 2 .. Len(made)
          <5> HIDE DEF T
          <5>1. c \in 2 .. Len(made) /\ c - 1 \in 1 .. Len(made) /\ ~ (c <= c - 1)
            BY <1>2, <2>6, <3>2
          <5> QED BY <2>5, <5>1
        <4>2. PICK before, first : before = Last(made[c - 1]) /\ first = made[c][1]
          OBVIOUS
        <4>3. before \in Nat /\ first \in Nat
          BY <1>4, <2>6, <4>1, <4>2
        <4>4. ~ (w <= before)
          BY <4>1, <4>2
        <4>5. Linked(text, made[c - 1], made[c])
          BY <1>2, <4>1 DEF WellMade
        <4>6. first = before + 1 - 0 \/ first = before + 1 - OverlapWords
          BY <4>2, <4>5 DEF Linked
        <4>7. first <= w
          BY <1>3, <4>3, <4>4, <4>6, Sizes
        <4> QED BY <4>2, <4>7
      <3> QED BY <3>1, <3>2
    <2>8. w \in ToSet(made[c])
      <3>1. PICK first, last : first = made[c][1] /\ last = Last(made[c])
        OBVIOUS
      <3>2. first \in Nat /\ last \in Nat /\ first <= w /\ w <= last
        BY <1>4, <2>6, <2>7, <3>1
      <3>3. w \in first .. last
        BY <1>3, <3>2
      <3> QED BY <1>4, <2>6, <3>1, <3>3
    <2> QED BY <2>6, <2>8
  <1>8. WordsOf(made) = 1 .. word
    BY <1>6, <1>7 DEF WordsOf
  <1> QED BY <1>1, <1>2, <1>8

(***************************************************************************)
(* The requests                                                            *)
(***************************************************************************)
Uploading(p) == requests[p].step \in {"selected", "stored"}

Embedding(p) == requests[p].step = "listed"

LEMMA RequestKinds ==
    ASSUME TypeOK, NEW p \in Worker
    PROVE  /\ Uploading(p) => requests[p] \in UploadRequest
           /\ Embedding(p) => requests[p] \in EmbedRequest
           /\ requests[p] = Idle => ~ Uploading(p) /\ ~ Embedding(p)
  BY DEF TypeOK, Idle, UploadRequest, EmbedRequest, Uploading, Embedding

(***************************************************************************)
(* The inductive invariant                                                 *)
(***************************************************************************)
ChunksIn(d) == {c \in chunks : c[1] = d}

\* The indexes of the chunks of what a content parses to as a type.
Indexes(m, c) == 0 .. (Len(ChunkText(Parsed[<<m, c>>])) - 1)

\* An upload has a document of its own that is not there yet, and its file once it
\* is stored; the chunks listed for an embedding are all those of a document.
RequestFits(p) ==
    LET q == requests[p]
    IN  /\ Uploading(p) => documents[q.document] = None
        /\ q.step = "stored" => q.document \in files
        /\ Embedding(p) =>
              \E d \in Document : documents[d] # None /\ q.listed = ChunksIn(d)

UploadsApart ==
    \A p, o \in Worker :
        p # o /\ Uploading(p) /\ Uploading(o) => requests[p].document # requests[o].document

DocumentWhole(d) ==
    documents[d] # None =>
        /\ d \in files
        /\ Parsed[<<documents[d].mime_type, documents[d].content>>] # None
        /\ ChunksIn(d) = {d} \X Indexes(documents[d].mime_type, documents[d].content)

OneDocument(d, other) ==
    /\ documents[d] # None /\ documents[other] # None
    /\ documents[d].engagement = documents[other].engagement
    /\ documents[d].content = documents[other].content
    => d = other

EmbeddedWhole(d) ==
    (\A c \in ChunksIn(d) : Embedded(c)) \/ (\A c \in ChunksIn(d) : ~ Embedded(c))

IngestInv ==
    /\ TypeOK
    /\ \A p \in Worker : RequestFits(p)
    /\ UploadsApart
    /\ \A d, other \in Document : OneDocument(d, other)
    /\ \A a \in answers : Holds(a.document, a.engagement, a.content)
    /\ \A d \in Document : DocumentWhole(d) /\ EmbeddedWhole(d)
    /\ \A c \in chunks : documents[c[1]] # None
    /\ \A row \in embeddings : row[1] \in chunks
    /\ \A row, other \in embeddings : row[1] = other[1] => row = other
    /\ IsFiniteSet(embeddings)
    /\ embedded = Cardinality(embeddings)

LEMMA InvOneDocument == IngestInv => OneDocumentPerContent
  BY DEF IngestInv, OneDocument, OneDocumentPerContent

LEMMA InvWhole == IngestInv => DocumentsWhole
  BY DEF IngestInv, DocumentWhole, ChunksIn, Indexes, DocumentsWhole

\* The stored chunks are all those of a text, and those hold every word of it.
LEMMA InvText == IngestInv => StoredTextWhole
  <1> SUFFICES ASSUME IngestInv, NEW d \in Document, documents[d] # None
               PROVE  LET text == Parsed[<<documents[d].mime_type, documents[d].content>>]
                      IN  UNION {ToSet(ChunkText(text)[c[2] + 1]) :
                                    c \in {x \in chunks : x[1] = d}}
                             = 1 .. EndOfBlock(text, Len(text))
    BY EveryTextWellChunked DEF StoredTextWhole
  <1>1. PICK m \in MimeType, content \in Content :
            m = documents[d].mime_type /\ content = documents[d].content
    BY DEF IngestInv, TypeOK, DocumentRow
  <1>2. PICK text, made : text = Parsed[<<m, content>>] /\ made = ChunkText(text)
    OBVIOUS
  <1>3. text # None /\ ChunksIn(d) = {d} \X (0 .. (Len(made) - 1))
    BY <1>1, <1>2 DEF IngestInv, DocumentWhole, Indexes
  <1>4. text \in Seq(Nat)
    BY <1>2, <1>3, ParsedAssumption, ChunkingAssumption
  <1>5. /\ made \in Seq(Seq(Nat)) /\ Len(made) \in Nat
        /\ WordsOf(made) = 1 .. EndOfBlock(text, Len(text))
    <2>1. made = ChunkText(text)
      BY <1>2
    <2>2. made \in Seq(Seq(Nat))
      BY <1>4, <2>1, ChunksHoldText
    <2>3. WordsOf(made) = 1 .. EndOfBlock(text, Len(text))
      BY <1>4, <2>1, ChunksHoldText
    <2>4. Len(made) \in Nat
      BY <2>2
    <2> QED BY <2>2, <2>3, <2>4
  <1>6. {ToSet(made[c[2] + 1]) : c \in {d} \X (0 .. (Len(made) - 1))}
           = {ToSet(made[c]) : c \in 1 .. Len(made)}
    <2>1. ASSUME NEW c \in {d} \X (0 .. (Len(made) - 1)) PROVE c[2] + 1 \in 1 .. Len(made)
      BY <1>5
    <2>2. ASSUME NEW c \in 1 .. Len(made)
          PROVE  \E x \in {d} \X (0 .. (Len(made) - 1)) : x[2] + 1 = c
      <3>1. <<d, c - 1>> \in {d} \X (0 .. (Len(made) - 1)) /\ <<d, c - 1>>[2] + 1 = c
        BY <1>5
      <3> QED BY <3>1
    <2> QED BY <2>1, <2>2
  <1>7. {x \in chunks : x[1] = d} = {d} \X (0 .. (Len(made) - 1))
    BY <1>3 DEF ChunksIn
  <1>8. UNION {ToSet(made[c[2] + 1]) : c \in {x \in chunks : x[1] = d}}
           = 1 .. EndOfBlock(text, Len(text))
    BY <1>5, <1>6, <1>7 DEF WordsOf
  <1> QED BY <1>1, <1>2, <1>8

LEMMA InvEmbedded == IngestInv => EmbeddedOnce
  <1> SUFFICES ASSUME IngestInv PROVE EmbeddedOnce
    OBVIOUS
  <1>1. ASSUME NEW d \in Document
        PROVE  {c \in ChunksIn(d) : Embedded(c)} \in {{}, ChunksIn(d)}
    <2>1. EmbeddedWhole(d)
      BY DEF IngestInv
    <2> QED BY <2>1 DEF EmbeddedWhole
  <1> QED BY <1>1 DEF IngestInv, EmbeddedOnce, ChunksIn

LEMMA InitIngestInv == Init => IngestInv
  <1> SUFFICES ASSUME Init PROVE IngestInv
    OBVIOUS
  <1>1. TypeOK
    BY DEF Init, TypeOK
  <1>2. \A p \in Worker : RequestFits(p) /\ ~ Uploading(p)
    BY DEF Init, RequestFits, Uploading, Embedding, Idle
  <1>3. IsFiniteSet(embeddings) /\ embedded = Cardinality(embeddings)
    BY FS_EmptySet DEF Init
  <1>4. \A d \in Document : DocumentWhole(d) /\ EmbeddedWhole(d) /\ documents[d] = None
    BY DEF Init, DocumentWhole, EmbeddedWhole, ChunksIn
  <1> QED BY <1>1, <1>2, <1>3, <1>4 DEF Init, IngestInv, UploadsApart, OneDocument

(***************************************************************************)
(* What the steps do                                                       *)
(***************************************************************************)
\* The others' requests are left alone.
Others(p) == \A o \in Worker : o # p => requests'[o] = requests[o]

LEMMA EndsRequest ==
    ASSUME TypeOK, NEW p \in Worker, Done(p)
    PROVE  /\ requests'[p] = Idle /\ Others(p) /\ RequestFits(p)' /\ ~ Uploading(p)'
           /\ requests' \in [Worker -> {Idle} \cup UploadRequest \cup EmbedRequest]
  BY DEF TypeOK, Done, Others, RequestFits, Uploading, Embedding, Idle

\* The requests of the others still fit when the step stores at most a file more, a
\* document no other upload has, and its chunks.
LEMMA OthersFit ==
    ASSUME IngestInv, NEW p \in Worker, Others(p), files \subseteq files',
           NEW o \in Worker, o # p,
           \A d \in Document : documents[d] # None => documents'[d] # None,
           Uploading(o) => documents'[requests[o].document] = None,
           \A d \in Document : documents[d] # None => ChunksIn(d)' = ChunksIn(d)
    PROVE  RequestFits(o)'
  <1>1. RequestFits(o) /\ requests'[o] = requests[o]
    BY DEF IngestInv, Others
  <1>2. Uploading(o)' = Uploading(o) /\ Embedding(o)' = Embedding(o)
    BY <1>1 DEF Uploading, Embedding
  <1>3. ASSUME Embedding(o)
        PROVE  \E d \in Document : documents'[d] # None /\ requests'[o].listed = ChunksIn(d)'
    <2>1. PICK d \in Document : documents[d] # None /\ requests[o].listed = ChunksIn(d)
      BY <1>1, <1>3 DEF RequestFits
    <2> QED BY <1>1, <2>1
  <1> QED BY <1>1, <1>2, <1>3 DEF RequestFits

\* A step that writes nothing but files and answers.
LEMMA TablesUnchanged ==
    ASSUME IngestInv, UNCHANGED <<documents, chunks, embeddings, embedded>>,
           files \subseteq files', files' \subseteq Document, answers' \subseteq Answer,
           \A a \in answers' : Holds(a.document, a.engagement, a.content),
           NEW p \in Worker, Others(p),
           requests' \in [Worker -> {Idle} \cup UploadRequest \cup EmbedRequest],
           RequestFits(p)',
           Uploading(p)' => \A o \in Worker : o # p /\ Uploading(o) =>
                               requests'[p].document # requests[o].document
    PROVE  IngestInv'
  <1>1. TypeOK'
    BY DEF IngestInv, TypeOK
  <1>2. ASSUME NEW o \in Worker PROVE RequestFits(o)'
    <2>1. CASE o = p
      BY <2>1
    <2>2. CASE o # p
      <3>1. Uploading(o) => documents'[requests[o].document] = None
        BY DEF IngestInv, RequestFits
      <3>2. \A d \in Document : ChunksIn(d)' = ChunksIn(d)
        BY DEF ChunksIn
      <3> QED BY <2>2, <3>1, <3>2, OthersFit
    <2> QED BY <2>1, <2>2
  <1>3. UploadsApart'
    BY DEF IngestInv, UploadsApart, Others, Uploading
  <1>4. \A d \in Document : DocumentWhole(d)' /\ EmbeddedWhole(d)'
    BY DEF IngestInv, DocumentWhole, EmbeddedWhole, ChunksIn, Embedded
  <1>5. /\ \A d, other \in Document : OneDocument(d, other)'
        /\ \A a \in answers' : Holds(a.document, a.engagement, a.content)'
    BY DEF IngestInv, OneDocument, Holds
  <1> QED BY <1>1, <1>2, <1>3, <1>4, <1>5 DEF IngestInv

(***************************************************************************)
(* The steps that write a table keep the invariant                         *)
(***************************************************************************)
\* The document that becomes visible is whole, and the only one of its content.
LEMMA UploadKeeps ==
    ASSUME IngestInv, NEW p \in Worker, CommitUpload(p)
    PROVE  IngestInv'
  <1>1. TypeOK /\ RequestFits(p)
    BY DEF IngestInv
  <1>2. requests[p].step = "stored" /\ Uploading(p) /\ requests[p] \in UploadRequest
    BY <1>1, RequestKinds DEF CommitUpload, Uploading
  <1>3. PICK d \in Document : requests[p].document = d
    BY <1>2 DEF UploadRequest
  <1>4. PICK e \in Engagement : requests[p].engagement = e
    BY <1>2 DEF UploadRequest
  <1>5. PICK c \in Content : requests[p].content = c
    BY <1>2 DEF UploadRequest
  <1>6. PICK m \in MimeType : requests[p].mime_type = m
    BY <1>2 DEF UploadRequest
  <1> DEFINE row == [engagement |-> e, content |-> c, mime_type |-> m, status |-> "parsed"]
             new == {d} \X Indexes(m, c)
             answer == [engagement |-> e, content |-> c, document |-> d]
  <1>7. /\ documents' = [documents EXCEPT ![d] = row] /\ Done(p)
        /\ answers' = answers \cup {answer} /\ UNCHANGED <<files, embeddings, embedded>>
        /\ \A other \in Document : ~ Holds(other, e, c)
    BY <1>3, <1>4, <1>5, <1>6 DEF CommitUpload, ParsedRow, ContentTaken
  <1>8. Parsed[<<m, c>>] # None
    BY <1>5, <1>6 DEF CommitUpload, ParsedFor
  <1>9. chunks' = chunks \cup new
    <2>1. ChunksOf(p) = {<<d, i>> : i \in Indexes(m, c)}
      BY <1>3, <1>5, <1>6 DEF ChunksOf, CountFor, ParsedFor, Indexes
    <2>2. ChunksOf(p) = new
      BY <2>1
    <2> QED BY <2>2 DEF CommitUpload
  <1>10. documents[d] = None /\ d \in files
    BY <1>1, <1>2, <1>3 DEF RequestFits
  <1>11. /\ row \in DocumentRow /\ row # None /\ row.engagement = e /\ row.content = c
         /\ row.mime_type = m
         /\ answer \in Answer /\ answer.engagement = e /\ answer.content = c
         /\ answer.document = d
    BY NoneAssumption DEF DocumentRow, Answer
  <1>12. Indexes(m, c) \subseteq Nat
    BY DEF Indexes
  <1>13. /\ new \subseteq Chunk /\ \A k \in new : k[1] = d
    BY <1>12 DEF Chunk
  <1>14. \A k \in chunks : k[1] # d /\ k[1] \in Document
    BY <1>1, <1>10 DEF IngestInv, TypeOK, Chunk
  <1>15. ChunksIn(d)' = new /\ \A o \in Document : o # d => ChunksIn(o)' = ChunksIn(o)
    BY <1>9, <1>13, <1>14 DEF ChunksIn
  <1> HIDE DEF row, new, answer
  <1>16. documents'[d] = row /\ \A o \in Document : o # d => documents'[o] = documents[o]
    BY <1>1, <1>7 DEF TypeOK
  <1>17. /\ requests'[p] = Idle /\ Others(p) /\ RequestFits(p)' /\ ~ Uploading(p)'
         /\ requests' \in [Worker -> {Idle} \cup UploadRequest \cup EmbedRequest]
    BY <1>1, <1>7, EndsRequest
  <1>18. TypeOK'
    BY <1>1, <1>7, <1>9, <1>11, <1>13, <1>17 DEF TypeOK
  <1>19. ASSUME NEW o \in Worker PROVE RequestFits(o)'
    <2>1. CASE o = p
      BY <1>17, <2>1
    <2>2. CASE o # p
      <3>1. Uploading(o) => /\ requests[o].document \in Document \ {d}
                            /\ documents[requests[o].document] = None
        BY <1>1, <1>2, <1>3, <2>2, RequestKinds
        DEF IngestInv, UploadsApart, RequestFits, UploadRequest
      <3> QED BY <1>7, <1>10, <1>15, <1>16, <1>17, <2>2, <3>1, OthersFit
    <2> QED BY <2>1, <2>2
  <1>20. UploadsApart'
    BY <1>17 DEF IngestInv, UploadsApart, Others, Uploading
  <1>21. ASSUME NEW o \in Document, NEW other \in Document PROVE OneDocument(o, other)'
    BY <1>7, <1>11, <1>16 DEF IngestInv, OneDocument, Holds
  <1>22. ASSUME NEW a \in answers' PROVE Holds(a.document, a.engagement, a.content)'
    <2>1. CASE a = answer
      BY <1>11, <1>16, <2>1 DEF Holds
    <2>2. CASE a \in answers
      <3>1. Holds(a.document, a.engagement, a.content) /\ a.document \in Document
        BY <1>1, <2>2 DEF IngestInv, TypeOK, Answer
      <3> QED BY <1>10, <1>16, <3>1 DEF Holds
    <2> QED BY <1>7, <2>1, <2>2
  <1>23. ASSUME NEW o \in Document PROVE DocumentWhole(o)' /\ EmbeddedWhole(o)'
    <2>1. CASE o = d
      <3>1. DocumentWhole(o)'
        BY <1>7, <1>8, <1>10, <1>11, <1>15, <1>16, <2>1 DEF DocumentWhole, new
      <3>2. \A k \in ChunksIn(d)' : k[1] = d
        BY <1>13, <1>15
      <3>3. ASSUME NEW k \in ChunksIn(d)' PROVE ~ Embedded(k)'
        <4>1. \A r \in embeddings : r[1] # k
          BY <1>14, <3>2, <3>3 DEF IngestInv
        <4> QED BY <1>7, <4>1 DEF Embedded
      <3> QED BY <2>1, <3>1, <3>3 DEF EmbeddedWhole
    <2>2. CASE o # d
      <3>1. DocumentWhole(o) /\ EmbeddedWhole(o)
        BY DEF IngestInv
      <3> QED BY <1>7, <1>15, <1>16, <2>2, <3>1 DEF DocumentWhole, EmbeddedWhole, Embedded
    <2> QED BY <2>1, <2>2
  <1>24. /\ \A k \in chunks' : documents'[k[1]] # None
         /\ \A r \in embeddings' : r[1] \in chunks'
    BY <1>7, <1>9, <1>11, <1>13, <1>14, <1>16 DEF IngestInv
  <1>25. /\ \A r, other \in embeddings' : r[1] = other[1] => r = other
         /\ IsFiniteSet(embeddings') /\ embedded' = Cardinality(embeddings')
    BY <1>7 DEF IngestInv
  <1> QED BY <1>18, <1>19, <1>20, <1>21, <1>22, <1>23, <1>24, <1>25 DEF IngestInv

\* As many rows as chunks.
LEMMA RowsOfChunks ==
    ASSUME NEW S, IsFiniteSet(S), NEW e
    PROVE  LET T == {<<c, e>> : c \in S}
           IN  IsFiniteSet(T) /\ Cardinality(T) = Cardinality(S)
  <1> DEFINE T == {<<c, e>> : c \in S}
             f == [c \in S |-> <<c, e>>]
  <1>1. f \in [S -> T] /\ \A c, k \in S : f[c] = f[k] => c = k
    OBVIOUS
  <1>2. \A t \in T : \E c \in S : f[c] = t
    OBVIOUS
  <1> HIDE DEF f, T
  <1>3. f \in Surjection(S, T) /\ f \in Injection(S, T)
    BY <1>1, <1>2 DEF Surjection, Injection, IsInjective
  <1>4. IsFiniteSet(T) /\ Cardinality(T) = Cardinality(S)
    BY <1>3, FS_Surjection
  <1> QED BY <1>4 DEF T

\* A document has finitely many chunks.
LEMMA ChunksFinite ==
    ASSUME IngestInv, NEW d \in Document, documents[d] # None
    PROVE  IsFiniteSet(ChunksIn(d))
  <1> DEFINE S == Indexes(documents[d].mime_type, documents[d].content)
             f == [i \in S |-> <<d, i>>]
  <1>1. IsFiniteSet(S)
    BY FS_Interval DEF Indexes
  <1>2. ChunksIn(d) = {d} \X S
    BY DEF IngestInv, DocumentWhole
  <1> HIDE DEF S
  <1>3. f \in [S -> {d} \X S] /\ \A t \in {d} \X S : t[2] \in S /\ f[t[2]] = t
    OBVIOUS
  <1> HIDE DEF f
  <1>4. f \in Surjection(S, {d} \X S)
    BY <1>3 DEF Surjection
  <1> QED BY <1>1, <1>2, <1>4, FS_Surjection

\* An embedding takes the document whole, or finds it embedded whole and adds
\* nothing; its count is that of the rows it adds.
LEMMA EmbedKeeps ==
    ASSUME IngestInv, NEW p \in Worker, CommitEmbeddings(p)
    PROVE  IngestInv'
  <1>1. TypeOK /\ RequestFits(p)
    BY DEF IngestInv
  <1>2. Embedding(p) /\ requests[p] \in EmbedRequest
    BY <1>1, RequestKinds DEF CommitEmbeddings, Embedding
  <1>3. PICK d \in Document : documents[d] # None /\ requests[p].listed = ChunksIn(d)
    BY <1>1, <1>2 DEF RequestFits
  <1>4. PICK e \in Engagement : requests[p].engagement = e
    BY <1>2 DEF EmbedRequest
  <1> DEFINE fresh == {c \in ChunksIn(d) : ~ Embedded(c)}
             rows == {<<c, e>> : c \in fresh}
  <1>5. /\ embeddings' = embeddings \cup rows /\ embedded' = embedded + Cardinality(fresh)
        /\ Done(p) /\ UNCHANGED <<documents, chunks, files, answers>>
    BY <1>3, <1>4 DEF CommitEmbeddings, NotEmbedded
  <1>6. IsFiniteSet(fresh)
    BY <1>3, ChunksFinite, FS_Subset
  <1>7. IsFiniteSet(rows) /\ Cardinality(rows) = Cardinality(fresh)
    BY <1>6, RowsOfChunks
  <1>8. /\ \A r \in rows : r \in Chunk \X Engagement /\ r[1] \in fresh /\ r[2] = e
        /\ \A c \in fresh : <<c, e>> \in rows /\ <<c, e>>[1] = c
    BY <1>1 DEF TypeOK, ChunksIn
  <1>9. fresh \subseteq ChunksIn(d) /\ \A c \in fresh : ~ Embedded(c)
    OBVIOUS
  <1>10. fresh = ChunksIn(d) \/ fresh = {}
    BY DEF IngestInv, EmbeddedWhole
  <1> HIDE DEF fresh, rows
  <1>11. rows \cap embeddings = {}
    BY <1>8, <1>9 DEF Embedded
  <1>12. /\ requests'[p] = Idle /\ Others(p) /\ RequestFits(p)' /\ ~ Uploading(p)'
         /\ requests' \in [Worker -> {Idle} \cup UploadRequest \cup EmbedRequest]
    BY <1>1, <1>5, EndsRequest
  <1>13. IsFiniteSet(embeddings') /\ embedded' = Cardinality(embeddings')
    <2>1. /\ IsFiniteSet(embeddings) /\ embedded = Cardinality(embeddings)
      BY DEF IngestInv
    <2>2. /\ IsFiniteSet(embeddings \cup rows)
          /\ Cardinality(embeddings \cup rows) =
                Cardinality(embeddings) + Cardinality(rows) - Cardinality(embeddings \cap rows)
      BY <1>7, <2>1, FS_Union
    <2>3. Cardinality(embeddings \cap rows) = 0
      BY <1>11, FS_EmptySet
    <2>4. Cardinality(embeddings) \in Nat /\ Cardinality(rows) \in Nat
      BY <1>7, <2>1, FS_CardinalityType
    <2> QED BY <1>5, <1>7, <2>1, <2>2, <2>3, <2>4
  <1>14. TypeOK'
    <2>1. Cardinality(fresh) \in Nat
      BY <1>6, FS_CardinalityType
    <2>2. embedded' \in Nat
      BY <1>1, <1>5, <2>1 DEF TypeOK
    <2>3. embeddings' \subseteq Chunk \X Engagement
      BY <1>1, <1>5, <1>8 DEF TypeOK
    <2> QED BY <1>1, <1>5, <1>12, <2>2, <2>3 DEF TypeOK
  <1>15. ASSUME NEW o \in Worker PROVE RequestFits(o)'
    <2>1. CASE o = p
      BY <1>12, <2>1
    <2>2. CASE o # p
      <3>1. Uploading(o) => documents'[requests[o].document] = None
        BY <1>5 DEF IngestInv, RequestFits
      <3>2. \A k \in Document : ChunksIn(k)' = ChunksIn(k)
        BY <1>5 DEF ChunksIn
      <3> QED BY <1>5, <1>12, <2>2, <3>1, <3>2, OthersFit
    <2> QED BY <2>1, <2>2
  <1>16. UploadsApart'
    BY <1>12 DEF IngestInv, UploadsApart, Others, Uploading
  <1>17. ASSUME NEW o \in Document PROVE DocumentWhole(o)' /\ EmbeddedWhole(o)'
    <2>1. ChunksIn(o)' = ChunksIn(o) /\ DocumentWhole(o) /\ EmbeddedWhole(o)
      BY <1>5 DEF ChunksIn, IngestInv
    <2>2. EmbeddedWhole(o)'
      <3>1. CASE o = d /\ fresh = ChunksIn(d)
        <4>1. \A c \in ChunksIn(d) : \E r \in embeddings' : r[1] = c
          BY <1>5, <1>8, <3>1
        <4> QED BY <2>1, <3>1, <4>1 DEF EmbeddedWhole, Embedded
      <3>2. CASE fresh = {}
        <4>1. embeddings' = embeddings
          BY <1>5, <1>8, <3>2
        <4> QED BY <2>1, <4>1 DEF EmbeddedWhole, Embedded
      <3>3. CASE o # d
        <4>1. \A c \in ChunksIn(o) : c \notin fresh
          BY <1>9, <3>3 DEF ChunksIn
        <4>2. \A c \in ChunksIn(o) : Embedded(c)' = Embedded(c)
          BY <1>5, <1>8, <4>1 DEF Embedded
        <4> QED BY <2>1, <4>2 DEF EmbeddedWhole
      <3> QED BY <1>10, <3>1, <3>2, <3>3
    <2> QED BY <1>5, <2>1, <2>2 DEF DocumentWhole
  <1>18. /\ \A r \in embeddings' : r[1] \in chunks'
         /\ \A r, other \in embeddings' : r[1] = other[1] => r = other
    <2>1. \A r \in rows : r[1] \in chunks /\ \A other \in embeddings : r[1] # other[1]
      BY <1>8, <1>9 DEF ChunksIn, Embedded
    <2>2. \A r, other \in rows : r[1] = other[1] => r = other
      BY <1>8
    <2> QED BY <1>5, <2>1, <2>2 DEF IngestInv
  <1>19. /\ \A o, other \in Document : OneDocument(o, other)'
         /\ \A a \in answers' : Holds(a.document, a.engagement, a.content)'
         /\ \A k \in chunks' : documents'[k[1]] # None
    BY <1>5 DEF IngestInv, OneDocument, Holds
  <1> QED BY <1>13, <1>14, <1>15, <1>16, <1>17, <1>18, <1>19 DEF IngestInv

LEMMA OtherStepsKeep ==
    ASSUME IngestInv, NEW p \in Worker,
           \/ \E e \in Engagement, c \in Content, d \in Document : AnswerExisting(p, e, c, d)
           \/ \E e \in Engagement, c \in Content, m \in MimeType, d \in Document :
                 BeginUpload(p, e, c, m, d)
           \/ \E e \in Engagement, d \in Document : BeginEmbed(p, e, d)
           \/ StoreFile(p) \/ RefuseUpload(p) \/ ParseFails(p) \/ Fail(p)
    PROVE  IngestInv'
  <1> DEFINE Requests == {Idle} \cup UploadRequest \cup EmbedRequest
             Tables == <<documents, chunks, embeddings, embedded>>
  <1>1. /\ TypeOK /\ RequestFits(p) /\ requests \in [Worker -> Requests]
        /\ files \subseteq Document /\ answers \subseteq Answer
        /\ \A a \in answers : Holds(a.document, a.engagement, a.content)
    BY DEF IngestInv, TypeOK
  <1>2. ASSUME NEW q \in Requests, requests' = [requests EXCEPT ![p] = q]
        PROVE  requests' \in [Worker -> Requests] /\ requests'[p] = q /\ Others(p)
    BY <1>1, <1>2 DEF Others
  <1>3. ASSUME NEW e \in Engagement, NEW c \in Content, NEW d \in Document,
               AnswerExisting(p, e, c, d)
        PROVE  IngestInv'
    <2> DEFINE a == [engagement |-> e, content |-> c, document |-> d]
    <2>1. a \in Answer /\ Holds(a.document, a.engagement, a.content)
      BY <1>3 DEF Answer, AnswerExisting
    <2>2. answers' = answers \cup {a} /\ UNCHANGED Tables /\ UNCHANGED <<files, requests>>
      BY <1>3 DEF AnswerExisting
    <2> HIDE DEF a
    <2>3. RequestFits(p)' /\ ~ Uploading(p)' /\ Others(p) /\ requests' \in [Worker -> Requests]
      <3>1. requests[p] = Idle
        BY <1>3 DEF AnswerExisting
      <3> QED BY <1>1, <2>2, <3>1 DEF RequestFits, Uploading, Embedding, Idle, Others
    <2> QED BY <1>1, <2>1, <2>2, <2>3, TablesUnchanged
  <1>4. ASSUME NEW e \in Engagement, NEW c \in Content, NEW m \in MimeType,
               NEW d \in Document, BeginUpload(p, e, c, m, d)
        PROVE  IngestInv'
    <2> DEFINE q == [step |-> "selected", document |-> d, engagement |-> e, content |-> c,
                     mime_type |-> m]
    <2>1. q \in UploadRequest /\ q.step = "selected" /\ q.document = d
      BY DEF UploadRequest
    <2>2. /\ requests' = [requests EXCEPT ![p] = q] /\ UNCHANGED Tables
          /\ UNCHANGED <<files, answers>> /\ documents[d] = None
          /\ \A o \in Worker : Uploading(o) => requests[o].document # d
      BY <1>4 DEF BeginUpload, Unused, Uploading
    <2> HIDE DEF q
    <2>3. requests' \in [Worker -> Requests] /\ requests'[p] = q /\ Others(p)
      BY <1>2, <2>1, <2>2
    <2>4. RequestFits(p)'
      BY <2>1, <2>2, <2>3 DEF RequestFits, Uploading, Embedding
    <2> QED BY <1>1, <2>1, <2>2, <2>3, <2>4, TablesUnchanged
  <1>5. ASSUME NEW e \in Engagement, NEW d \in Document, BeginEmbed(p, e, d)
        PROVE  IngestInv'
    <2> DEFINE q == [step |-> "listed", engagement |-> e, listed |-> ChunksIn(d)]
    <2>1. q \in EmbedRequest /\ q.step = "listed" /\ q.listed = ChunksIn(d)
      BY <1>1 DEF EmbedRequest, ChunksIn, TypeOK
    <2>2. /\ requests' = [requests EXCEPT ![p] = q] /\ UNCHANGED Tables
          /\ UNCHANGED <<files, answers>> /\ ChunksIn(d) # {}
      BY <1>5 DEF BeginEmbed, ChunksIn
    <2> HIDE DEF q
    <2>3. requests' \in [Worker -> Requests] /\ requests'[p] = q /\ Others(p)
      BY <1>2, <2>1, <2>2
    <2>4. documents[d] # None
      BY <2>2 DEF ChunksIn, IngestInv
    <2>5. RequestFits(p)'
      BY <2>1, <2>2, <2>3, <2>4 DEF RequestFits, Uploading, Embedding, ChunksIn
    <2>6. ~ Uploading(p)'
      BY <2>1, <2>3 DEF Uploading
    <2> QED BY <1>1, <2>2, <2>3, <2>5, <2>6, TablesUnchanged
  <1>6. CASE StoreFile(p)
    <2>1. Uploading(p) /\ requests[p] \in UploadRequest
      BY <1>1, <1>6, RequestKinds DEF StoreFile, Uploading
    <2> DEFINE q == [requests[p] EXCEPT !.step = "stored"]
    <2>2. /\ q \in UploadRequest /\ q.step = "stored" /\ q.document = requests[p].document
          /\ q.document \in Document
      BY <2>1 DEF UploadRequest
    <2>3. /\ requests' = [requests EXCEPT ![p] = q] /\ UNCHANGED Tables /\ UNCHANGED answers
          /\ files' = files \cup {q.document}
      BY <1>6, <2>2 DEF StoreFile
    <2> HIDE DEF q
    <2>4. requests' \in [Worker -> Requests] /\ requests'[p] = q /\ Others(p)
      BY <1>2, <2>2, <2>3
    <2>5. RequestFits(p)'
      BY <1>1, <2>1, <2>2, <2>3, <2>4 DEF RequestFits, Uploading, Embedding
    <2>6. \A o \in Worker : o # p /\ Uploading(o) => requests'[p].document # requests[o].document
      BY <2>1, <2>2, <2>4 DEF IngestInv, UploadsApart
    <2> QED BY <1>1, <2>2, <2>3, <2>4, <2>5, <2>6, TablesUnchanged
  <1>7. CASE RefuseUpload(p) \/ ParseFails(p) \/ Fail(p)
    <2>1. Done(p) /\ UNCHANGED Tables /\ UNCHANGED <<files, answers>>
      BY <1>7 DEF RefuseUpload, ParseFails, Fail
    <2> QED BY <1>1, <2>1, EndsRequest, TablesUnchanged
  <1> QED BY <1>3, <1>4, <1>5, <1>6, <1>7

LEMMA IngestInvStep == IngestInv /\ [Next]_vars => IngestInv'
  <1> SUFFICES ASSUME IngestInv, [Next]_vars PROVE IngestInv'
    OBVIOUS
  <1>1. CASE UNCHANGED vars
    BY <1>1
    DEF vars, IngestInv, TypeOK, RequestFits, Uploading, Embedding, ChunksIn, UploadsApart,
        DocumentWhole, OneDocument, Holds, EmbeddedWhole, Embedded
  <1>2. CASE Next
    BY <1>2, UploadKeeps, EmbedKeeps, OtherStepsKeep DEF Next
  <1> QED BY <1>1, <1>2

LEMMA IngestInvAlways == Spec => []IngestInv
  BY InitIngestInv, IngestInvStep, PTL DEF Spec

(***************************************************************************)
(* The theorems                                                            *)
(***************************************************************************)
\* Rows, files and requests are well formed, whatever requests overlap or fail.
THEOREM TypeCorrect == Spec => []TypeOK
  <1>1. IngestInv => TypeOK
    BY DEF IngestInv
  <1> QED BY <1>1, IngestInvAlways, PTL

\* An engagement has one document of a content, and every upload of it that was
\* answered was answered with that one.
THEOREM OneDocumentAlways == Spec => []OneDocumentPerContent
  BY InvOneDocument, IngestInvAlways, PTL

\* A document that can be seen has its file and all its chunks, and there is no
\* chunk of any other.
THEOREM DocumentsAlwaysWhole == Spec => []DocumentsWhole
  BY InvWhole, IngestInvAlways, PTL

\* The stored chunks of a document hold every word of its text; and the chunks of
\* every text lose or move no word, are cut where they may be and keep to the sizes.
THEOREM StoredTextAlwaysWhole == Spec => []StoredTextWhole
  BY InvText, IngestInvAlways, PTL

\* A document is embedded whole or not at all, each chunk once, and the counts the
\* requests were answered with add up to the rows.
THEOREM EmbeddedAlwaysOnce == Spec => []EmbeddedOnce
  BY InvEmbedded, IngestInvAlways, PTL
=============================================================================

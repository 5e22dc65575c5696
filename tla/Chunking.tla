------------------------------ MODULE Chunking ------------------------------
(***************************************************************************)
(* chunk_text of the ingestion context: how the text of a document is cut  *)
(* into the chunks that are stored, embedded and cited.                    *)
(*                                                                         *)
(* A text is the sequence of its blocks between blank lines, and a block   *)
(* is the number of its words; the words of a text are numbered from 1 and *)
(* a chunk is the sequence of the words it holds.  Character offsets are   *)
(* left out.                                                               *)
(***************************************************************************)
EXTENDS Naturals, SequencesExt, FiniteSets

CONSTANTS
    Text,            \* texts a parser may make of a file
    TargetWords,     \* target_words
    MinWords,        \* min_words
    OverlapPercent   \* overlap_ratio, in percent

OverlapWords ==
    LET rounded == (TargetWords * OverlapPercent + 50) \div 100
    IN  IF rounded > 1 THEN rounded ELSE 1

Step == IF TargetWords > OverlapWords THEN TargetWords - OverlapWords ELSE 1

\* As with the defaults, the only values a caller uses: 375 words, of which an
\* overlap of 45, and a floor of 40.
ASSUME ChunkingAssumption ==
    /\ Text \subseteq Seq(Nat)
    /\ {TargetWords, OverlapPercent} \subseteq Nat /\ MinWords \in Nat \ {0}
    /\ OverlapWords < TargetWords
    /\ MinWords <= OverlapWords + 1

----------------------------------------------------------------------------
(***************************************************************************)
(* _split_large_paragraph                                                  *)
(***************************************************************************)
Window(words, i) ==
    SubSeq(words, i + 1, IF i + TargetWords < Len(words) THEN i + TargetWords ELSE Len(words))

\* Mutated form: the next window starts where the one before it ended.
WindowsApart(words) ==
    LET starts == {k \in 0 .. Len(words) :
                      k > 0 => (k - 1) * Step + TargetWords < Len(words)}
    IN  [k \in 1 .. Cardinality(starts) |-> Window(words, (k - 1) * TargetWords)]

\* The loop goes on as long as the window before it did not reach the end.
SplitLargeParagraph(words) ==
    LET starts == {k \in 0 .. Len(words) :
                      k > 0 => (k - 1) * Step + TargetWords < Len(words)}
    IN  [k \in 1 .. Cardinality(starts) |-> Window(words, (k - 1) * Step)]

----------------------------------------------------------------------------
(***************************************************************************)
(* chunk_text                                                              *)
(***************************************************************************)
\* The loop's state: the chunks made, the words of the buffer, the words read.
NothingRead == [chunks |-> <<>>, buffer |-> <<>>, read |-> 0]

Flush(state) ==
    IF state.buffer = <<>>
    THEN state
    ELSE [state EXCEPT !.chunks = Append(@, state.buffer), !.buffer = <<>>]

AddParagraph(state, count) ==
    LET words == [i \in 1 .. count |-> state.read + i]
        held == Len(state.buffer)
        ready == IF \/ count > TargetWords
                    \/ held + count > TargetWords /\ held >= MinWords
                 THEN Flush(state)
                 ELSE state
    IN  IF count > TargetWords
        THEN [ready EXCEPT !.chunks = @ \o SplitLargeParagraph(words), !.read = @ + count]
        ELSE [ready EXCEPT !.buffer = @ \o words, !.read = @ + count]

\* A block of blanks is no paragraph.
AddBlock(state, count) == IF count = 0 THEN state ELSE AddParagraph(state, count)

\* The loop's state after each block.
ReadBlocks(text) ==
    LET after[k \in 0 .. Len(text)] ==
            IF k = 0 THEN NothingRead ELSE AddBlock(after[k - 1], text[k])
    IN  after

\* A trailing fragment below the floor goes to the chunk before it.
MergeTrailing(made) ==
    IF Len(made) >= 2 /\ Len(Last(made)) < MinWords
    THEN Append(Front(Front(made)), Last(Front(made)) \o Last(made))
    ELSE made

ChunkText(text) == MergeTrailing(Flush(ReadBlocks(text)[Len(text)]).chunks)

----------------------------------------------------------------------------
(***************************************************************************)
(* What the module's policy asks of the chunks of a text                   *)
(***************************************************************************)
\* The last word of each block.
BlockEnds(text) ==
    LET end[k \in 0 .. Len(text)] == IF k = 0 THEN 0 ELSE end[k - 1] + text[k]
    IN  end

EndOfBlock(text, k) == BlockEnds(text)[k]

ParagraphEnds(text) == {EndOfBlock(text, k) : k \in 1 .. Len(text)}

\* The words at which a cut is allowed that no paragraph ends at.
InsideOversized(text, word) ==
    \E k \in 1 .. Len(text) :
        /\ text[k] > TargetWords
        /\ EndOfBlock(text, k - 1) < word /\ word < EndOfBlock(text, k)

\* No word is lost or moved: each chunk is a run of words, and the next one
\* goes on where it ended, except for the overlap within a long paragraph.
EveryWordInOrder(text, made) ==
    /\ \A c \in 1 .. Len(made) : \A i \in 2 .. Len(made[c]) :
          made[c][i] = made[c][i - 1] + 1
    /\ (made = <<>>) = (EndOfBlock(text, Len(text)) = 0)
    /\ made # <<>> =>
          /\ made[1][1] = 1
          /\ Last(Last(made)) = EndOfBlock(text, Len(text))
    /\ \A c \in 2 .. Len(made) :
          LET before == Last(made[c - 1])
          IN  made[c][1] = before + 1
                 - (IF before \in ParagraphEnds(text) THEN 0 ELSE OverlapWords)

\* A paragraph that fits in a chunk is never split.
CutAtParagraphs(text, made) ==
    \A c \in 1 .. Len(made) :
        \/ Last(made[c]) \in ParagraphEnds(text)
        \/ InsideOversized(text, Last(made[c]))

\* A chunk is below the floor only before a long paragraph or alone, and above
\* the budget by less than what the floor holds back, twice at the end.
Sized(text, made) ==
    \A c \in 1 .. Len(made) :
        /\ Len(made[c]) < MinWords /\ Len(made) > 1 =>
              c < Len(made) /\ InsideOversized(text, made[c + 1][1])
        /\ Len(made[c]) < TargetWords + MinWords
              + (IF c = Len(made) THEN MinWords ELSE 0)

\* Whatever the lengths of the paragraphs and their order.
TextsWellChunked ==
    \A text \in Text :
        LET made == ChunkText(text)
        IN  /\ EveryWordInOrder(text, made)
            /\ CutAtParagraphs(text, made)
            /\ Sized(text, made)
=============================================================================

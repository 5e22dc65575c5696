---------------------------- MODULE MCIngestion ----------------------------
(***************************************************************************)
(* Small instances of Ingestion.  The identifier pool bounds the documents *)
(* that are ever begun; everything else is finite then.                    *)
(***************************************************************************)
EXTENDS Ingestion, TLC

CONSTANT c1

\* Up to four blocks, of up to three windows each.
ShortTexts == UNION {[1 .. n -> 0 .. 9] : n \in 0 .. 4}

\* Text of two chunks and of none, neither of them a PDF.
TextFiles ==
    [claimed \in MimeType \X Content |->
        IF claimed[1] # "text" THEN None ELSE IF claimed[2] = c1 THEN <<5, 0, 4>> ELSE <<0>>]

Symmetry == Permutations(Document) \cup Permutations(Worker) \cup Permutations(Engagement)
=============================================================================

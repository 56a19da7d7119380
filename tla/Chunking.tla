------------------------------- MODULE Chunking -------------------------------
(***************************************************************************)
(* split_text (app/rag/chunking.py): the loop over the paragraphs of a     *)
(* document.  A text is abstracted to the lengths of its paragraphs, none  *)
(* of which contains white space; a chunk to the pieces it is joined from  *)
(* by blank lines, each a part of one paragraph and its place in the chunk *)
(*                                                                         *)
(* A text that fits one chunk is returned at once by the code; the loop    *)
(* gives the same result for it.  MaxParagraphs and MaxParagraph bound the *)
(* document.                                                               *)
(***************************************************************************)
EXTENDS Integers, SequencesExt

CONSTANTS
    Size,           \* chunk_size
    Overlap,        \* chunk_overlap
    MaxParagraphs,  \* bound on the paragraphs of the document
    MaxParagraph    \* bound on the length of a paragraph

ASSUME SizeAssumption == Size \in Nat /\ Overlap \in 0..(Size - 1)
ASSUME BoundAssumption == MaxParagraphs \in Nat /\ MaxParagraph \in Nat

VARIABLES
    document,  \* the lengths of the paragraphs seen so far
    buffer,
    chunks

vars == <<document, buffer, chunks>>

\* The characters from..to-1 of paragraph par, at position at of a chunk.
Piece == [par : 1..MaxParagraphs, from : 0..MaxParagraph, to : 1..MaxParagraph, at : Nat]

\* Where a piece ends, and len() of the pieces joined by "\n\n".
End(piece) == piece.at + (piece.to - piece.from)
Length(pieces) == IF pieces = <<>> THEN 0 ELSE End(Last(pieces))

TypeOK ==
    /\ document \in Seq(1..MaxParagraph)
    /\ Len(document) <= MaxParagraphs
    /\ buffer \in Seq(Piece)
    /\ chunks \in Seq(Seq(Piece) \ {<<>>})
    /\ \A piece \in Range(buffer) \cup UNION {Range(c) : c \in Range(chunks)} :
          /\ piece.par <= Len(document)
          /\ piece.from < piece.to /\ piece.to <= document[piece.par]

Init ==
    /\ document = <<>>
    /\ buffer = <<>>
    /\ chunks = <<>>

-----------------------------------------------------------------------------
\* Mutant: the slices meet without their full overlap.
HardSplitShort(par, length) ==
    LET step == Size - Overlap + 1
    IN  [k \in 1..((length - 1) \div step + 1) |->
            <<[par  |-> par,
               from |-> (k - 1) * step,
               to   |-> IF (k - 1) * step + Size < length
                          THEN (k - 1) * step + Size
                          ELSE length,
               at   |-> 0]>>]

\* Mutant: the last slice runs past the end of the paragraph.
HardSplitPast(par, length) ==
    LET step == Size - Overlap
    IN  [k \in 1..((length - 1) \div step + 1) |->
            <<[par  |-> par,
               from |-> (k - 1) * step,
               to   |-> (k - 1) * step + Size,
               at   |-> 0]>>]

\* _hard_split: a chunk of Size characters at every multiple of the step.
HardSplit(par, length) ==
    LET step == Size - Overlap
    IN  [k \in 1..((length - 1) \div step + 1) |->
            <<[par  |-> par,
               from |-> (k - 1) * step,
               to   |-> IF (k - 1) * step + Size < length
                          THEN (k - 1) * step + Size
                          ELSE length,
               at   |-> 0]>>]

\* f"{buffer}\n\n{paragraph}", or the paragraph alone.
Joined(pieces, par, length) ==
    Append(pieces, [par  |-> par,
                    from |-> 0,
                    to   |-> length,
                    at   |-> IF pieces = <<>> THEN 0 ELSE Length(pieces) + 2])

\* What is left of a piece when the chunk begins at start.
CutAt(piece, start) ==
    IF piece.at < start
      THEN [piece EXCEPT !.from = @ + (start - piece.at), !.at = 0]
      ELSE [piece EXCEPT !.at = @ - start]

\* Mutant: the whole last paragraph is carried, whatever its length.
CarriedParagraph(pieces, n) ==
    IF n > 0 THEN <<CutAt(Last(pieces), Last(pieces).at)>> ELSE <<>>

\* buffer[-chunk_overlap:], stripped: its last n characters, without the blank
\* line if the cut falls on one.
Carried(pieces, n) ==
    LET cut     == Length(pieces) - n
        kept    == Cardinality({k \in DOMAIN pieces : End(pieces[k]) > cut})
        dropped == Len(pieces) - kept
        start   == Max({cut, pieces[dropped + 1].at})
    IN  [k \in 1..kept |-> CutAt(pieces[dropped + k], start)]

\* The chunks if no paragraph is added to the buffer any more.
Flushed == IF buffer = <<>> THEN chunks ELSE Append(chunks, buffer)

\* The loop body, for the next paragraph.
Paragraph(length) ==
    LET par == Len(document) + 1
        candidate == Joined(buffer, par, length)
    IN  /\ Len(document) < MaxParagraphs
        /\ document' = Append(document, length)
        /\ \/ /\ length > Size
              /\ chunks' = Flushed \o HardSplit(par, length)
              /\ buffer' = <<>>
           \/ /\ length <= Size
              /\ Length(candidate) <= Size
              /\ buffer' = candidate
              /\ UNCHANGED chunks
           \/ /\ length <= Size
              /\ Length(candidate) > Size
              /\ chunks' = Append(chunks, buffer)
              /\ buffer' = Joined(Carried(buffer, Overlap), par, length)

Next == \E length \in 1..MaxParagraph : Paragraph(length)

Spec == Init /\ [][Next]_vars

-----------------------------------------------------------------------------
(* Properties, of the chunks returned if the document ends here.           *)

Within(pieces, par, from, to) ==
    \E piece \in Range(pieces) :
        piece.par = par /\ piece.from <= from /\ to <= piece.to

\* "we pack whole paragraphs into a chunk" (chunking.py:3), and "a fact split
\* across the boundary is still retrievable" (chunking.py:73): every paragraph
\* that fits a chunk is whole in one, and so is every passage of a longer one
\* that has at most one character more than the overlap.
FactsRetrievable ==
    \A par \in 1..Len(document) :
        LET length == document[par]
            fact == IF length <= Size THEN length ELSE Overlap + 1
        IN  \A from \in 0..(length - fact) :
                \E chunk \in Range(Flushed) : Within(chunk, par, from, from + fact)

\* "we pack whole paragraphs into a chunk until the size budget is hit"
\* (chunking.py:3): the carried tail and its blank line come on top of it.
ChunksBounded ==
    \A chunk \in Range(Flushed) :
        Length(chunk) <= IF Overlap = 0 THEN Size ELSE Size + 2 + Overlap

=============================================================================

------------------------------ MODULE Chunker ------------------------------
(***************************************************************************)
(* internal/knowledge/chunker.go: a document is cut into the pieces that   *)
(* are embedded and searched. A document is the sequence of the lengths of *)
(* its paragraphs in runes, 0 for a blank one; a chunk is a sequence of    *)
(* spans of paragraphs, joined by an empty line.                           *)
(***************************************************************************)
EXTENDS Integers, Sequences, SequencesExt, FiniteSetsExt

CONSTANT DefaultSize  \* 900

ASSUME DefaultSizeAssumption == DefaultSize \in Nat \ {0}

(* ChunkDocuments puts the settings in order first. *)
ChunkSize(size) == IF size <= 0 THEN DefaultSize ELSE size
ChunkOverlap(size, overlap) ==
  IF overlap < 0 THEN 0
  ELSE IF overlap >= ChunkSize(size) THEN ChunkSize(size) \div 5 ELSE overlap

Span(i, from, to) == [paragraph |-> i, from |-> from, to |-> to]
SpanLength(span) == span.to - span.from + 1
EmptyLine == 2
ChunkLength(chunk) ==
  LET length[n \in 0..Len(chunk)] ==
        IF n = 0 THEN -EmptyLine
        ELSE length[n - 1] + SpanLength(chunk[n]) + EmptyLine
  IN  length[Len(chunk)]

(* Mutant of SplitLongText: every window starts where the last one ended.  *)
SplitApart(i, len, size, overlap) ==
  [n \in 1..((len + size - 1) \div size) |->
     <<Span(i, (n - 1) * size + 1, Min({n * size, len}))>>]

(* splitLongText: windows that start a step apart, until one ends the text.*)
SplitLongText(i, len, size, overlap) ==
  LET step == IF overlap >= size THEN size ELSE size - overlap
      end(n) == Min({(n - 1) * step + size, len})
      windows == CHOOSE n \in 1..len : end(n) = len /\ \A m \in 1..n - 1 : end(m) < len
  IN  [n \in 1..windows |-> <<Span(i, (n - 1) * step + 1, end(n))>>]

Flushed(made) ==
  IF made.current = <<>> THEN made
  ELSE [chunks |-> Append(made.chunks, made.current), current |-> <<>>]

(* Mutant of TakeParagraph: the empty line is not counted. *)
TakeTight(made, i, len, size, overlap) ==
  IF len = 0 THEN made
  ELSE IF len > size
  THEN [Flushed(made) EXCEPT !.chunks = @ \o SplitLongText(i, len, size, overlap)]
  ELSE [(IF ChunkLength(made.current) + len > size THEN Flushed(made) ELSE made)
          EXCEPT !.current = Append(@, Span(i, 1, len))]

(* The loop of chunkText: a paragraph too long for a chunk is split, the   *)
(* others share a chunk as long as it holds them.                          *)
TakeParagraph(made, i, len, size, overlap) ==
  LET room == ChunkLength(made.current) + len + EmptyLine <= size
  IN  IF len = 0 THEN made
      ELSE IF len > size
      THEN [Flushed(made) EXCEPT !.chunks = @ \o SplitLongText(i, len, size, overlap)]
      ELSE [(IF room THEN made ELSE Flushed(made))
              EXCEPT !.current = Append(@, Span(i, 1, len))]

(* chunkText *)
ChunkText(document, size, overlap) ==
  LET made[i \in 0..Len(document)] ==
        IF i = 0 THEN [chunks |-> <<>>, current |-> <<>>]
        ELSE TakeParagraph(made[i - 1], i, document[i],
                           ChunkSize(size), ChunkOverlap(size, overlap))
  IN  Flushed(made[Len(document)]).chunks
=============================================================================

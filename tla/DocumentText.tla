---------------------------- MODULE DocumentText ----------------------------
(***************************************************************************)
(* What the ingest route does to a text before it is stored: compression   *)
(* of plain text (compression/engine.py, reducers.py), the header of its   *)
(* message (ingestion/canonicalize.py) and its chunks (memory/chunker.py). *)
(* A text is a sequence of characters: letters, spaces and newlines.       *)
(***************************************************************************)
EXTENDS Naturals, SequencesExt

CONSTANTS
  Chars,
  Header   (* the line of provenance before each message                   *)

NL == "\n"
Blank(ch) == ch \in {" ", NL}
Text == Seq(Chars)

ASSUME TextAssumption == {" ", NL} \subseteq Chars /\ Header \in Text

CharsPerToken == 4
Tokens(t) == (Len(t) + CharsPerToken - 1) \div CharsPerToken

\* A loop over the elements of s. Its body takes the state and then the element;
\* it is a function, where FoldLeft has an operator, and can be reasoned about.
Loop(body, start, s) ==
  LET after[i \in 0..Len(s)] == IF i = 0 THEN start ELSE body[after[i - 1]][s[i]]
  IN after[Len(s)]

\* The text without what is blank at its end, at its start, at both.
Solid(t)  == {i \in DOMAIN t : ~Blank(t[i])}
RStrip(t) == SubSeq(t, 1, Max(Solid(t) \cup {0}))
LStrip(t) == SubSeq(t, Min(Solid(t) \cup {Len(t) + 1}), Len(t))
Strip(t)  == LStrip(RStrip(t))

\* split("\n") and its inverse
NextLine ==
  [at \in [lines : Seq(Text), line : Text] |-> [ch \in Chars |->
    IF ch = NL THEN [lines |-> Append(at.lines, at.line), line |-> <<>>]
    ELSE [at EXCEPT !.line = Append(@, ch)]]]

Lines(t) ==
  LET end == Loop(NextLine, [lines |-> <<>>, line |-> <<>>], t)
  IN Append(end.lines, end.line)

Joined(parts, sep) ==
  IF parts = <<>> THEN <<>>
  ELSE Loop([t \in Text |-> [p \in Text |-> t \o sep \o p]], Head(parts), Tail(parts))

TrimLines(t) == LET ls == Lines(t) IN Joined([i \in DOMAIN ls |-> RStrip(ls[i])], <<NL>>)

-----------------------------------------------------------------------------
(***************************************************************************)
(* compress, by the rule for plain text.                                   *)
(***************************************************************************)

\* The first of equal lines stays, and so does every blank one.
NextKept ==
  [at \in [seen : SUBSET Text, kept : Seq(Text)] |-> [line \in Text |->
    LET key == Strip(line) IN
      IF key # <<>> /\ key \in at.seen THEN at
      ELSE [seen |-> at.seen \cup ({key} \ {<<>>}), kept |-> Append(at.kept, line)]]]

DedupLines(t) == Joined(Loop(NextKept, [seen |-> {}, kept |-> <<>>], Lines(t)).kept, <<NL>>)

\* At most run characters ch in a row.
Collapse(t, ch, run) ==
  Loop([out \in Text |-> [x \in Chars |->
         IF x = ch /\ Len(out) >= run /\ \A i \in (Len(out) - run + 1)..Len(out) : out[i] = ch
         THEN out ELSE Append(out, x)]], <<>>, t)

FoldWhitespace(t) == Strip(Collapse(TrimLines(Collapse(t, " ", 1)), NL, 2))

\* Every cluster of characters is a single one here.
Truncate(t, budget) ==
  IF Len(t) <= budget * CharsPerToken THEN t ELSE RStrip(SubSeq(t, 1, budget * CharsPerToken))

Compress(t, budget) ==
  LET reduced == FoldWhitespace(DedupLines(t))
  IN IF Tokens(reduced) > budget THEN Truncate(reduced, budget) ELSE reduced

-----------------------------------------------------------------------------
(***************************************************************************)
(* _normalize_slack and chunk.                                             *)
(***************************************************************************)

\* One document per message that is not blank.
Canonical(messages) ==
  Loop([docs \in Seq(Text) |-> [t \in Text |->
         IF Strip(t) = <<>> THEN docs ELSE Append(docs, Header \o <<NL, NL>> \o t)]], <<>>, messages)

Normalize(t) == Strip(TrimLines(t))

\* split("\n\n"): a second newline ends a paragraph, and neither is in one.
NextParagraph ==
  [at \in [done : Seq(Text), open : Text] |-> [ch \in Chars |->
    IF ch = NL /\ at.open # <<>> /\ at.open[Len(at.open)] = NL
    THEN [done |-> Append(at.done, SubSeq(at.open, 1, Len(at.open) - 1)), open |-> <<>>]
    ELSE [at EXCEPT !.open = Append(@, ch)]]]

Paragraphs(t) ==
  LET end == Loop(NextParagraph, [done |-> <<>>, open |-> <<>>], t)
  IN Append(end.done, end.open)

\* Mutant of CutPoint: the character at the cut is skipped.
CutPoint_One(t, max) == max + 1

\* Where an oversized text is cut: before the last space of its first max
\* characters, unless that would leave less than half of them.
CutPoint(t, max) ==
  LET space == Max({i \in 1..max : t[i] = " "} \cup {0})
  IN IF space = 0 \/ space - 1 < max \div 2 THEN max ELSE space - 1

\* A piece is cut off as long as the rest is too long.
NextPiece(max) ==
  [at \in [pieces : Seq(Text), remaining : Text] |-> [ch \in Chars |->
    LET t   == at.remaining
        cut == CutPoint(t, max)
    IN IF Len(t) <= max THEN at
       ELSE [pieces    |-> Append(at.pieces, RStrip(SubSeq(t, 1, cut))),
             remaining |-> LStrip(SubSeq(t, cut + 1, Len(t)))]]]

\* There are not more pieces than characters: one turn for each is enough.
HardSplit(t, max) ==
  LET end == Loop(NextPiece(max), [pieces |-> <<>>, remaining |-> t], t)
  IN IF end.remaining = <<>> THEN end.pieces ELSE Append(end.pieces, end.remaining)

Blocks(t, max) ==
  Loop([blocks \in Seq(Text) |-> [p \in Text |->
         IF Strip(p) = <<>> THEN blocks
         ELSE IF Len(p) <= max THEN Append(blocks, p) ELSE blocks \o HardSplit(p, max)]],
       <<>>, Paragraphs(t))

\* Blocks are joined as long as the whole fits.
NextBlock(max) ==
  [at \in [merged : Seq(Text), current : Text] |-> [block \in Text |->
    LET candidate == IF at.current = <<>> THEN block ELSE at.current \o <<NL, NL>> \o block
    IN IF Len(candidate) <= max THEN [at EXCEPT !.current = candidate]
       ELSE [merged |-> Append(at.merged, at.current), current |-> block]]]

Merge(blocks, max) ==
  LET end == Loop(NextBlock(max), [merged |-> <<>>, current |-> <<>>], blocks)
  IN IF end.current = <<>> THEN end.merged ELSE Append(end.merged, end.current)

\* The contents of the chunks; their ids are their hashes.
Chunked(t, maxTokens) ==
  Merge(Blocks(Normalize(t), maxTokens * CharsPerToken), maxTokens * CharsPerToken)

\* What ingest_endpoint stores of a payload, document by document.
Drafts(messages, budget, maxTokens) ==
  LET docs == Canonical(messages)
  IN [i \in DOMAIN docs |-> Chunked(Compress(docs[i], budget), maxTokens)]
=============================================================================

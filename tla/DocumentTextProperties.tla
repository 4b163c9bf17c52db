----------------------- MODULE DocumentTextProperties -----------------------
(***************************************************************************)
(* What the stored chunks are relied on for, over every text of Texts.     *)
(***************************************************************************)
EXTENDS DocumentText

CONSTANTS
  Texts,      (* the messages that are tried                               *)
  MaxTokens,  (* DEFAULT_MAX_TOKENS                                        *)
  Budgets     (* ingest_compress_budget_tokens; the last is never reached  *)

ASSUME TextsAssumption ==
  Texts \subseteq Text /\ MaxTokens \in Nat \ {0} /\ Budgets \subseteq Nat

\* The letters of a text, and of texts one after the other.
Letters(t) ==
  Loop([out \in Text |-> [ch \in Chars |-> IF Blank(ch) THEN out ELSE Append(out, ch)]], <<>>, t)
LettersOf(texts) == Loop([out \in Text |-> [t \in Text |-> out \o Letters(t)]], <<>>, texts)

\* Lines, without those that an earlier one repeats.
Firsts(ls) ==
  [i \in DOMAIN ls |-> IF \E j \in 1..(i - 1) : Strip(ls[j]) = Strip(ls[i]) THEN <<>> ELSE ls[i]]

\* Of a message everything but the repeated lines is in its chunks, letter by
\* letter and in its order, and every chunk holds something and fits: neither
\* compression, nor a paragraph cut in pieces, nor pieces joined loses or
\* repeats a letter. Only beyond its budget b is a text cut, and then it fits.
Whole(t, b) ==
  LET docs == Drafts(<<t>>, b, MaxTokens) IN
    IF Strip(t) = <<>> THEN docs = <<>>
    ELSE LET text  == Canonical(<<t>>)[1]
             whole == LettersOf(Firsts(Lines(text)))
         IN /\ IF Len(text) <= b * CharsPerToken THEN LettersOf(docs[1]) = whole
               ELSE IsPrefix(LettersOf(docs[1]), whole) /\ Tokens(Compress(text, b)) <= b
            /\ \A i \in DOMAIN docs[1] :
                 Letters(docs[1][i]) # <<>> /\ Tokens(docs[1][i]) <= MaxTokens

NotWhole == {m \in Texts \X Budgets : ~Whole(m[1], m[2])}
=============================================================================

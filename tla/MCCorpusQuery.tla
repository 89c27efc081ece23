--------------------------- MODULE MCCorpusQuery ---------------------------
(* A small corpus for CorpusQuery: two works of three tokens, hard breaks     *)
(* after their last ones, words of two bits, and every placing of two terms.  *)
EXTENDS CorpusQuery
CONSTANTS a, b

Span(terms, distance, directed) ==
  [terms |-> terms, distance |-> distance, directed |-> directed]
Lead(terms) == Span(terms, 0, FALSE)
Unfiltered(spans) == [author |-> NoAuthor, spans |-> spans]
ByFirst(spans) == [author |-> [from |-> 0, to |-> 3], spans |-> spans]
BySecond(spans) == [author |-> [from |-> 3, to |-> 6], spans |-> spans]

MCTerms == {a, b}
MCWorks == {0, 3}
MCBreaks == {2, 5}
Places == {S \in SUBSET (0 .. 5) : Cardinality(S) \in 1 .. 3}
\* A term of at least the threshold is a bitmask, a rarer one a list.
MCIndices ==
  {[t \in MCTerms |-> [ids |-> S[t],
     kind |-> IF Cardinality(S[t]) >= threshold THEN "BitMask" ELSE "List"]] :
       S \in [MCTerms -> Places], threshold \in 1 .. 4}
Anywhere ==
  {<<Lead(<<a>>)>>, <<Lead(<<a, b>>)>>,
   <<Lead(<<a>>), Span(<<b>>, 2, TRUE)>>,
   <<Lead(<<a>>), Span(<<b, a>>, 1, FALSE)>>,
   <<Lead(<<a>>), Span(<<b>>, 2, FALSE)>>,
   <<Lead(<<a>>), Span(<<b>>, 1, FALSE), Span(<<a>>, 1, TRUE)>>}
ByAuthor == {<<Lead(<<a>>)>>, <<Lead(<<a, b>>)>>, <<Lead(<<a>>), Span(<<b>>, 1, FALSE)>>}
MCQueries == {Unfiltered(q) : q \in Anywhere} \cup {ByFirst(q) : q \in ByAuthor} \cup {BySecond(q) : q \in ByAuthor}
\* Two adjacent terms; the pages of one query, and of one author.
AdjacentTerms == {Unfiltered(<<Lead(<<a, b>>)>>)}
OneAuthor == {BySecond(<<Lead(<<a>>)>>)}
=============================================================================

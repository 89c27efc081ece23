---------------------------- MODULE CorpusQuery ----------------------------
(***************************************************************************)
(* The corpus query engine (corpus_rust/src/corpus_query_engine): one      *)
(* query, asked page by page.  A query is a sequence of spans, a span a    *)
(* sequence of adjacent terms, and two neighbouring spans lie within a     *)
(* distance of each other.  Every request runs the whole engine again and  *)
(* finds its place from the PageData of the answer before it.              *)
(*                                                                         *)
(* An index is a set of token IDs with the representation it is stored in, *)
(* a sorted list or a bitmask: the two are not handled alike, and a slice  *)
(* of a bitmask starts at a word boundary.  Terms are atoms; the text of   *)
(* a match, composed terms and strict mode are left out.                   *)
(***************************************************************************)
EXTENDS Integers, Sequences, FiniteSets, SequencesExt

CONSTANTS
  WordSize,      \* bits in a word of a bitmask, 64 in the code
  NumTokens,
  Terms,
  WorkStarts,    \* the first token of each work
  HardBreaks,    \* the tokens followed by a hard break
  Indices,       \* the term indices a corpus may have: [Terms -> Index]
  Queries,       \* [author: from and to, or NoAuthor; spans: Seq(Span)]
  PageSizes,
  MaxShown,      \* a reader who was shown this many matches stops
  NoAuthor, NoPage

ASSUME CorpusShape ==
  /\ WordSize \in Nat \ {0} /\ NumTokens \in Nat \ {0}
  /\ 0 \in WorkStarts /\ WorkStarts \subseteq 0 .. NumTokens - 1
  /\ HardBreaks \subseteq 0 .. NumTokens - 1
  /\ \A w \in WorkStarts \ {0} : w - 1 \in HardBreaks
  /\ NumTokens - 1 \in HardBreaks
  /\ PageSizes \subseteq Nat \ {0} /\ MaxShown \in Nat

Tokens == 0 .. NumTokens - 1
Kinds == {"List", "BitMask"}
Spans == [terms : Seq(Terms) \ {<<>>}, distance : Nat, directed : BOOLEAN]
PageData == [resultIndex : Nat, resultId : Nat, candidateIndex : Nat]

IsIndices(terms) == terms \in [Terms -> [kind : Kinds, ids : SUBSET Tokens]]

IsQuery(q) ==
  /\ q.spans \in Seq(Spans) \ {<<>>}
  /\ q.author # NoAuthor => q.author.from \in Nat /\ q.author.to \in Nat

ASSUME ConstantsFit ==
  /\ \A terms \in Indices : IsIndices(terms)
  /\ \A q \in Queries : IsQuery(q)
  /\ NoPage \notin PageData

VARIABLES
  indices,    \* the corpus
  query,
  page,       \* the PageData of the next request, NoPage after the last page
  shown,      \* the matches of the pages so far, each its sorted leaders
  estimate,   \* estimated_results of the last answer
  status      \* "more", "done", "failed" (an error or a panic)

vars == <<indices, query, page, shown, estimate, status>>

\* The elements of S in the order Less.
Ranked(S, Less(_, _)) ==
  [i \in 1 .. Cardinality(S) |->
     CHOOSE x \in S : Cardinality({y \in S : Less(y, x)}) = i - 1]

\* The places of the values in ascending order; equal values keep theirs.
SortedPlaces(values) ==
  LET Earlier(j, k) == values[j] < values[k] \/ (values[j] = values[k] /\ j < k)
  IN Ranked(DOMAIN values, Earlier)

-----------------------------------------------------------------------------
\* Indices: slices, intersections, and matches within a distance.

RoundUp(n) == ((n + WordSize - 1) \div WordSize) * WordSize

\* The token IDs an author's query looks at, aligned to words.
Bounds(q) ==
  IF q.author = NoAuthor
  THEN [start |-> 0, end |-> RoundUp(NumTokens)]
  ELSE [start |-> (q.author.from \div WordSize) * WordSize,
        end |-> RoundUp(q.author.to)]

Ids(range) == range.start .. range.end - 1

Greatest(S) == CHOOSE x \in S : \A y \in S : y <= x

\* A list that holds the end of the range loses one element more.
Slice(index, range, position) ==
  LET inside == index.ids \cap Ids(range)
      cut == IF index.kind = "List" /\ range.end \in index.ids
             THEN IF inside = {} THEN {} ELSE {Greatest(inside)}
             ELSE {}
  IN [kind |-> index.kind, ids |-> inside \ cut, position |-> position]

SlicePanics(index, range) ==
  /\ index.kind = "List"
  /\ range.end \in index.ids
  /\ index.ids \cap Ids(range) = {}

AndIndices(first, second) ==
  LET offset == first.position - second.position
  IN IF first.kind = "List" /\ second.kind = "BitMask"
     THEN [kind |-> "List", position |-> second.position,
           ids |-> {y \in second.ids : y + offset \in first.ids}]
     ELSE [kind |-> second.kind, position |-> first.position,
           ids |-> {x \in first.ids : x - offset \in second.ids}]

\* Mutant: the distance is one short on the left.
ReachShort(token, distance, directed) ==
  token - distance + 1 .. (IF directed THEN token ELSE token + distance)

\* Mutant: the two directions are swapped.
ReachSwapped(token, distance, directed) ==
  (IF directed THEN token ELSE token - distance) .. token + distance

\* The tokens a span before this one may start at.
Reach(token, distance, directed) ==
  token - distance .. (IF directed THEN token ELSE token + distance)

\* Is x of the first index in reach of y of the second? Between two lists:
NearInLists(x, y, offset, distance, directed) ==
  x \in Reach(y + offset, distance, directed)

\* Among the bits of a bitmask, which is smeared inside its slice: to both
\* sides it is smeared to the right first, and what has come so far is moved to
\* the left.
Smeared(y, distance, directed, range) ==
  LET right == Reach(y + distance, distance, TRUE) \cap Ids(range)
  IN IF directed THEN Reach(y, distance, directed)
     ELSE right \cup {z - distance : z \in right}

NearInBitmask(x, y, offset, distance, directed, range) ==
  x - offset \in Smeared(y, distance, directed, range) \cap Ids(range)

\* A list's entry in a bitmask; one that reaches beyond the start is dropped.
NearInSlice(x, y, offset, distance, directed, range) ==
  /\ y + offset - distance >= range.start
  /\ x \in Reach(y + offset, distance, directed)

FuzzyMatches(first, second, distance, directed, range) ==
  LET offset == first.position - second.position
      Near(x, y) ==
        CASE second.kind = "BitMask" ->
               NearInBitmask(x, y, offset, distance, directed, range)
          [] first.kind = "List" /\ second.kind = "List" ->
               NearInLists(x, y, offset, distance, directed)
          [] first.kind = "BitMask" /\ second.kind = "List" ->
               NearInSlice(x, y, offset, distance, directed, range)
  IN [first EXCEPT !.ids = {x \in first.ids : \E y \in second.ids : Near(x, y)}]

\* The bound of the bitmask counts the start of the slice twice.
FuzzyPanics(first, second, range) ==
  /\ first.kind = "List" /\ second.kind = "BitMask"
  /\ \E x \in first.ids :
       LET relative == x - (first.position - second.position) - range.start
       IN /\ relative >= range.end - range.start
          /\ relative < range.end

-----------------------------------------------------------------------------
\* Candidates: of a span, and of the whole query.

\* Rarest term first; equally frequent terms keep their order.
TermOrder(terms) ==
  SortedPlaces([i \in DOMAIN terms |-> Cardinality(indices[terms[i]].ids)])

FilterBreaks(candidates, length, range) ==
  AndIndices(candidates,
    [kind |-> "BitMask", position |-> 0,
     ids |-> {x \in Ids(range) :
                \A b \in HardBreaks \cap Ids(range) : b \notin x .. x + length - 2}])

SpanCandidates(terms, range) ==
  LET slices == [i \in DOMAIN terms |-> Slice(indices[terms[i]], range, i - 1)]
      order == TermOrder(terms)
      all == FoldLeft(LAMBDA data, i : AndIndices(data, slices[i]),
                      slices[Head(order)], Tail(order))
  IN IF Len(terms) > 1 THEN FilterBreaks(all, Len(terms), range) ELSE all

\* Candidates of the first span, from the last span to the first.
QueryCandidates(spans, slices, range) ==
  LET Combine(previous, k) ==
        FuzzyMatches(slices[k], previous, spans[k + 1].distance,
                     spans[k + 1].directed, range)
      n == Len(spans)
  IN FoldLeft(Combine, slices[n], [i \in 1 .. n - 1 |-> n - i])

CandidatesPanic(spans, slices, range) ==
  \/ \E k \in DOMAIN spans : \E i \in DOMAIN spans[k].terms :
       SlicePanics(indices[spans[k].terms[i]], range)
  \/ \E k \in 1 .. Len(spans) - 1 :
       LET rest == SubSeq(spans, k + 1, Len(spans))
           restSlices == SubSeq(slices, k + 1, Len(spans))
       IN FuzzyPanics(slices[k], QueryCandidates(rest, restSlices, range), range)

-----------------------------------------------------------------------------
\* Matches: the leaders of the spans for one candidate.

Highest(x, y) == IF x > y THEN x ELSE y
Lowest(x, y) == IF x < y THEN x ELSE y

\* Where the leader of a span may be, given the leader of the span before.
LeaderRange(anchor, span) ==
  (IF span.directed THEN anchor ELSE Highest(anchor - span.distance, 0))
     .. anchor + span.distance

SpanLeaders(anchor, span, slice, range) ==
  LET leaders == {y - slice.position : y \in {z \in slice.ids :
                    z - slice.position >= IF slice.kind = "BitMask"
                                          THEN range.start ELSE 0}}
  IN leaders \cap LeaderRange(anchor, span)

\* A list without a leader in reach is an error of the whole query; a
\* bitmask is one only if its range is out of reach.
LeaderFails(anchor, span, slice, range) ==
  LET first == Highest(range.start - slice.position, 0)
      end == Highest(range.end - slice.position, 0)
      reachEnd == anchor + span.distance + 1
      reachStart == IF span.directed THEN anchor
                    ELSE Highest(anchor - span.distance, 0)
  IN \/ reachEnd <= first \/ end <= reachStart
     \/ IF slice.kind = "List"
        THEN SpanLeaders(anchor, span, slice, range) = {}
        ELSE Lowest(reachEnd, end) <= range.start

\* The leaders of the first n spans, in query order.
Paths(token, n, spans, slices, range) ==
  LET Extend(paths, k) ==
        UNION {{Append(p, l) : l \in SpanLeaders(Last(p), spans[k], slices[k], range)}
                 : p \in paths}
  IN FoldLeft(Extend, {<<token>>}, [i \in 1 .. n - 1 |-> i + 1])

PathFails(token, spans, slices, range) ==
  \E k \in 2 .. Len(spans) :
    \E p \in Paths(token, k - 1, spans, slices, range) :
      LeaderFails(Last(p), spans[k], slices[k], range)

\* The leaders of a path in the given order: [start, length].
InOrder(order, path, spans) ==
  [i \in DOMAIN order |->
     [start |-> path[order[i]], length |-> Len(spans[order[i]].terms)]]

\* Spans in the order of their leaders.
SortedLeaders(path, spans) == InOrder(SortedPlaces(path), path, spans)

Starts(leaders) == [i \in DOMAIN leaders |-> leaders[i].start]

SpansOverlap(leaders) ==
  \E i \in 1 .. Len(leaders) - 1 :
    leaders[i + 1].start < leaders[i].start + leaders[i].length

\* Mutant: only the start of the last span is looked at.
WithinWorkBoundsStart(leaders) ==
  LET work == Greatest({w \in WorkStarts : w <= leaders[1].start})
  IN \A w \in WorkStarts : w > work => Last(leaders).start <= w

WithinWorkBounds(leaders) ==
  \/ Len(leaders) < 2
  \/ LET end == Last(leaders).start + Last(leaders).length - 1
         work == Greatest({w \in WorkStarts : w <= leaders[1].start})
     IN work < end /\ \A w \in WorkStarts : w > work => end < w

Before(p, q) ==
  \E i \in DOMAIN p : p[i] < q[i] /\ \A j \in 1 .. i - 1 : p[j] = q[j]

\* The first arrangement of the spans that is a match, other than the match
\* before it on this page: <<leaders>>, or <<>>.
LeadersForCandidate(token, last, spans, slices, range) ==
  LET Usable(p) == LET leaders == SortedLeaders(p, spans)
                   IN /\ ~SpansOverlap(leaders)
                      /\ Starts(leaders) # Starts(last)
                      /\ WithinWorkBounds(leaders)
      usable == {p \in Paths(token, Len(spans), spans, slices, range) : Usable(p)}
  IN IF usable = {} THEN <<>>
     ELSE <<SortedLeaders(CHOOSE p \in usable :
                            \A q \in usable \ {p} : Before(p, q), spans)>>

-----------------------------------------------------------------------------
\* Pages.

FirstPage == [resultIndex |-> 0, resultId |-> 0, candidateIndex |-> 0]

\* Mutant: a list resumes after the candidate the page starts with.
MatchIteratorPast(candidates, range, current) ==
  LET sorted == Ranked(candidates.ids, <)
  IN SubSeq(sorted, current.candidateIndex + 1 + Lowest(current.resultIndex, 1), Len(sorted))

\* The candidates from the start of the page on: a list resumes at an index,
\* a bitmask at a bit.
MatchIterator(candidates, range, current) ==
  LET sorted == Ranked(candidates.ids, <)
  IN IF candidates.kind = "List"
     THEN SubSeq(sorted, current.candidateIndex + 1, Len(sorted))
     ELSE Ranked({y \in candidates.ids : y - range.start >= current.resultId}, <)

\* Mutant: the results that were shown include the skipped candidates.
NextPageCountsSkipped(current, size, skipped, token) ==
  [resultIndex |-> current.resultIndex + size + skipped,
   candidateIndex |-> current.candidateIndex + size + skipped,
   resultId |-> token]

\* Where the page after this one starts: at the next match, which is `token`.
NextPage(current, size, skipped, token) ==
  [resultIndex |-> current.resultIndex + size,
   candidateIndex |-> current.candidateIndex + size + skipped,
   resultId |-> token]

MatchPage(candidates, spans, slices, range, current, size) ==
  LET Previous(matches) == IF matches = <<>> THEN <<>> ELSE Last(matches)
      Visit(acc, id) ==
        IF acc.next # NoPage \/ acc.failed THEN acc ELSE
        LET token == id - candidates.position
            found == LeadersForCandidate(token, Previous(acc.matches), spans, slices, range)
        IN IF token < 0 \/ PathFails(token, spans, slices, range)
           THEN [acc EXCEPT !.failed = TRUE]
           ELSE IF found = <<>> THEN [acc EXCEPT !.skipped = @ + 1]
           ELSE IF Len(acc.matches) < size
                THEN [acc EXCEPT !.matches = @ \o found]
                ELSE [acc EXCEPT !.next = NextPage(current, size, acc.skipped, token)]
  IN FoldLeft(Visit,
       [matches |-> <<>>, skipped |-> 0, next |-> NoPage, failed |-> FALSE],
       MatchIterator(candidates, range, current))

\* Exact after the last page; before it, the hit rate so far goes on.
EstimatedResults(total, answer, current) ==
  IF answer.next = NoPage
  THEN current.resultIndex + Len(answer.matches)
  ELSE LET next == answer.next
           remaining == Highest(total - next.candidateIndex, 0)
       IN next.resultIndex
            + (100 * remaining * next.resultIndex + 99 * next.candidateIndex)
                \div (100 * next.candidateIndex)

Answer(current, size) ==
  LET range == Bounds(query)
      spans == query.spans
      slices == [k \in DOMAIN spans |-> SpanCandidates(spans[k].terms, range)]
      candidates == QueryCandidates(spans, slices, range)
      answer == MatchPage(candidates, spans, slices, range, current, size)
  IN IF CandidatesPanic(spans, slices, range) THEN [failed |-> TRUE]
     ELSE [failed |-> answer.failed, matches |-> answer.matches, next |-> answer.next,
           estimate |-> EstimatedResults(Cardinality(candidates.ids), answer, current)]

Init ==
  /\ indices \in Indices
  /\ query \in Queries
  /\ page = FirstPage
  /\ shown = <<>>
  /\ estimate = 0
  /\ status = "more"

\* What the session does with an answer.
Receive(answer) ==
  IF answer.failed
  THEN /\ status' = "failed"
       /\ UNCHANGED <<page, shown, estimate>>
  ELSE /\ shown' = shown \o answer.matches
       /\ page' = answer.next
       /\ estimate' = answer.estimate
       /\ status' = IF answer.next = NoPage THEN "done" ELSE "more"

QueryCorpus(size) ==
  /\ status = "more" /\ Len(shown) < MaxShown
  /\ Receive(Answer(page, size))
  /\ UNCHANGED <<indices, query>>

Next == \E size \in PageSizes : QueryCorpus(size)

Spec == Init /\ [][Next]_vars

-----------------------------------------------------------------------------
\* What a query means, whatever the representation of its indices.

Author == IF query.author = NoAuthor THEN Tokens
          ELSE query.author.from .. query.author.to - 1

SpanAt(span, t) ==
  /\ \A i \in DOMAIN span.terms : t + i - 1 \in indices[span.terms[i]].ids
  /\ \A b \in HardBreaks : b \notin t .. t + Len(span.terms) - 2

InReach(s, t, span) ==
  t - s \in (IF span.directed THEN 0 ELSE -span.distance) .. span.distance

WorkOf(t) == Greatest({w \in WorkStarts : w <= t})

Arrangements ==
  LET spans == query.spans
      Spot(k) == {t \in Tokens : SpanAt(spans[k], t)}
      Fits(p) == /\ \A k \in 2 .. Len(spans) : InReach(p[k - 1], p[k], spans[k])
                 /\ \A j, k \in DOMAIN spans : j # k =>
                      \/ p[j] + Len(spans[j].terms) <= p[k]
                      \/ p[k] + Len(spans[k].terms) <= p[j]
                 /\ \A j, k \in DOMAIN spans : WorkOf(p[j]) = WorkOf(p[k])
  IN {p \in [DOMAIN spans -> Tokens] : (\A k \in DOMAIN spans : p[k] \in Spot(k)) /\ Fits(p)}


\* The whole list of results, asked for as one page: there is at most one
\* result for each token.
WholeAnswer == Answer(FirstPage, NumTokens)

-----------------------------------------------------------------------------
\* Properties.

\* A match lists its spans from left to right, and the
\* next request knows how many results there were.
TypeOK ==
  /\ status \in {"more", "done", "failed"}
  /\ estimate \in Nat
  /\ \A i \in DOMAIN shown : \A j, k \in DOMAIN shown[i] :
       shown[i][j].start \in Tokens /\ (j < k => shown[i][j].start < shown[i][k].start)
  /\ (status = "done") <=> (page = NoPage)
  /\ page # NoPage => page.resultIndex = Len(shown)

\* A match of the query: an arrangement of its spans, from left to right.
Genuine(leaders) ==
  \E p \in Arrangements : leaders = SortedLeaders(p, query.spans)

\* Whatever the representations of the indices and the pages asked for, a
\* match is one: its terms are at its tokens, no hard break is inside a span,
\* neighbouring spans are in reach, no two overlap and all are in one work.
MatchesAreGenuine ==
  \A i \in DOMAIN shown : Genuine(shown[i])

\* The inductive invariant of both: with them, the corpus and the query are
\* those the session began with, and the place of the next page is one.
QueryInv ==
  /\ TypeOK /\ MatchesAreGenuine
  /\ IsIndices(indices) /\ IsQuery(query)
  /\ page \in PageData \cup {NoPage}
  /\ shown \in Seq(Seq([start : Tokens, length : Nat \ {0}]))

\* A window of both sides whose right side is cut off has a gap: what is left
\* of it is moved to the left by the whole distance.
CutOff(span, p, end) ==
  ~ span.directed /\ span.distance > 1 /\ p + Len(span.terms) - 1 + span.distance >= end

\* Every span of the arrangement is in reach of the one before it without
\* looking beyond the tokens the engine looks at.
InsideBounds(p) ==
  LET range == Bounds(query)
  IN \A k \in 2 .. Len(p) :
       /\ p[k] - query.spans[k].distance >= range.start
       /\ p[k - 1] + Len(query.spans[k].terms) <= range.end
       /\ ~ CutOff(query.spans[k], p[k], range.end)

\* A query of the whole corpus loses no token its first span can start at: it
\* is a leader of some match, for all mixtures of lists and bitmasks.  At the
\* edges of the corpus the engine does lose matches: there the window around a
\* list's entry starts at a negative bit, or a bitmask is smeared past its end.
NoAnchorLost ==
  status = "done" /\ query.author = NoAuthor =>
    \A p \in Arrangements :
      InsideBounds(p) =>
        \E i \in DOMAIN shown : \E k \in DOMAIN shown[i] : shown[i][k].start = p[1]

\* A query of the whole corpus with at most two spans is always answered: the
\* candidates promise a leader of the second span in reach, which the search
\* for the leaders then finds, or the request is an error.
ShortQueriesSucceed ==
  query.author = NoAuthor /\ Len(query.spans) <= 2 => status # "failed"

\* The pages, put together, are the beginning of the list of all results, and
\* when there is no next page they are all of it.
PagesTile ==
  status # "failed" /\ ~WholeAnswer.failed =>
    /\ IsPrefix(shown, WholeAnswer.matches)
    /\ status = "done" => Len(shown) = Len(WholeAnswer.matches)

\* The candidates that a PageData finds its place in: a list, or a bitmask
\* whose bits are the token IDs of the leaders.
Resumable ==
  LET range == Bounds(query)
      slices == [k \in DOMAIN query.spans |-> SpanCandidates(query.spans[k].terms, range)]
      candidates == QueryCandidates(query.spans, slices, range)
  IN candidates.kind = "List" \/ (candidates.position = 0 /\ range.start = 0)

\* Where the place can be found, and no result can be the one before it in
\* another order, pages of any sizes tile the list of results.
ResumablePagesTile ==
  Resumable /\ (\A k \in 2 .. Len(query.spans) : query.spans[k].directed) => PagesTile

\* A query with an author shows matches of that author only ("search in
\* author", corpus_autocomplete.tsx:145).
AuthorOnly ==
  \A i \in DOMAIN shown :
    shown[i][1].start \in Author

=============================================================================

--------------------------- MODULE QueryLanguage ---------------------------
(***************************************************************************)
(* A corpus query on its way from the search box to the query engine: the  *)
(* page's state machine that accepts the tokens, offers the next ones and  *)
(* groups them into terms; the rewriting that the page sends; the server's *)
(* parser and its check of what the engine supports.                       *)
(*                                                                         *)
(* A query is a sequence of kinds of tokens: "word" (a word, a lemma or an *)
(* inflection), "and", "or", "(", ")", "~" (proximity), "#" (author).      *)
(* A token is told from others by its place (id); 0 is an added one.       *)
(***************************************************************************)
EXTENDS Naturals, Sequences, FiniteSets, FiniteSetsExt, SequencesExt

CONSTANTS MaxTyped,  \* tokens of a query that is typed
          MaxOffered \* tokens of a query made of offered options only

VARIABLES tokens, typed

vars == <<tokens, typed>>

Kinds == {"word", "and", "or", "(", ")", "~", "#"}
Logic == {"and", "or"}

-----------------------------------------------------------------------------
\* The page's state machine.

Option(kind, next, newTerm) == [kind |-> kind, next |-> next, newTerm |-> newTerm]

\* optionsForState
OptionsForState(c) ==
  CASE c.state = "InSpan" ->
         {Option("word", "InSpan", TRUE), Option("and", "ComplexTerm", FALSE),
          Option("or", "ComplexTerm", FALSE), Option("~", "SpanStart", TRUE),
          Option("(", "ComplexTerm", TRUE)}
    [] c.state = "LastWasTerm" ->
         {Option(op, "ComplexTerm", FALSE) : op \in {o \in Logic : c.op \in {"none", o}}} \cup
         IF c.depth > 0 THEN {Option(")", "InSpan", FALSE)}
         ELSE {Option("~", "SpanStart", TRUE), Option("word", "InSpan", TRUE),
               Option("(", "ComplexTerm", TRUE)}
    [] c.state = "ComplexTerm" -> {Option("word", "LastWasTerm", FALSE)}
    [] OTHER ->
         {Option("(", "ComplexTerm", TRUE), Option("word", "InSpan", TRUE)} \cup
         IF c.state = "SpanStart" THEN {}
         ELSE {Option("#", "SpanStartOrWorkFilter", TRUE)}

Failed(c) == [c EXCEPT !.failed = TRUE]

\* One turn of the loop of feedStateMachine.
Feed(c, token) ==
  LET logical == token.kind \in Logic
      filters == c.filters + IF token.kind = "#" THEN 1 ELSE 0
      mixed == logical /\ c.op \notin {"none", token.kind}
      d == [c EXCEPT !.op = IF logical THEN token.kind ELSE @, !.filters = filters,
                     !.closed = token.kind = ")"]
      options == {o \in OptionsForState(d) : o.kind = token.kind /\ ~(d.closed /\ logical)}
  IN IF c.failed \/ mixed \/ options = {} \/ filters > 1 THEN Failed(d)
     ELSE LET o == CHOOSE o \in options : TRUE
              groups == IF o.newTerm \/ d.groups = <<>> THEN Append(d.groups, <<>>)
                        ELSE d.groups
          IN [d EXCEPT
                !.state = o.next,
                !.op = IF o.next = "InSpan" THEN "none" ELSE @,
                !.depth = CASE token.kind = "(" -> @ + 1 [] token.kind = ")" -> @ - 1
                            [] OTHER -> @,
                !.groups = [groups EXCEPT ![Len(groups)] = Append(@, token)]]

Fresh == [state |-> "SpanStartOrWorkFilter", depth |-> 0, op |-> "none", filters |-> 0,
          closed |-> FALSE, groups |-> <<>>, failed |-> FALSE]

\* feedStateMachine
FeedStateMachine(query) ==
  LET fed[n \in 0 .. Len(query)] ==
        IF n = 0 THEN Fresh ELSE Feed(fed[n - 1], [kind |-> query[n], id |-> n])
  IN fed[Len(query)]

\* findNextOptions: after a parenthesis is closed no operator may follow.
FindNextOptions(c) ==
  {o.kind : o \in {p \in OptionsForState(c) :
     /\ ~(c.closed /\ p.kind \in Logic)
     /\ ~(p.kind = "#" /\ c.filters > 0)}}

\* newTokenHelp: the query with an option that was chosen. A first operator
\* also puts a parenthesis before the word that it follows.
Chosen(query, option, options) ==
  LET n == Len(query)
      addParen == option \in Logic /\ Logic \subseteq options /\ n > 0 /\
                  ~(n > 1 /\ query[n - 1] = "(")
  IN IF addParen THEN SubSeq(query, 1, n - 1) \o <<"(", query[n], option>>
     ELSE Append(query, option)

-----------------------------------------------------------------------------
\* transformQuery: what the page sends.

Paren(kind) == <<[kind |-> kind, id |-> 0]>>

\* Mutant: only the opening parenthesis is looked at.
WrapOnce(group) ==
  IF (\A i \in DOMAIN group : group[i].kind \notin Logic) \/ group[1].kind = "(" THEN group
  ELSE Paren("(") \o group \o Paren(")")

Wrap(group) ==
  IF \A i \in DOMAIN group : group[i].kind \notin Logic THEN group
  ELSE (IF group[1].kind = "(" THEN <<>> ELSE Paren("(")) \o group \o
       (IF group[Len(group)].kind = ")" THEN <<>> ELSE Paren(")"))

TransformQuery(groups) == FlattenSeq([i \in DOMAIN groups |-> Wrap(groups[i])])

-----------------------------------------------------------------------------
\* The server's parser, on the tokens of the text (they are joined by single
\* spaces). "error" is an Err; "panic" is a slice whose end is before its start.

Failure(how) == [op |-> how, children |-> <<>>]
IsFailure(c) == c.op \in {"error", "panic"}
Atom(token) == [op |-> "atom", children |-> <<token.id>>]

StartsConstraint(kind) == kind \in {"word", "and", "or", "("}

Opens(t, i, j) == Cardinality({k \in i .. j : t[k].kind = "("})
Closes(t, i, j) == Cardinality({k \in i .. j : t[k].kind = ")"})

\* find_close_paren; 0 is an error.
FindCloseParen(t, i) ==
  LET ends == {j \in i .. Len(t) : Opens(t, i, j) = Closes(t, i, j)}
  IN IF ends = {} THEN 0 ELSE Min(ends)

\* The parentheses around t[i .. j] belong to each other.
FullyWrapped(t, i, j) ==
  i < j /\ t[i].kind = "(" /\ FindCloseParen(t, i) = j

\* parse_token_constraint, for the tokens i .. j
ParseTokenConstraint(t) ==
  LET parse[i \in 1 .. Len(t) + 1, j \in 0 .. Len(t)] ==
        IF FullyWrapped(t, i, j) THEN parse[i + 1, j - 1]
        ELSE LET balanced == /\ Opens(t, i, j) = Closes(t, i, j)
                             /\ \A k \in i .. j : Closes(t, i, k) <= Opens(t, i, k)
                 top == {k \in i + 1 .. j - 1 :
                           t[k].kind \in Logic /\ Opens(t, i, k) = Closes(t, i, k)}
                 splits == SetToSortSeq(top \cup {i - 1, j + 1}, <)
                 children == [n \in 1 .. Len(splits) - 1 |->
                                parse[splits[n] + 1, splits[n + 1] - 1]]
             IN IF ~balanced THEN Failure("error")
                ELSE IF top = {}
                THEN IF i = j /\ t[i].kind \in {"word", "and", "or"} THEN Atom(t[i])
                     ELSE Failure("error")
                ELSE IF Cardinality({t[k].kind : k \in top}) > 1 THEN Failure("error")
                ELSE IF \E k \in top : k + 1 \in top THEN Failure("panic")
                ELSE IF \E n \in DOMAIN children : IsFailure(children[n]) THEN Failure("error")
                ELSE [op |-> t[Min(top)].kind, children |-> children]
  IN parse

\* parse_relation: the text between two constraints may end in one tilde.
ParseRelation(t, i, j) ==
  IF i > j THEN "after" ELSE IF t[j].kind = "~" THEN "proximity" ELSE "error"

\* split_query and parse_query: the terms from token i on, after a relation;
\* the last one is a failure if the query is.
ParseQuery(t) ==
  LET constraint == ParseTokenConstraint(t)
      rest[i \in 1 .. Len(t) + 1, relation \in {"first", "after", "proximity"}] ==
        LET end == IF i > Len(t) THEN 0 ELSE IF t[i].kind = "(" THEN FindCloseParen(t, i) ELSE i
            nexts == {k \in end + 1 .. Len(t) : StartsConstraint(t[k].kind)}
            between == ParseRelation(t, end + 1, Min(nexts) - 1)
            tail == rest[Min(nexts), between]
            term == [relation |-> relation, constraint |-> constraint[i, end]]
            failed == <<[relation |-> relation, constraint |-> Failure("error")]>>
        IN IF end = 0 THEN failed
           ELSE IF ~StartsConstraint(t[i].kind) THEN failed
           ELSE IF IsFailure(term.constraint) \/ end = Len(t) THEN <<term>>
           ELSE IF nexts = {} THEN failed
           ELSE IF between = "error" THEN failed
           ELSE <<term>> \o tail
  IN rest[IF t # <<>> /\ t[1].kind = "#" THEN 2 ELSE 1, "first"]

\* is_query_currently_supported: atoms, and conjunctions or disjunctions of atoms.
IsQuerySupported(terms) ==
  \A i \in DOMAIN terms :
    LET c == terms[i].constraint
    IN c.op = "atom" \/ \A n \in DOMAIN c.children : c.children[n].op = "atom"

-----------------------------------------------------------------------------
Init == tokens = <<>> /\ typed = FALSE

\* The user types a token.
Type(kind) ==
  /\ Len(tokens) < MaxTyped /\ tokens' = Append(tokens, kind)
  /\ typed' = TRUE

\* The user chooses an option of the popup; "(" is never offered.
Choose(kind) ==
  LET c == FeedStateMachine(tokens)
      options == FindNextOptions(c)
  IN /\ ~typed /\ ~c.failed /\ kind \in options \ {"("}
     /\ Len(tokens) + 1 < MaxOffered
     /\ tokens' = Chosen(tokens, kind, options)
     /\ UNCHANGED typed

Next == \E kind \in Kinds : Type(kind) \/ Choose(kind)

Spec == Init /\ [][Next]_vars

-----------------------------------------------------------------------------
TypeOK == tokens \in Seq(Kinds) /\ typed \in BOOLEAN

\* What a group of the page means.
Meaning(groups) ==
  LET IsTerm(i) == groups[i][1].kind \in {"word", "("}
      Words(i) == SelectSeq(groups[i], LAMBDA token : token.kind = "word")
      Op(i) == IF Len(Words(i)) = 1 THEN "atom"
               ELSE CHOOSE op \in Logic : \E n \in DOMAIN groups[i] : groups[i][n].kind = op
      Term(i) == [relation |-> IF \A k \in 1 .. i - 1 : ~IsTerm(k) THEN "first"
                               ELSE IF groups[i - 1][1].kind = "~" THEN "proximity" ELSE "after",
                  constraint |-> IF Op(i) = "atom" THEN Atom(Words(i)[1])
                                 ELSE [op |-> Op(i), children |->
                                        [n \in DOMAIN Words(i) |-> Atom(Words(i)[n])]]]
      terms == SetToSortSeq({i \in DOMAIN groups : IsTerm(i)}, <)
  IN [n \in DOMAIN terms |-> Term(terms[n])]

Accepted == ~FeedStateMachine(tokens).failed
Complete ==
  LET c == FeedStateMachine(tokens)
  IN ~c.failed /\ c.state \in {"InSpan", "LastWasTerm"} /\ c.depth = 0
OperatorAfterParen == \E i \in 2 .. Len(tokens) : tokens[i] \in Logic /\ tokens[i - 1] = ")"

\* A complete query that the page accepts means the same to the server's
\* parser, and is one that the engine supports, except that an operator after
\* a closing parenthesis is accepted by the page and an error on the server.
UnderstoodByServer ==
  Complete /\ ~OperatorAfterParen =>
    LET groups == FeedStateMachine(tokens).groups
        terms == ParseQuery(TransformQuery(groups))
    IN terms = Meaning(groups) /\ IsQuerySupported(terms)

\* Options never lead astray: a query made of them is accepted, with no operator
\* after a parenthesis, and there always is a next option.
OffersLeadToQueries ==
  ~typed => Accepted /\ ~OperatorAfterParen /\ FindNextOptions(FeedStateMachine(tokens)) # {}

\* Both of them: what is typed, and what is put together from options.
QueriesUnderstood == UnderstoodByServer /\ OffersLeadToQueries

=============================================================================

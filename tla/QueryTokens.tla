---------------------------- MODULE QueryTokens ----------------------------
(***************************************************************************)
(* One token of a corpus query, from the letters that are typed and the    *)
(* completions that are chosen to the meaning that the server gives it.    *)
(* The page and the server name categories and values from tables of their *)
(* own, and the page helps with names, authors, lemmata and distances.     *)
(* Words and lemmata are of letters only.                                  *)
(***************************************************************************)
EXTENDS Naturals, Sequences, FiniteSets, SequencesExt, TLC

CONSTANTS
  TypedTokens,       \* what a user may type before or instead of choosing
  Authors, Lemmata,  \* what the corpus has
  SmallLetter        \* of each capital

VARIABLES
  token,    \* the token that is typed
  wanted,   \* what the option says that was chosen last, or NoMeaning
  listed,   \* the lists of authors and lemmata have arrived
  finished  \* a space follows the token

vars == <<token, wanted, listed, finished>>

\* A meaning: a category and a value, or the kind of token and what it names.
NoMeaning == <<>>

Begins(name, start) == Len(start) <= Len(name) /\ SubSeq(name, 1, Len(start)) = start
After(name, n) == SubSeq(name, n + 1, Len(name))
Lower(name) ==
  LET Small(c) == IF c \in DOMAIN SmallLetter THEN SmallLetter[c] ELSE c
      lower[n \in 0 .. Len(name)] ==
        IF n = 0 THEN "" ELSE lower[n - 1] \o Small(SubSeq(name, n, n))
  IN lower[Len(name)]

Digits == {"0", "1", "2", "3", "4", "5", "6", "7", "8", "9"}
\* How many digits a text starts with.
DigitsOf(text) ==
  CHOOSE n \in 0 .. Len(text) :
    /\ \A i \in 1 .. n : SubSeq(text, i, i) \in Digits
    /\ n < Len(text) => SubSeq(text, n + 1, n + 1) \notin Digits
MaxDistance == 15
\* Numbers up to 99; 0 for any other text.
NumberOf(text) ==
  IF \E n \in 0 .. 99 : ToString(n) = text THEN CHOOSE n \in 0 .. 99 : ToString(n) = text ELSE 0

\* The part before the first colon; all of a text without one.
ColonIn(text) == {i \in 1 .. Len(text) : SubSeq(text, i, i) = ":"}
KeyOf(text) ==
  IF ColonIn(text) = {} THEN text
  ELSE SubSeq(text, 1, (CHOOSE i \in ColonIn(text) : \A j \in ColonIn(text) : i <= j) - 1)

-----------------------------------------------------------------------------
\* The page's tables: for each category its values, long and short.
Categories == <<"lemma", "case", "tense", "voice", "person", "number", "gender", "mood">>

AllCategories ==
  [case |-> {<<"nominative", "nom">>, <<"genitive", "gen">>, <<"dative", "dat">>,
             <<"accusative", "acc">>, <<"ablative", "abl">>, <<"vocative", "voc">>},
   tense |-> {<<"present", "pres">>, <<"imperfect", "impf">>, <<"future", "fut">>,
              <<"perfect", "perf">>, <<"pluperfect", "plup">>, <<"future-perfect", "futp">>},
   voice |-> {<<"active", "act">>, <<"passive", "pass">>},
   person |-> {<<"1st", "1st">>, <<"2nd", "2nd">>, <<"3rd", "3rd">>},
   number |-> {<<"singular", "sing">>, <<"plural", "plur">>},
   gender |-> {<<"masculine", "masc">>, <<"feminine", "fem">>, <<"neuter", "neut">>},
   mood |-> {<<"indicative", "ind">>, <<"subjunctive", "subj">>, <<"imperative", "imper">>,
             <<"infinitive", "inf">>, <<"participle", "part">>, <<"gerundive", "ger">>,
             <<"supine", "supine">>}]

\* resolveKeyword: a letter stands for the first category that begins with it.
ResolveKeyword(keyword) ==
  LET begun == SelectSeq(Categories, LAMBDA c : Begins(c, keyword))
  IN IF keyword \in ToSet(Categories) THEN keyword
     ELSE IF Len(keyword) = 1 /\ begun # <<>> THEN begun[1]
     ELSE "none"

\* parseProximityToken: [error, what it means].
ParseProximityToken(text) ==
  LET rest == After(text, 1)
      n == DigitsOf(rest)
      distance == IF n = 0 THEN 5 ELSE NumberOf(SubSeq(rest, 1, n))
      end == After(rest, n)
      error == \/ ~Begins(text, "~")
               \/ distance \notin 1 .. MaxDistance
               \/ end \notin {"", ">"}
  IN [error |-> error, means |-> IF error THEN NoMeaning ELSE <<"proximity", ToString(distance), end>>]

\* errorsForToken, of a token that is finished, and what the page means by it.
PageReads(text) ==
  LET key == KeyOf(After(text, 1))
      value == After(text, Len(key) + 2)
      keyword == ResolveKeyword(key)
      pairs == {pair \in AllCategories[keyword] : value \in {pair[1], pair[2]}}
      fitting == {a \in Authors : Lower(a) = Lower(After(text, 1))}
      Read(means) == [error |-> FALSE, means |-> means]
      error == [error |-> TRUE, means |-> NoMeaning]
  IN IF Begins(text, "#")
     THEN IF fitting # {} THEN Read(<<"author", CHOOSE a \in fitting : TRUE>>)
          ELSE IF listed THEN error ELSE Read(<<"author", After(text, 1)>>)
     ELSE IF Begins(text, "@")
     THEN CASE ColonIn(text) = {} -> error
            [] key \in {"lemma", "l"} -> IF value = "" THEN error ELSE Read(<<"lemma", value>>)
            [] keyword = "none" -> error
            [] OTHER -> IF pairs = {} THEN error
                        ELSE Read(<<keyword, (CHOOSE pair \in pairs : TRUE)[1]>>)
     ELSE IF ColonIn(text) # {} THEN error
     ELSE IF \E i \in 1 .. Len(text) : SubSeq(text, i, i) = "~" THEN ParseProximityToken(text)
     ELSE Read(<<"word", text>>)

-----------------------------------------------------------------------------
\* optionsForInput, for the token that is being typed: what the input becomes,
\* what the option says ("none" if nothing yet), whether a space follows.
Offer(text, means, space) == [text |-> text, means |-> means, space |-> space]
Error == [error |-> TRUE, offers |-> {}]
Offers(offers) == [error |-> FALSE, offers |-> offers]

AuthorOptions(text) ==
  LET start == After(text, 1)
  IN Offers(IF ~listed THEN {}
            ELSE {Offer(text \o After(a, Len(start)), <<"author", a>>, TRUE) :
                    a \in {b \in Authors : Begins(Lower(b), Lower(start))}})

\* A category, or a value without its category, which is written in short forms.
KeywordOptions(text) ==
  LET start == After(text, 1)
      keys == {Offer(text \o After(c, Len(start)) \o ":", NoMeaning, FALSE) :
                 c \in {d \in ToSet(Categories) : Begins(d, start)}}
      Values(c) == {Offer("@" \o SubSeq(c, 1, 1) \o ":" \o pair[2], <<c, pair[1]>>, TRUE) :
                      pair \in {p \in AllCategories[c] : Begins(p[1], start)}}
      values == UNION {Values(c) : c \in DOMAIN AllCategories}
  IN IF start = "" THEN Offers(keys)
     ELSE IF keys \cup values = {} THEN Error ELSE Offers(keys \cup values)

\* findLemmaCompletions: all but the first letter in lower case.
LemmaOptions(text, value) ==
  LET start == SubSeq(value, 1, 1) \o Lower(After(value, 1))
      found == {lemma \in Lemmata : Begins(lemma, start)}
  IN IF value = "" \/ ~listed THEN Offers({})
     ELSE IF found = {} THEN Error
     ELSE Offers({Offer(text \o After(lemma, Len(value)), <<"lemma", lemma>>, TRUE) : lemma \in found})

\* Mutant: the completion is the short form, also where that is no completion.
ValueOptionsShort(text) ==
  LET key == KeyOf(After(text, 1))
      value == After(text, Len(key) + 2)
      keyword == ResolveKeyword(key)
      pairs == {p \in AllCategories[keyword] : Begins(p[1], value)}
  IN IF keyword = "none" THEN Error
     ELSE IF keyword = "lemma" THEN LemmaOptions(text, value)
     ELSE Offers({Offer(text \o After(p[2], Len(value)), <<keyword, p[1]>>, TRUE) : p \in pairs})

ValueOptions(text) ==
  LET key == KeyOf(After(text, 1))
      value == After(text, Len(key) + 2)
      keyword == ResolveKeyword(key)
      longer == {pair[1] : pair \in {p \in AllCategories[keyword] : Begins(p[1], value) /\ p[1] # value}}
      exact == value \in {pair[1] : pair \in AllCategories[keyword]}
  IN IF keyword = "none" THEN Error
     ELSE IF keyword = "lemma" THEN LemmaOptions(text, value)
     ELSE IF longer = {} /\ ~exact THEN Error
     ELSE Offers({Offer(text \o After(long, Len(value)), <<keyword, long>>, TRUE) : long \in longer})

ProximityOptions(text) ==
  LET read == ParseProximityToken(text)
  IN IF text = "~"
     THEN Offers({Offer("~", <<"proximity", "5", "">>, TRUE), Offer("~>", <<"proximity", "5", ">">>, TRUE)} \cup
                 {Offer("~" \o n, <<"proximity", n, "">>, TRUE) : n \in {"3", "10", "15"}})
     ELSE IF read.error THEN Error
     ELSE Offers(IF read.means[3] = ">" THEN {}
                 ELSE {Offer(text \o ">", <<"proximity", read.means[2], ">">>, FALSE)})

OptionsForInput(text) ==
  IF Begins(text, "#") THEN AuthorOptions(text)
  ELSE IF Begins(text, "@")
  THEN IF ColonIn(text) = {} THEN KeywordOptions(text) ELSE ValueOptions(text)
  ELSE IF Begins(text, "~") THEN ProximityOptions(text)
  ELSE Offers({})

-----------------------------------------------------------------------------
\* The server's tables: a set of names for each value.
InflectionNames ==
  [case |-> {{"nominative", "nom", "n", "1"}, {"accusative", "acc", "ac", "2"}, {"dative", "dat", "d", "3"},
             {"genitive", "gen", "g", "4"}, {"ablative", "abl", "ab", "5"}, {"vocative", "voc", "v", "6"},
             {"locative", "loc", "l", "7"}},
   number |-> {{"singular", "sg", "s", "1"}, {"plural", "pl", "p", "2"}},
   gender |-> {{"masculine", "m", "mas", "masc", "1"}, {"feminine", "f", "fem", "2"},
               {"neuter", "n", "neu", "neut", "3"}, {"adverbial", "adv", "a", "4"}},
   person |-> {{"first", "1st", "1", "i"}, {"second", "2nd", "2", "ii"}, {"third", "3rd", "3", "iii"}},
   mood |-> {{"indicative", "ind", "1"}, {"imperative", "imp", "2"}, {"subjunctive", "subj", "sub", "3"},
             {"participle", "part", "4"}, {"gerundive", "ger", "5"}, {"infinitive", "inf", "6"},
             {"supine", "sup", "7"}},
   voice |-> {{"active", "act", "a", "1"}, {"passive", "pass", "p", "2"}},
   tense |-> {{"present", "pres", "pr", "1"}, {"imperfect", "impf", "i", "2"}, {"perfect", "perf", "pf", "3"},
              {"futureperfect", "future_perfect", "future-perfect", "ftpf", "fp", "4"},
              {"future", "fut", "f", "5"}, {"pluperfect", "plup", "pp", "6"}},
   degree |-> {{"positive", "pos", "p", "1"}, {"comparative", "com", "cmp", "comp", "c", "2"},
               {"superlative", "sup", "s", "3"}}]

\* LatinInflection::from_str: the category by its name or letter.
FromStr(key, value) ==
  LET labels == {c \in DOMAIN InflectionNames : Lower(key) \in {c, SubSeq(c, 1, 1)}}
      label == CHOOSE c \in labels : TRUE
      named == {names \in InflectionNames[label] : Lower(value) \in names}
  IN IF labels = {} THEN NoMeaning
     ELSE IF named = {} THEN NoMeaning ELSE <<label, CHOOSE names \in named : TRUE>>

\* parse_token_atom; a lemma or a word that the corpus does not have finds nothing.
ParseTokenAtom(text) ==
  LET key == KeyOf(After(text, 1))
      value == After(text, Len(key) + 2)
  IN IF ~Begins(text, "@") THEN <<"word", text>>
     ELSE IF ColonIn(text) = {} THEN NoMeaning
     ELSE IF key \in {"l", "lemma", "w", "word"}
     THEN IF value = "" THEN NoMeaning
          ELSE <<IF key \in {"l", "lemma"} THEN "lemma" ELSE "word", value>>
     ELSE FromStr(key, value)

\* Mutant: the number is where the page writes it.
ParseRelationUnswapped(text) ==
  IF Begins(text, "~>") THEN <<"proximity", "5", ">">> ELSE <<"proximity", "5", "">>

\* parse_relation, of the text that transformQuery makes: ~3> is sent as 3~>.
ParseRelation(text) ==
  LET rest == After(text, 1)
      n == DigitsOf(rest)
      distance == IF n = 0 THEN 5 ELSE NumberOf(SubSeq(rest, 1, n))
      end == After(rest, n)
  IN IF end \notin {"", ">"} THEN NoMeaning ELSE <<"proximity", ToString(distance), end>>

\* How the server reads a token; an author must be one of the corpus.
ServerReads(text) ==
  IF Begins(text, "#")
  THEN IF After(text, 1) \in Authors THEN <<"author", After(text, 1)>> ELSE NoMeaning
  ELSE IF Begins(text, "~") THEN ParseRelation(text)
  ELSE ParseTokenAtom(text)

-----------------------------------------------------------------------------
Init == token = "" /\ wanted = NoMeaning /\ listed = FALSE /\ finished = FALSE

Type(text) ==
  /\ token = "" /\ token' = text
  /\ UNCHANGED <<wanted, listed, finished>>

\* An option that is no placeholder replaces the input.
Choose(offer) ==
  /\ token # "" /\ ~finished /\ offer \in OptionsForInput(token).offers
  /\ token' = offer.text /\ wanted' = offer.means /\ finished' = offer.space
  /\ UNCHANGED listed

Finish == token # "" /\ ~finished /\ finished' = TRUE /\ UNCHANGED <<token, wanted, listed>>

ListsArrive == ~listed /\ listed' = TRUE /\ UNCHANGED <<token, wanted, finished>>

Next ==
  \/ \E text \in TypedTokens : Type(text)
  \/ \E offer \in OptionsForInput(token).offers : Choose(offer)
  \/ Finish
  \/ ListsArrive

Spec == Init /\ [][Next]_vars

-----------------------------------------------------------------------------
TypeOK ==
  /\ token \in STRING /\ wanted \in Seq(STRING)
  /\ listed \in BOOLEAN /\ finished \in BOOLEAN

\* The server takes what the page means: one of the names of a value, or the same text.
Agree(page, server) ==
  IF page[1] \in DOMAIN InflectionNames
  THEN server # NoMeaning /\ page[1] = server[1] /\ page[2] \in server[2]
  ELSE page = server

\* Short forms that the page accepts, and writes itself, and the server does not know.
OnlyOnPage == {"sing", "plur", "imper", "futp"}
OtherwiseWritten ==
  \/ \E short \in OnlyOnPage : Len(token) > Len(short) /\ After(token, Len(token) - Len(short)) = short
  \/ \E a \in Authors : Lower(token) = Lower("#" \o a) /\ token # "#" \o a
  \/ Begins(token, "#") /\ ~listed

\* A finished token without an error on the page means the same to the server,
\* except for the short forms above and authors in other letters.
AcceptedIsRead ==
  finished /\ ~PageReads(token).error /\ ~OtherwiseWritten =>
    Agree(PageReads(token).means, ServerReads(token))

\* An option leads to a token that the page accepts and that means what the
\* option says; but a lemma keeps the capitals that were typed inside it.
ChosenIsMeant ==
  finished /\ wanted # NoMeaning =>
    /\ ~PageReads(token).error
    /\ \/ wanted = PageReads(token).means
       \/ wanted[1] = "lemma" /\ Lower(PageReads(token).means[2]) = Lower(wanted[2])

\* The popup reports no token as wrong that can still become one that is
\* accepted, except lemmata that the corpus does not have, and short forms that
\* do not begin their long form.
WarnsInTime ==
  LET key == KeyOf(After(token, 1))
      value == After(token, Len(key) + 2)
  IN ~finished /\ OptionsForInput(token).error /\ ~(Begins(token, "@l") /\ value # "") =>
       \A text \in TypedTokens :
         Begins(text, token) /\ ~PageReads(text).error =>
           \E c \in DOMAIN AllCategories : \E pair \in AllCategories[c] :
             After(text, Len(key) + 2) = pair[2] /\ ~Begins(pair[1], value)

TokensUnderstood == AcceptedIsRead /\ ChosenIsMeant /\ WarnsInTime

=============================================================================

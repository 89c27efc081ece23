--------------------------- MODULE DictionaryPage ---------------------------
(***************************************************************************)
(* The dictionary, as a page of its own or embedded in the reader: what it *)
(* asks the server depends on the route (or on the word that the reader    *)
(* passes), the chosen dictionaries and the global settings, each of which *)
(* may change while a request is open.  Back and Forward lead to any route *)
(* that was visited.                                                       *)
(***************************************************************************)
EXTENDS Naturals, Sequences, FiniteSets

CONSTANTS
  LatinDicts, OtherDicts, \* dictionaries by the language of their headwords
  Words, GreekWords,
  NoWord,
  MaxLookups              \* requests

VARIABLES
  dictPage,    \* "closed", "page" or "embedded"
  dictRoute,   \* query, lang, dicts (AllDicts is undefined), inflected
  visited,     \* routes of the history
  initial,     \* the word of the reader
  dictsToUse, inflectedSearch,
  lookups,     \* requests: input, whether open
  lookup,      \* the current one, or 0
  lookedUp,    \* the input of the last render
  dictState,   \* the state and, for results, the input they answer
  internalLink \* fromInternalLink

routeVars == <<dictPage, dictRoute, visited, initial, dictsToUse, inflectedSearch>>
vars == <<routeVars, lookups, lookup, lookedUp, dictState, internalLink>>

AllDicts == LatinDicts \cup OtherDicts
Langs == {"any", "La"}
OfLang(dicts, lang) == IF lang = "La" THEN dicts \cap LatinDicts ELSE dicts

NoInput == [query |-> NoWord, dicts |-> {}, inflected |-> FALSE]
Landing == [query |-> NoWord, lang |-> "any", dicts |-> AllDicts, inflected |-> FALSE]

Init ==
  /\ dictPage = "closed" /\ dictRoute = Landing /\ visited = {Landing} /\ initial = NoWord
  /\ dictsToUse = AllDicts /\ inflectedSearch = FALSE
  /\ lookups = <<>> /\ lookup = 0 /\ lookedUp = NoInput
  /\ dictState = [kind |-> "Landing", input |-> NoInput] /\ internalLink = FALSE

-----------------------------------------------------------------------------
Query == IF dictPage = "embedded" THEN initial ELSE dictRoute.query
Greek == dictPage = "embedded" /\ initial \in GreekWords

ApiRequest ==
  IF Query = NoWord \/ Greek THEN NoInput
  ELSE [query |-> Query, inflected |-> inflectedSearch \/ dictRoute.inflected,
        dicts |-> OfLang(IF dictPage = "embedded" THEN dictsToUse ELSE dictRoute.dicts,
                         dictRoute.lang)]

\* Mutant: the inflection setting is not a dependency of the request.
RenderOfWord ==
  LET input == ApiRequest'
  IN /\ lookedUp' = input
     /\ IF [input EXCEPT !.inflected = lookedUp.inflected] = lookedUp
        THEN UNCHANGED <<lookups, lookup, dictState>>
        ELSE IF input = NoInput THEN lookup' = 0 /\ UNCHANGED <<lookups, dictState>>
        ELSE /\ lookups' = Append(lookups, [input |-> input, open |-> TRUE])
             /\ lookup' = Len(lookups) + 1
             /\ dictState' = [kind |-> "Loading", input |-> input]

\* The render that follows a change, with useApiCall.
Render ==
  LET input == ApiRequest'
  IN /\ lookedUp' = input
     /\ IF input = lookedUp THEN UNCHANGED <<lookups, lookup, dictState>>
        ELSE IF input = NoInput THEN lookup' = 0 /\ UNCHANGED <<lookups, dictState>>
        ELSE /\ lookups' = Append(lookups, [input |-> input, open |-> TRUE])
             /\ lookup' = Len(lookups) + 1
             /\ dictState' = [kind |-> "Loading", input |-> input]

MayAct == dictPage # "closed" /\ Len(lookups) < MaxLookups

Open(how) ==
  /\ dictPage = "closed" /\ dictPage' = how
  /\ dictsToUse' = IF how = "embedded" THEN dictsToUse \cap LatinDicts ELSE dictsToUse
  /\ UNCHANGED <<dictRoute, visited, initial, inflectedSearch, internalLink>>
  /\ Render

\* onSearchQuery. Dictionaries are named only if not all of the language are used.
OnSearchQuery(word, lang, inflected) ==
  /\ MayAct
  /\ IF dictPage = "embedded"
     THEN initial' = word /\ UNCHANGED <<dictRoute, visited>>
     ELSE /\ dictRoute' =
               [query |-> word, lang |-> lang, inflected |-> inflected,
                dicts |-> IF OfLang(AllDicts, lang) = OfLang(dictsToUse, lang) THEN AllDicts
                          ELSE OfLang(dictsToUse, lang)]
          /\ visited' = visited \cup {dictRoute'}
          /\ UNCHANGED initial
  /\ UNCHANGED <<dictPage, dictsToUse, inflectedSearch>>

\* The search box: Enter searches in all languages, an option in its own.
Search(word, lang) ==
  OnSearchQuery(word, lang, inflectedSearch) /\ UNCHANGED internalLink /\ Render

\* A Latin word in an entry is clicked.
ClickWord(word) ==
  /\ dictState.kind = "Results" /\ ~Greek
  /\ OnSearchQuery(word, "La", TRUE) /\ internalLink' = TRUE /\ Render

\* The reader passes another word.
PassWord(word) ==
  /\ MayAct /\ dictPage = "embedded" /\ initial' = word
  /\ UNCHANGED <<dictPage, dictRoute, visited, dictsToUse, inflectedSearch, internalLink>>
  /\ Render

PopState(route) ==
  /\ MayAct /\ dictPage = "page" /\ dictRoute' = route
  /\ UNCHANGED <<dictPage, visited, initial, dictsToUse, inflectedSearch, internalLink>>
  /\ Render

\* A dictionary is checked, or not any more.
SetDicts(dict) ==
  /\ MayAct
  /\ dictsToUse' = IF dict \in dictsToUse THEN dictsToUse \ {dict} ELSE dictsToUse \cup {dict}
  /\ UNCHANGED <<dictPage, dictRoute, visited, initial, inflectedSearch, internalLink>>
  /\ Render

ToggleInflected ==
  /\ MayAct /\ inflectedSearch' = ~inflectedSearch
  /\ UNCHANGED <<dictPage, dictRoute, visited, initial, dictsToUse, internalLink>>
  /\ Render

\* An answer, or a failure, of which only that of the current request counts;
\* results are scrolled to, which uses up the flag.
Answer(l, kind) ==
  /\ lookups[l].open /\ lookups' = [lookups EXCEPT ![l].open = FALSE]
  /\ dictState' = IF l = lookup THEN [kind |-> kind, input |-> lookups[l].input] ELSE dictState
  /\ internalLink' = (internalLink /\ ~(l = lookup /\ kind = "Results"))
  /\ UNCHANGED <<routeVars, lookup, lookedUp>>

Next ==
  \/ \E how \in {"page", "embedded"} : Open(how)
  \/ \E word \in Words, lang \in Langs : Search(word, lang)
  \/ \E word \in Words : ClickWord(word)
  \/ \E word \in Words \cup GreekWords : PassWord(word)
  \/ \E route \in visited : PopState(route)
  \/ \E dict \in AllDicts : SetDicts(dict)
  \/ ToggleInflected
  \/ \E l \in DOMAIN lookups, kind \in {"Results", "No Results", "Error"} : Answer(l, kind)

Spec == Init /\ [][Next]_vars

-----------------------------------------------------------------------------
AnyWord == Words \cup GreekWords \cup {NoWord}
Inputs == [query : AnyWord, dicts : SUBSET AllDicts, inflected : BOOLEAN]

TypeOK ==
  /\ dictPage \in {"closed", "page", "embedded"}
  /\ dictRoute \in visited
  /\ visited \subseteq [query : AnyWord, lang : Langs, dicts : SUBSET AllDicts,
                        inflected : BOOLEAN]
  /\ initial \in AnyWord /\ dictsToUse \subseteq AllDicts
  /\ {inflectedSearch, internalLink} \subseteq BOOLEAN
  /\ lookups \in Seq([input : Inputs, open : BOOLEAN]) /\ lookup \in 0 .. Len(lookups)
  /\ lookedUp \in Inputs
  /\ dictState \in [kind : {"Landing", "Loading", "Error", "No Results", "Results"},
                    input : Inputs]

\* What the page shows for a word is the answer to what the route, the chosen
\* dictionaries and the settings ask now, and while it says that it is loading
\* its request is open; whatever was asked, answered, toggled and gone back to
\* in the meantime. A route without a word is excluded: it keeps what was
\* shown before, even "Loading".
EntriesFitRoute ==
  Query # NoWord /\ ~Greek /\ dictPage # "closed" =>
    /\ dictState.kind # "Landing" /\ dictState.input = ApiRequest
    /\ dictState.kind = "Loading" => lookup # 0 /\ lookups[lookup].open

=============================================================================

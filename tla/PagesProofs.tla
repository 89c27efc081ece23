---------------------------- MODULE PagesProofs -----------------------------
(***************************************************************************)
(* Theorems about the pages of Scenes, for every value of their constants: *)
(* the types and the invariant of each, and what Scenes says of it.        *)
(***************************************************************************)
EXTENDS Scenes, FiniteSetTheorems, SequenceTheorems, WellFoundedInduction, TLAPS

-----------------------------------------------------------------------------
\* The search box.

Fetch == [text : InputTexts, state : {"pending", "done", "failed"}]

BoxInv == Search!TypeOK /\ Search!BoxFitsInput

\* A record of the same shape as the options.
LEMMA OptionsRecord ==
  ASSUME options \in [of : InputTexts, count : 0 .. MaxOptions]
  PROVE  options.of \in InputTexts /\ options.count \in 0 .. MaxOptions
OBVIOUS

\* A new fetch is pending for the text it was started with.
LEMMA Refreshed ==
  ASSUME fetches \in Seq(Fetch), NEW text \in InputTexts, Search!Refresh(text)
  PROVE  /\ loading' = TRUE
         /\ fetches' \in Seq(Fetch)
         /\ \E i \in DOMAIN fetches' : fetches'[i] = [text |-> text, state |-> "pending"]
<1>1. loading' = TRUE /\ fetches' = Append(fetches, [text |-> text, state |-> "pending"])
  BY DEF Search!Refresh
<1>2. [text |-> text, state |-> "pending"] \in Fetch
  BY DEF Fetch
<1>3. fetches' \in Seq(Fetch)
  BY <1>1, <1>2
<1>4. /\ Len(fetches) + 1 \in DOMAIN fetches'
      /\ fetches'[Len(fetches) + 1] = [text |-> text, state |-> "pending"]
  BY <1>1
<1> QED
  BY <1>1, <1>3, <1>4

\* Whatever puts a text into the box and asks for its options keeps the
\* invariant: the options of the old text are not shown while it loads.
LEMMA NewText ==
  ASSUME Search!ConstantsFit, BoxInv, NEW text \in InputTexts, Search!Refresh(text), input' = text,
         effectDue' \in BOOLEAN, focused' \in BOOLEAN, interacting' \in BOOLEAN,
         UNCHANGED options, cursor' \in {cursor, -1}
  PROVE  BoxInv'
<1>1. /\ fetches \in Seq(Fetch) /\ options \in [of : InputTexts, count : 0 .. MaxOptions]
      /\ cursor \in -1 .. MaxOptions - 1 /\ cursor < options.count
  BY DEF BoxInv, Search!TypeOK, Search!BoxFitsInput, Search!CursorOnOption, Fetch
<1>2. /\ loading' = TRUE
      /\ fetches' \in Seq(Fetch)
      /\ \E i \in DOMAIN fetches' : fetches'[i] = [text |-> text, state |-> "pending"]
  BY <1>1, Refreshed
<1>3. cursor' \in -1 .. MaxOptions - 1 /\ cursor' < options'.count
  BY <1>1, OptionsRecord DEF Search!ConstantsFit
<1>4. Search!TypeOK'
  BY <1>1, <1>2, <1>3 DEF Search!TypeOK, Fetch
<1>5. Search!BoxFitsInput'
  BY <1>2, <1>3 DEF Search!BoxFitsInput, Search!CursorOnOption, Search!OptionsFitInput, Search!LoadingHasReason
<1> QED
  BY <1>4, <1>5 DEF BoxInv

\* The end of a fetch changes the state of that fetch only.
LEMMA Settled ==
  ASSUME fetches \in Seq(Fetch), NEW i \in DOMAIN fetches, NEW s \in {"done", "failed"}, Search!Settle(i, s)
  PROVE  /\ fetches' \in Seq(Fetch) /\ DOMAIN fetches' = DOMAIN fetches
         /\ fetches[i] \in Fetch
         /\ fetches'[i] = [text |-> fetches[i].text, state |-> s]
         /\ \A j \in DOMAIN fetches : j # i => fetches'[j] = fetches[j]
<1>1. fetches' = [fetches EXCEPT ![i].state = s]
  BY DEF Search!Settle
<1>2. fetches[i] \in Fetch
  OBVIOUS
<1>3. [fetches[i] EXCEPT !.state = s] = [text |-> fetches[i].text, state |-> s]
  BY <1>2 DEF Fetch
<1>4. [text |-> fetches[i].text, state |-> s] \in Fetch
  BY <1>2 DEF Fetch
<1>5. fetches' = [fetches EXCEPT ![i] = [text |-> fetches[i].text, state |-> s]]
  BY <1>1, <1>3
<1>6. fetches' \in Seq(Fetch)
  BY <1>4, <1>5
<1> QED
  BY <1>2, <1>5, <1>6

LEMMA InitBox ==
  ASSUME Search!ConstantsFit
  PROVE  Search!Init => BoxInv
<1> SUFFICES ASSUME Search!Init PROVE BoxInv
  OBVIOUS
<1>1. fetches \in Seq([text : InputTexts, state : {"pending", "done", "failed"}])
  BY DEF Search!Init
<1>2. Search!TypeOK
  <2>1. /\ loading = FALSE /\ focused = FALSE /\ interacting = FALSE /\ effectDue = EmptyHasOptions
        /\ input = EmptyText /\ options = [of |-> EmptyText, count |-> 0] /\ cursor = -1
    BY DEF Search!Init
  <2>2. cursor \in -1 .. MaxOptions - 1 /\ 0 \in 0 .. MaxOptions
    BY <2>1 DEF Search!ConstantsFit
  <2>3. input \in InputTexts /\ options \in [of : InputTexts, count : 0 .. MaxOptions]
    BY <2>1, <2>2 DEF Search!ConstantsFit
  <2>4. {loading, focused, interacting, effectDue} \subseteq BOOLEAN
    BY <2>1 DEF Search!ConstantsFit
  <2> QED
    BY <1>1, <2>2, <2>3, <2>4 DEF Search!TypeOK
<1>3. Search!BoxFitsInput
  BY DEF Search!Init, Search!BoxFitsInput, Search!CursorOnOption, Search!OptionsFitInput, Search!LoadingHasReason
<1> QED
  BY <1>2, <1>3 DEF BoxInv

\* Every step preserves the invariant.
LEMMA NextBox ==
  ASSUME Search!ConstantsFit
  PROVE  BoxInv /\ [Search!Next]_(Search!vars) => BoxInv'
<1> SUFFICES ASSUME BoxInv, [Search!Next]_(Search!vars) PROVE BoxInv'
  OBVIOUS
<1>0. /\ Search!TypeOK /\ Search!BoxFitsInput /\ fetches \in Seq(Fetch) /\ input \in InputTexts
      /\ options \in [of : InputTexts, count : 0 .. MaxOptions]
      /\ options.of \in InputTexts /\ options.count \in 0 .. MaxOptions
      /\ cursor \in -1 .. MaxOptions - 1 /\ cursor < options.count
      /\ loading \in BOOLEAN /\ focused \in BOOLEAN /\ interacting \in BOOLEAN
      /\ effectDue \in BOOLEAN /\ MaxOptions \in Nat
  BY DEF BoxInv, Search!TypeOK, Search!BoxFitsInput, Search!CursorOnOption, Fetch, Search!ConstantsFit
<1>b. -1 \in -1 .. MaxOptions - 1 /\ -1 < options.count
  BY <1>0
<1>a. EmptyText \in InputTexts /\ EmptyHasOptions \in BOOLEAN
  BY DEF Search!ConstantsFit
<1>1. ASSUME NEW text \in InputTexts, Search!Type(text) PROVE BoxInv'
  BY <1>0, <1>1, <1>a, NewText DEF Search!Type, Search!SetInput
<1>2. ASSUME UNCHANGED <<input, options, loading, fetches>>,
             cursor' \in -1 .. MaxOptions - 1, cursor' < options.count,
             effectDue' \in BOOLEAN, focused' \in BOOLEAN, interacting' \in BOOLEAN
      PROVE  BoxInv'
  BY <1>0, <1>2 DEF BoxInv, Search!TypeOK, Search!BoxFitsInput, Search!CursorOnOption, Search!OptionsFitInput,
                    Search!LoadingHasReason, Fetch
<1>3. ASSUME NEW text \in InputTexts, Search!Choose(text) PROVE BoxInv'
  <2>1. /\ cursor' = -1 /\ interacting' = FALSE /\ UNCHANGED options
        /\ \/ focused' = FALSE /\ UNCHANGED <<input, loading, fetches, effectDue>>
           \/ focused' = TRUE /\ Search!SetInput(text)
    BY <1>3 DEF Search!Choose
  <2>2. CASE focused' = FALSE /\ UNCHANGED <<input, loading, fetches, effectDue>>
    BY <1>0, <1>2, <1>b, <2>1, <2>2
  <2>3. CASE focused' = TRUE /\ Search!SetInput(text)
    BY <1>0, <1>a, <2>1, <2>3, NewText DEF Search!SetInput
  <2> QED
    BY <2>1, <2>2, <2>3
<1>4. ASSUME Search!EmptyInputEffect PROVE BoxInv'
  BY <1>0, <1>4, <1>a, NewText DEF Search!EmptyInputEffect
<1>5. ASSUME Search!SourceChanges PROVE BoxInv'
  BY <1>0, <1>2, <1>5 DEF Search!SourceChanges
<1>6. ASSUME Search!MoveInText PROVE BoxInv'
  BY <1>0, <1>6, NewText DEF Search!MoveInText
<1>7. ASSUME Search!Clear PROVE BoxInv'
  BY <1>0, <1>7, <1>a, NewText DEF Search!Clear, Search!SetInput
<1>8. ASSUME NEW i \in DOMAIN fetches, Search!Reject(i) PROVE BoxInv'
  <2>1. /\ Search!Settle(i, "failed")
        /\ UNCHANGED <<input, options, loading, cursor, focused, interacting, effectDue>>
    BY <1>8 DEF Search!Reject
  <2>2. /\ fetches' \in Seq(Fetch) /\ DOMAIN fetches' = DOMAIN fetches
        /\ fetches'[i] = [text |-> fetches[i].text, state |-> "failed"]
        /\ \A j \in DOMAIN fetches : j # i => fetches'[j] = fetches[j]
    BY <1>0, <2>1, Settled
  <2>3. Search!LoadingHasReason'
    <3> SUFFICES ASSUME loading
                 PROVE  \E j \in DOMAIN fetches' :
                          fetches'[j].text = input /\ fetches'[j].state \in {"pending", "failed"}
      BY <2>1 DEF Search!LoadingHasReason
    <3>1. PICK j \in DOMAIN fetches :
                 fetches[j].text = input /\ fetches[j].state \in {"pending", "failed"}
      BY <1>0 DEF Search!BoxFitsInput, Search!LoadingHasReason
    <3> QED
      BY <2>2, <3>1
  <2> QED
    BY <1>0, <2>1, <2>2, <2>3 DEF BoxInv, Search!TypeOK, Search!BoxFitsInput, Search!CursorOnOption, Search!OptionsFitInput, Fetch
<1>9. ASSUME NEW i \in DOMAIN fetches, NEW count \in 0 .. MaxOptions, Search!Arrive(i, count) PROVE BoxInv'
  <2>1. Search!Settle(i, "done") /\ UNCHANGED <<input, focused, interacting, effectDue>>
    BY <1>9 DEF Search!Arrive
  <2>2. /\ fetches' \in Seq(Fetch) /\ DOMAIN fetches' = DOMAIN fetches /\ fetches[i] \in Fetch
        /\ fetches'[i] = [text |-> fetches[i].text, state |-> "done"]
        /\ \A j \in DOMAIN fetches : j # i => fetches'[j] = fetches[j]
    BY <1>0, <2>1, Settled
  <2>3. CASE fetches[i].text = input
    <3>1. options' = [of |-> input, count |-> count] /\ cursor' = -1 /\ loading' = FALSE
      BY <1>9, <2>3 DEF Search!Arrive
    <3>2. Search!TypeOK'
      <4>1. options' \in [of : InputTexts, count : 0 .. MaxOptions]
        BY <1>0, <3>1
      <4> QED
        BY <1>0, <1>b, <2>1, <2>2, <3>1, <4>1 DEF Search!TypeOK, Fetch
    <3>3. Search!BoxFitsInput'
      BY <1>0, <2>1, <3>1 DEF Search!BoxFitsInput, Search!CursorOnOption, Search!OptionsFitInput, Search!LoadingHasReason
    <3> QED
      BY <3>2, <3>3 DEF BoxInv
  <2>4. CASE fetches[i].text # input
    <3>1. UNCHANGED <<options, cursor, loading>>
      BY <1>9, <2>4 DEF Search!Arrive
    <3>2. Search!LoadingHasReason'
      <4> SUFFICES ASSUME loading
                   PROVE  \E j \in DOMAIN fetches' :
                            fetches'[j].text = input /\ fetches'[j].state \in {"pending", "failed"}
        BY <2>1, <3>1 DEF Search!LoadingHasReason
      <4>1. PICK j \in DOMAIN fetches :
                   fetches[j].text = input /\ fetches[j].state \in {"pending", "failed"}
        BY <1>0 DEF Search!BoxFitsInput, Search!LoadingHasReason
      <4> QED
        BY <2>2, <2>4, <4>1
    <3> QED
      BY <1>0, <2>1, <2>2, <3>1, <3>2
         DEF BoxInv, Search!TypeOK, Search!BoxFitsInput, Search!CursorOnOption, Search!OptionsFitInput, Fetch
  <2> QED
    BY <2>3, <2>4
<1>10. ASSUME NEW step \in {1, -1}, Search!Arrow(step) PROVE BoxInv'
  <2>1. /\ cursor' = (cursor + step) % options.count /\ options.count > 0
        /\ UNCHANGED <<input, options, loading, focused, interacting, fetches, effectDue>>
    BY <1>10 DEF Search!Arrow
  <2>2. cursor' \in 0 .. options.count - 1
    <3>1. cursor + step \in Int /\ options.count \in Nat \ {0}
      BY <1>0, <2>1
    <3> QED
      BY <2>1, <3>1
  <2> QED
    BY <1>0, <1>2, <2>1, <2>2
<1>11. ASSUME NEW i \in 0 .. MaxOptions - 1, Search!Hover(i) PROVE BoxInv'
  BY <1>0, <1>2, <1>11 DEF Search!Hover
<1>12. ASSUME Search!LeavePopup \/ Search!EnterText \/ Search!Focus \/ Search!Blur PROVE BoxInv'
  BY <1>0, <1>2, <1>12, <1>b DEF Search!LeavePopup, Search!EnterText, Search!Focus, Search!Blur
<1>13. CASE UNCHANGED Search!vars
  BY <1>0, <1>2, <1>13 DEF Search!vars
<1> QED
  BY <1>1, <1>3, <1>4, <1>5, <1>6, <1>7, <1>8, <1>9, <1>10, <1>11, <1>12, <1>13 DEF Search!Next

\* Every variable of the box keeps its type in every behaviour.
THEOREM BoxTypeCorrect ==
  ASSUME Search!ConstantsFit
  PROVE  Search!Spec => []Search!TypeOK
<1>1. BoxInv => Search!TypeOK
  BY DEF BoxInv
<1> QED
  BY <1>1, InitBox, NextBox, PTL DEF Search!Spec

\* The box never selects an option that is not there and never shows the options
\* of another text, whatever is typed and in whatever order answers arrive or
\* fail; and while it loads, a fetch for its text is pending or has failed, after
\* which nothing promises that it ends (BoxFitsInput).
THEOREM BoxAlwaysFitsInput ==
  ASSUME Search!ConstantsFit
  PROVE  Search!Spec => []BoxFitsInput
<1>1. BoxInv => BoxFitsInput
  BY DEF BoxInv, BoxFitsInput
<1> QED
  BY <1>1, InitBox, NextBox, PTL DEF Search!Spec

-----------------------------------------------------------------------------
\* The corpus page.

Entry == [path : {"corpus", "other"}, query : Queries, settings : Settings,
          cp : Corpus!PageTokens, np : Corpus!PageTokens]
Call == [input : Corpus!Requests, open : BOOLEAN, current : BOOLEAN, mounted : BOOLEAN]
Shown == [kind : {"N/A", "Loading", "Error", "Found"}, input : Corpus!Inputs]

\* Routes and inputs.

LEMMA TokensThere ==
  ASSUME Corpus!ConstantsFit
  PROVE  Corpus!NoPage \in Corpus!PageTokens /\ Corpus!NullPage \in Corpus!PageTokens
         /\ Corpus!NoInput \in Corpus!Inputs
BY DEF Corpus!ConstantsFit, Corpus!NoPage, Corpus!NullPage, Corpus!NoInput, Corpus!Input,
   Corpus!PageTokens, Corpus!Inputs

LEMMA CorpusRouteIsEntry ==
  ASSUME NEW query \in Queries, NEW settings \in Settings,
         NEW cp \in Corpus!PageTokens, NEW np \in Corpus!PageTokens
  PROVE  /\ Corpus!CorpusRoute(query, settings, cp, np) \in Entry
         /\ Corpus!CorpusRoute(query, settings, cp, np).path = "corpus"
         /\ Corpus!CorpusRoute(query, settings, cp, np).query = query
         /\ Corpus!CorpusRoute(query, settings, cp, np).settings = settings
         /\ Corpus!CorpusRoute(query, settings, cp, np).cp = cp
         /\ Corpus!CorpusRoute(query, settings, cp, np).np = np
BY DEF Corpus!CorpusRoute, Entry

\* An entry of the history has a request unless it has no query or no page.
LEMMA Requested ==
  ASSUME Corpus!ConstantsFit, NEW route \in Entry
  PROVE  /\ Corpus!ApiRequest(route) \in Corpus!Inputs
         /\ Corpus!ApiRequest(route) # Corpus!NoInput <=> route.query # "" /\ route.cp # Corpus!NullPage
         /\ Corpus!ApiRequest(route) # Corpus!NoInput =>
              /\ Corpus!ApiRequest(route) \in Corpus!Requests
              /\ Corpus!ApiRequest(route) = Corpus!Input(route.query, route.settings, route.cp)
<1>1. Corpus!NoInput \in Corpus!Inputs /\ Corpus!NoInput.query = ""
  BY TokensThere DEF Corpus!NoInput, Corpus!Input
<1>2. route.query \in Queries /\ route.settings \in Settings /\ route.cp \in Corpus!PageTokens
  BY DEF Entry
<1>3. /\ Corpus!Input(route.query, route.settings, route.cp) \in Corpus!Inputs
      /\ Corpus!Input(route.query, route.settings, route.cp).query = route.query
  BY <1>2 DEF Corpus!Input, Corpus!Inputs
<1> QED
  BY <1>1, <1>2, <1>3 DEF Corpus!ApiRequest, Corpus!Requests

LEMMA TokenPage ==
  ASSUME Corpus!ConstantsFit, NEW p \in Corpus!PageTokens
  PROVE  p.page \in Nat
<1>1. CASE p \in {Corpus!NoPage, Corpus!NullPage}
  <2>1. Corpus!NoPage.page = 0 /\ Corpus!NullPage.page = 1
    BY DEF Corpus!NoPage, Corpus!NullPage
  <2> QED
    BY <1>1, <2>1
<1>2. CASE p \in [query : Queries \ {""}, page : 1 .. Pages]
  <2>1. PICK n \in 1 .. Pages : n = p.page
    BY <1>2
  <2>2. Pages \in Nat
    BY DEF Corpus!ConstantsFit
  <2>3. n \in Nat
    BY <2>2
  <2> QED
    BY <2>1, <2>3
<1> QED
  BY <1>1, <1>2 DEF Corpus!PageTokens

\* The token of the next page is one of the query that was asked, and its page
\* the one after the page that was asked.
LEMMA NextToken ==
  ASSUME Corpus!ConstantsFit, NEW request \in Corpus!Requests
  PROVE  /\ Corpus!NextPage(request) \in Corpus!PageTokens
         /\ Corpus!IsToken(Corpus!NextPage(request)) =>
              Corpus!NextPage(request).query = request.query
              /\ Corpus!NextPage(request).page = request.cp.page + 1
<1>1. request.query \in Queries \ {""} /\ request.cp \in Corpus!PageTokens
  BY DEF Corpus!Requests, Corpus!Inputs
<1>2. request.cp.page \in Nat
  BY <1>1, TokenPage
<1>3. Corpus!NullPage \in Corpus!PageTokens /\ ~Corpus!IsToken(Corpus!NullPage)
  BY TokensThere DEF Corpus!IsToken, Corpus!NullPage
<1>4. CASE request.cp.page + 1 < Pages
  <2>1. Corpus!NextPage(request) = [query |-> request.query, page |-> request.cp.page + 1]
    BY <1>4 DEF Corpus!NextPage, Corpus!Token
  <2>2. PICK m \in Nat : m = request.cp.page
    BY <1>2
  <2>3. Pages \in Nat /\ m + 1 < Pages
    BY <1>4, <2>2 DEF Corpus!ConstantsFit
  <2>4. m + 1 \in 1 .. Pages
    BY <2>3
  <2>5. Corpus!NextPage(request) = [query |-> request.query, page |-> m + 1]
    BY <2>1, <2>2
  <2>6. Corpus!NextPage(request) \in [query : Queries \ {""}, page : 1 .. Pages]
    <3>1. \A n \in 1 .. Pages : \A q \in Queries \ {""} :
            [query |-> q, page |-> n] \in [query : Queries \ {""}, page : 1 .. Pages]
      OBVIOUS
    <3> QED
      BY <1>1, <2>4, <2>5, <3>1
  <2>7. Corpus!NextPage(request).query = request.query /\ Corpus!NextPage(request).page = m + 1
    BY <2>5
  <2> QED
    BY <2>2, <2>6, <2>7 DEF Corpus!PageTokens
<1>5. CASE ~(request.cp.page + 1 < Pages)
  BY <1>3, <1>5 DEF Corpus!NextPage
<1> QED
  BY <1>4, <1>5

LEMMA Prefix ==
  ASSUME NEW S, NEW s \in Seq(S), NEW n \in Nat, n <= Len(s)
  PROVE  /\ SubSeq(s, 1, n) \in Seq(S) /\ Len(SubSeq(s, 1, n)) = n
         /\ \A i \in 1 .. n : SubSeq(s, 1, n)[i] = s[i]
<1>1. \A i \in 1 .. n : s[i] \in S
  OBVIOUS
<1>2. /\ SubSeq(s, 1, n) \in Seq(S)
      /\ Len(SubSeq(s, 1, n)) = IF 1 <= n THEN n - 1 + 1 ELSE 0
      /\ \A i \in 1 .. n - 1 + 1 : SubSeq(s, 1, n)[i] = s[1 + i - 1]
  BY <1>1, SubSeqProperties
<1>3. n - 1 + 1 = n /\ (~(1 <= n) => n = 0) /\ \A i \in 1 .. n : 1 + i - 1 = i
  OBVIOUS
<1> QED
  BY <1>2, <1>3

\* After a push the history ends with the route; what is before it is as it was.
LEMMA Pushed ==
  ASSUME entries \in Seq(Entry), at \in DOMAIN entries, NEW route \in Entry, Corpus!Push(route)
  PROVE  /\ entries' \in Seq(Entry) /\ at' \in DOMAIN entries' /\ entries'[at'] = route
         /\ \A i \in DOMAIN entries' :
              entries'[i] = route \/ (i \in DOMAIN entries /\ entries'[i] = entries[i])
<1>1. CASE route = Corpus!Route
  BY <1>1 DEF Corpus!Push, Corpus!Route
<1>2. CASE route # Corpus!Route
  <2>1. entries' = Append(SubSeq(entries, 1, at), route) /\ at' = at + 1
    BY <1>2 DEF Corpus!Push
  <2>2. at \in Nat /\ 1 <= at /\ at <= Len(entries)
    OBVIOUS
  <2>3. /\ SubSeq(entries, 1, at) \in Seq(Entry) /\ Len(SubSeq(entries, 1, at)) = at
        /\ \A i \in 1 .. at : SubSeq(entries, 1, at)[i] = entries[i]
    BY <2>2, Prefix
  <2>4. PICK kept \in Seq(Entry) : kept = SubSeq(entries, 1, at)
    BY <2>3
  <2>5. Len(kept) = at /\ entries' = Append(kept, route) /\ \A i \in 1 .. at : kept[i] = entries[i]
    BY <2>1, <2>3, <2>4
  <2>6. entries' \in Seq(Entry) /\ Len(entries') = at + 1
    BY <2>5
  <2>7. entries'[at + 1] = route /\ \A i \in 1 .. at : entries'[i] = entries[i]
    BY <2>2, <2>5
  <2>8. DOMAIN entries' = 1 .. at + 1 /\ at' = at + 1 /\ DOMAIN entries = 1 .. Len(entries)
    BY <2>1, <2>6
  <2>9. \A i \in 1 .. at + 1 : i = at + 1 \/ (i \in 1 .. at /\ i \in 1 .. Len(entries))
    BY <2>2
  <2>10. \A i \in 1 .. at + 1 :
           entries'[i] = route \/ (i \in 1 .. Len(entries) /\ entries'[i] = entries[i])
    BY <2>7, <2>9
  <2>11. at + 1 \in 1 .. at + 1
    BY <2>2
  <2> QED
    BY <2>6, <2>7, <2>8, <2>10, <2>11
<1> QED
  BY <1>1, <1>2

\* Requests.

LEMMA CallFields ==
  ASSUME NEW cs \in Seq(Call), NEW c \in DOMAIN cs
  PROVE  cs[c] \in Call
OBVIOUS

LEMMA CurrentCall ==
  ASSUME NEW call \in Call, NEW current \in BOOLEAN
  PROVE  /\ [call EXCEPT !.current = current] \in Call
         /\ [call EXCEPT !.current = current].input = call.input
         /\ [call EXCEPT !.current = current].open = call.open
         /\ [call EXCEPT !.current = current].mounted = call.mounted
         /\ [call EXCEPT !.current = current].current = current
BY DEF Call

LEMMA ReplacedCalls ==
  ASSUME NEW cs \in Seq(Call)
  PROVE  /\ Corpus!Replaced(cs) \in Seq(Call) /\ DOMAIN Corpus!Replaced(cs) = DOMAIN cs
         /\ \A c \in DOMAIN cs :
              /\ Corpus!Replaced(cs)[c].input = cs[c].input /\ Corpus!Replaced(cs)[c].open = cs[c].open
              /\ Corpus!Replaced(cs)[c].mounted = cs[c].mounted
              /\ Corpus!Replaced(cs)[c].current => cs[c].current /\ ~cs[c].mounted
<1>1. DOMAIN cs = 1 .. Len(cs) /\ Len(cs) \in Nat
  OBVIOUS
<1>2. Corpus!Replaced(cs) = [c \in 1 .. Len(cs) |-> [cs[c] EXCEPT !.current = @ /\ ~cs[c].mounted]]
  BY <1>1 DEF Corpus!Replaced
<1>3. \A c \in 1 .. Len(cs) : [cs[c] EXCEPT !.current = @ /\ ~cs[c].mounted] \in Call
  <2> TAKE c \in 1 .. Len(cs)
  <2>1. cs[c] \in Call
    BY <1>1
  <2> QED
    BY <2>1 DEF Call
<1>4. Corpus!Replaced(cs) \in Seq(Call) /\ Len(Corpus!Replaced(cs)) = Len(cs)
  BY <1>1, <1>2, <1>3
<1>5. \A c \in 1 .. Len(cs) :
        /\ Corpus!Replaced(cs)[c].input = cs[c].input /\ Corpus!Replaced(cs)[c].open = cs[c].open
        /\ Corpus!Replaced(cs)[c].mounted = cs[c].mounted
        /\ Corpus!Replaced(cs)[c].current => cs[c].current /\ ~cs[c].mounted
  <2> TAKE c \in 1 .. Len(cs)
  <2>1. cs[c] \in Call
    BY <1>1
  <2>2. Corpus!Replaced(cs)[c] = [cs[c] EXCEPT !.current = @ /\ ~cs[c].mounted]
    BY <1>2
  <2>3. (cs[c].current /\ ~cs[c].mounted) \in BOOLEAN
    OBVIOUS
  <2> QED
    BY <2>1, <2>2, <2>3, CurrentCall
<1> QED
  BY <1>1, <1>4, <1>5

LEMMA UnmountedCalls ==
  ASSUME NEW cs \in Seq(Call)
  PROVE  /\ Corpus!Unmounted(cs) \in Seq(Call) /\ DOMAIN Corpus!Unmounted(cs) = DOMAIN cs
         /\ \A c \in DOMAIN cs : Corpus!Unmounted(cs)[c].open = cs[c].open
<1>1. DOMAIN cs = 1 .. Len(cs) /\ Len(cs) \in Nat
  OBVIOUS
<1>2. Corpus!Unmounted(cs) = [c \in 1 .. Len(cs) |-> [cs[c] EXCEPT !.mounted = FALSE]]
  BY <1>1 DEF Corpus!Unmounted
<1>3. \A c \in 1 .. Len(cs) : [cs[c] EXCEPT !.mounted = FALSE] \in Call
  <2> TAKE c \in 1 .. Len(cs)
  <2>1. cs[c] \in Call
    BY <1>1
  <2> QED
    BY <2>1 DEF Call
<1>4. Corpus!Unmounted(cs) \in Seq(Call) /\ Len(Corpus!Unmounted(cs)) = Len(cs)
  BY <1>1, <1>2, <1>3
<1> QED
  BY <1>1, <1>2, <1>4 DEF Call

LEMMA ClosedCalls ==
  ASSUME calls \in Seq(Call), NEW c \in DOMAIN calls
  PROVE  /\ Corpus!Closed(c) \in Seq(Call) /\ DOMAIN Corpus!Closed(c) = DOMAIN calls
         /\ ~Corpus!Closed(c)[c].open
         /\ Corpus!Closed(c)[c].current = calls[c].current
         /\ Corpus!Closed(c)[c].mounted = calls[c].mounted
         /\ Corpus!Closed(c)[c].input = calls[c].input
         /\ \A d \in DOMAIN calls : d # c => Corpus!Closed(c)[d] = calls[d]
<1>1. calls[c] \in Call
  OBVIOUS
<1>2. PICK closed \in Call : closed = [calls[c] EXCEPT !.open = FALSE]
  BY <1>1 DEF Call
<1>3. Corpus!Closed(c) = [calls EXCEPT ![c] = closed]
  BY <1>2 DEF Corpus!Closed
<1>4. /\ ~closed.open /\ closed.current = calls[c].current
      /\ closed.mounted = calls[c].mounted /\ closed.input = calls[c].input
  BY <1>1, <1>2 DEF Call
<1>5. Corpus!Closed(c) \in Seq(Call) /\ DOMAIN Corpus!Closed(c) = DOMAIN calls
  BY <1>2, <1>3
<1>6. Corpus!Closed(c)[c] = closed /\ \A d \in DOMAIN calls : d # c => Corpus!Closed(c)[d] = calls[d]
  BY <1>3
<1> QED
  BY <1>4, <1>5, <1>6

\* What is shown after an answer.
LEMMA SetShows ==
  ASSUME calls \in Seq(Call), results \in Shown, NEW c \in DOMAIN calls,
         NEW kind \in {"Error", "Found"}
  PROVE  /\ Corpus!Set(c, kind) \in Shown
         /\ calls[c].mounted => Corpus!Set(c, kind).kind = kind /\ Corpus!Set(c, kind).input = calls[c].input
<1>1. calls[c] \in Call
  OBVIOUS
<1>2. calls[c].input \in Corpus!Inputs
  BY <1>1 DEF Call, Corpus!Requests
<1> QED
  BY <1>2 DEF Corpus!Set, Corpus!Result, Shown

\* What a render does to the request that is current: the three outcomes.

LEMMA NewCall ==
  ASSUME NEW cs \in Seq(Call), NEW request \in Corpus!Requests
  PROVE  LET call == [input |-> request, open |-> TRUE, current |-> TRUE, mounted |-> TRUE]
             all == Append(Corpus!Replaced(cs), call)
         IN /\ all \in Seq(Call) /\ DOMAIN all = 1 .. Len(cs) + 1
            /\ all[Len(cs) + 1] = call
            /\ \A c \in 1 .. Len(cs) : all[c] = Corpus!Replaced(cs)[c]
<1> DEFINE call == [input |-> request, open |-> TRUE, current |-> TRUE, mounted |-> TRUE]
<1>1. PICK old \in Seq(Call) : old = Corpus!Replaced(cs)
  BY ReplacedCalls
<1>2. DOMAIN old = DOMAIN cs
  BY <1>1, ReplacedCalls
<1>3. Len(old) = Len(cs)
  BY <1>2
<1>4. call \in Call
  BY DEF Call
<1> HIDE DEF call
<1>5. /\ Append(old, call) \in Seq(Call) /\ DOMAIN Append(old, call) = 1 .. Len(cs) + 1
      /\ Append(old, call)[Len(cs) + 1] = call
      /\ \A c \in 1 .. Len(cs) : Append(old, call)[c] = old[c]
  BY <1>3, <1>4
<1> QED
  BY <1>1, <1>5 DEF call

\* Everything keeps its type.
LEMMA RenderTypes ==
  ASSUME Corpus!ConstantsFit, asked \in Corpus!Inputs, NEW route \in Entry, NEW cs \in Seq(Call),
         NEW res \in Shown, Corpus!Render(route, cs, res)
  PROVE  calls' \in Seq(Call) /\ results' \in Shown /\ asked' \in Corpus!Inputs
<1> DEFINE request == Corpus!ApiRequest(route)
<1>1. /\ request \in Corpus!Inputs /\ Corpus!NoInput \in Corpus!Inputs
      /\ request # Corpus!NoInput => request \in Corpus!Requests
  BY TokensThere, Requested
<1>2. Corpus!Result("N/A", Corpus!NoInput) \in Shown /\ Corpus!Result("Loading", request) \in Shown
  BY <1>1 DEF Corpus!Result, Shown
<1>3. /\ Corpus!Unmounted(cs) \in Seq(Call) /\ Corpus!Replaced(cs) \in Seq(Call)
      /\ request # Corpus!NoInput =>
           Append(Corpus!Replaced(cs), [input |-> request, open |-> TRUE, current |-> TRUE, mounted |-> TRUE])
             \in Seq(Call)
  BY <1>1, NewCall, ReplacedCalls, UnmountedCalls
<1> QED
  BY <1>1, <1>2, <1>3 DEF Corpus!Render

\* And it fits, if it did before, but for the answer that has just arrived: the
\* hook has asked for what the URL says, and if somebody waits, somebody listens.
LEMMA RenderFits ==
  ASSUME Corpus!ConstantsFit, Corpus!AskedFits, NEW route \in Entry, NEW cs \in Seq(Call), NEW res \in Shown,
         Corpus!Render(route, cs, res), Corpus!Route \in Entry, Corpus!Route' = route,
         \A c \in DOMAIN cs :
           /\ cs[c].open => Corpus!Mounted /\ cs[c].mounted
           /\ cs[c].open /\ cs[c].current => cs[c].input = asked,
         Corpus!Mounted /\ asked # Corpus!NoInput /\ res.kind = "Found" => res.input = asked,
         Corpus!Mounted /\ asked # Corpus!NoInput /\ res.kind = "Loading" =>
           \E c \in DOMAIN cs : cs[c].open /\ cs[c].current /\ cs[c].input = asked,
         route.path # "corpus" => \A c \in DOMAIN cs : ~cs[c].open
  PROVE  Corpus!AskedFits' /\ Corpus!CallsFit' /\ Corpus!ShownIsAsked' /\ Corpus!LoadingIsAsked'
<1> DEFINE request == Corpus!ApiRequest(route)
<1>1. /\ Corpus!Mounted' <=> route.path = "corpus"
      /\ \A kind : Corpus!Shows(kind)' <=> route.path = "corpus" /\ request # Corpus!NoInput /\ results'.kind = kind
      /\ Corpus!ApiRequest(Corpus!Route)' = request
  BY Requested DEF Corpus!Mounted, Corpus!Shows, Corpus!ApiRequest
<1>2. CASE route.path # "corpus"
  <2>1. calls' = Corpus!Unmounted(cs) /\ asked' = Corpus!NoInput
    BY <1>2 DEF Corpus!Render
  <2>2. \A c \in DOMAIN calls' : ~calls'[c].open
    BY <1>2, <2>1, UnmountedCalls
  <2> QED
    BY <1>1, <1>2, <2>1, <2>2 DEF Corpus!AskedFits, Corpus!CallsFit, Corpus!ShownIsAsked,
       Corpus!LoadingIsAsked
<1>3. CASE route.path = "corpus" /\ request = (IF Corpus!Mounted THEN asked ELSE Corpus!NoInput)
  <2>1. /\ asked' = request /\ calls' = cs /\ asked = request
        /\ results' = IF Corpus!Mounted THEN res ELSE Corpus!Result("N/A", Corpus!NoInput)
    BY <1>3 DEF Corpus!Render, Corpus!AskedFits
  <2>2. Corpus!AskedFits' /\ Corpus!CallsFit'
    BY <1>1, <1>3, <2>1 DEF Corpus!AskedFits, Corpus!CallsFit
  <2>3. Corpus!Result("N/A", Corpus!NoInput).kind = "N/A"
    BY DEF Corpus!Result
  <2>4. Corpus!ShownIsAsked' /\ Corpus!LoadingIsAsked'
    BY <1>1, <1>3, <2>1, <2>3 DEF Corpus!ShownIsAsked, Corpus!LoadingIsAsked
  <2> QED
    BY <2>2, <2>4
<1>4. CASE /\ route.path = "corpus" /\ request # (IF Corpus!Mounted THEN asked ELSE Corpus!NoInput)
           /\ request = Corpus!NoInput
  <2>1. asked' = request /\ calls' = Corpus!Replaced(cs)
    BY <1>4 DEF Corpus!Render
  <2>2. \A c \in DOMAIN cs : Corpus!Replaced(cs)[c].open =>
          cs[c].open /\ cs[c].mounted /\ Corpus!Replaced(cs)[c].mounted /\ ~Corpus!Replaced(cs)[c].current
    BY ReplacedCalls
  <2>3. DOMAIN calls' = DOMAIN cs
    BY <2>1, ReplacedCalls
  <2>4. Corpus!CallsFit'
    BY <1>1, <1>4, <2>1, <2>2, <2>3 DEF Corpus!CallsFit
  <2> QED
    BY <1>1, <1>4, <2>1, <2>4 DEF Corpus!AskedFits, Corpus!ShownIsAsked, Corpus!LoadingIsAsked
<1>5. CASE /\ route.path = "corpus" /\ request # (IF Corpus!Mounted THEN asked ELSE Corpus!NoInput)
           /\ request # Corpus!NoInput
  <2> DEFINE call == [input |-> request, open |-> TRUE, current |-> TRUE, mounted |-> TRUE]
  <2>1. /\ asked' = request /\ calls' = Append(Corpus!Replaced(cs), call)
        /\ results' = Corpus!Result("Loading", request)
    BY <1>5 DEF Corpus!Render
  <2>2. request \in Corpus!Requests
    BY <1>5, Requested
  <2>3. /\ DOMAIN calls' = 1 .. Len(cs) + 1 /\ calls'[Len(cs) + 1] = call
        /\ \A c \in 1 .. Len(cs) : calls'[c] = Corpus!Replaced(cs)[c]
    BY <2>1, <2>2, NewCall
  <2>4. \A c \in DOMAIN cs : Corpus!Replaced(cs)[c].open =>
          cs[c].open /\ cs[c].mounted /\ Corpus!Replaced(cs)[c].mounted /\ ~Corpus!Replaced(cs)[c].current
    BY ReplacedCalls
  <2>5. DOMAIN cs = 1 .. Len(cs) /\ \A c \in 1 .. Len(cs) + 1 : c \in 1 .. Len(cs) \/ c = Len(cs) + 1
    OBVIOUS
  <2>6. Corpus!CallsFit'
    BY <1>1, <1>5, <2>1, <2>3, <2>4, <2>5 DEF Corpus!CallsFit
  <2>7. results'.kind = "Loading" /\ Len(cs) + 1 \in DOMAIN calls'
    BY <2>1, <2>3 DEF Corpus!Result
  <2>8. Corpus!ShownIsAsked'
    BY <1>1, <2>7 DEF Corpus!ShownIsAsked
  <2>9. Corpus!LoadingIsAsked'
    BY <1>1, <2>3, <2>7 DEF Corpus!LoadingIsAsked
  <2> QED
    BY <1>1, <1>5, <2>1, <2>6, <2>8, <2>9 DEF Corpus!AskedFits
<1> QED
  BY <1>2, <1>3, <1>4, <1>5

\* CorpusTypes.

LEMMA CorpusTypes ==
  Corpus!TypeOK <=>
    /\ entries \in Seq(Entry) /\ at \in DOMAIN entries
    /\ calls \in Seq(Call) /\ results \in Shown /\ asked \in Corpus!Inputs
BY DEF Corpus!TypeOK, Entry, Call, Shown

LEMMA HistoryTypes ==
  ASSUME Corpus!TypeOK
  PROVE  /\ Corpus!Route \in Entry /\ Corpus!Route.query \in Queries /\ Corpus!Route.settings \in Settings
         /\ Corpus!Route.cp \in Corpus!PageTokens /\ Corpus!Route.np \in Corpus!PageTokens
<1>1. Corpus!Route \in Entry
  BY CorpusTypes DEF Corpus!Route
<1> QED
  BY <1>1 DEF Entry

LEMMA InitCorpusTypes ==
  ASSUME Corpus!ConstantsFit
  PROVE  Corpus!Init => Corpus!TypeOK
<1> SUFFICES ASSUME Corpus!Init PROVE Corpus!TypeOK
  OBVIOUS
<1>1. Corpus!NoPage \in Corpus!PageTokens /\ Corpus!NoInput \in Corpus!Inputs /\ "" \in Queries /\ Default \in Settings
  BY TokensThere DEF Corpus!ConstantsFit
<1>2. PICK route \in Entry : route = Corpus!CorpusRoute("", Default, Corpus!NoPage, Corpus!NoPage)
  BY <1>1, CorpusRouteIsEntry
<1>3. entries = <<route>> /\ at = 1 /\ calls = <<>>
  BY <1>2 DEF Corpus!Init
<1>4. entries \in Seq(Entry) /\ at \in DOMAIN entries /\ calls \in Seq(Call)
  BY <1>3
<1>5. results \in Shown
  BY <1>1 DEF Corpus!Init, Corpus!Result, Shown
<1> QED
  BY <1>1, <1>4, <1>5, CorpusTypes DEF Corpus!Init

LEMMA ToTypes ==
  ASSUME Corpus!ConstantsFit, Corpus!TypeOK, NEW route \in Entry, Corpus!To(route)
  PROVE  Corpus!TypeOK'
<1>1. /\ entries \in Seq(Entry) /\ at \in DOMAIN entries
      /\ calls \in Seq(Call) /\ results \in Shown /\ asked \in Corpus!Inputs
  BY CorpusTypes
<1>2. Corpus!Push(route) /\ Corpus!Render(route, calls, results)
  BY DEF Corpus!To
<1>3. entries' \in Seq(Entry) /\ at' \in DOMAIN entries'
  BY <1>1, <1>2, Pushed
<1>4. calls' \in Seq(Call) /\ results' \in Shown /\ asked' \in Corpus!Inputs
  BY <1>1, <1>2, RenderTypes
<1> QED
  BY <1>3, <1>4 DEF Corpus!TypeOK, Entry, Call, Shown

\* The routes that the actions push are entries of the history.
LEMMA Routes ==
  ASSUME Corpus!ConstantsFit, Corpus!TypeOK
  PROVE  /\ \A query \in Queries :
              /\ Corpus!CorpusRoute(query, Corpus!Route.settings, Corpus!NoPage, Corpus!NoPage) \in Entry
              /\ Corpus!OtherRoute(query) \in Entry /\ Corpus!OtherRoute(query).path = "other"
         /\ \A settings \in Settings :
              /\ [Corpus!Route EXCEPT !.settings = settings] \in Entry
              /\ \A f \in {"path", "query", "cp", "np"} :
                   [Corpus!Route EXCEPT !.settings = settings][f] = Corpus!Route[f]
         /\ Corpus!CorpusRoute(Corpus!Route.query, Corpus!Route.settings, Corpus!Route.np, Corpus!NoPage) \in Entry
         /\ \A c \in DOMAIN calls :
              Corpus!CorpusRoute(Corpus!Route.query, Corpus!Route.settings, Corpus!Route.cp,
                                 Corpus!NextPage(calls[c].input)) \in Entry
<1>1. /\ Corpus!Route \in Entry /\ Corpus!Route.query \in Queries /\ Corpus!Route.settings \in Settings
      /\ Corpus!Route.cp \in Corpus!PageTokens /\ Corpus!Route.np \in Corpus!PageTokens
      /\ Corpus!NoPage \in Corpus!PageTokens /\ Default \in Settings
  BY HistoryTypes, TokensThere DEF Corpus!ConstantsFit
<1>2. ASSUME NEW query \in Queries
      PROVE  /\ Corpus!CorpusRoute(query, Corpus!Route.settings, Corpus!NoPage, Corpus!NoPage) \in Entry
             /\ Corpus!OtherRoute(query) \in Entry /\ Corpus!OtherRoute(query).path = "other"
  BY <1>1, CorpusRouteIsEntry DEF Corpus!OtherRoute, Entry
<1>3. ASSUME NEW settings \in Settings
      PROVE  /\ [Corpus!Route EXCEPT !.settings = settings] \in Entry
             /\ \A f \in {"path", "query", "cp", "np"} :
                  [Corpus!Route EXCEPT !.settings = settings][f] = Corpus!Route[f]
  BY <1>1 DEF Entry
<1>4. Corpus!CorpusRoute(Corpus!Route.query, Corpus!Route.settings, Corpus!Route.np, Corpus!NoPage) \in Entry
  BY <1>1, CorpusRouteIsEntry
<1>5. ASSUME NEW c \in DOMAIN calls
      PROVE  Corpus!CorpusRoute(Corpus!Route.query, Corpus!Route.settings, Corpus!Route.cp,
                                Corpus!NextPage(calls[c].input)) \in Entry
  <2>1. calls[c] \in Call
    BY CorpusTypes
  <2>2. calls[c].input \in Corpus!Requests
    BY <2>1 DEF Call
  <2> QED
    BY <1>1, <2>2, NextToken, CorpusRouteIsEntry
<1> QED
  BY <1>2, <1>3, <1>4, <1>5

LEMMA NextCorpusTypes ==
  ASSUME Corpus!ConstantsFit
  PROVE  Corpus!TypeOK /\ [Corpus!Next]_(Corpus!vars) => Corpus!TypeOK'
<1> SUFFICES ASSUME Corpus!TypeOK, [Corpus!Next]_(Corpus!vars) PROVE Corpus!TypeOK'
  OBVIOUS
<1>0. /\ entries \in Seq(Entry) /\ at \in DOMAIN entries
      /\ calls \in Seq(Call) /\ results \in Shown /\ asked \in Corpus!Inputs
  BY CorpusTypes
<1>a. ASSUME NEW route \in Entry, Corpus!To(route) PROVE Corpus!TypeOK'
  BY <1>a, ToTypes
<1>1. ASSUME NEW query \in Queries, Corpus!SetNewQuery(query) \/ Corpus!Leave(query) PROVE Corpus!TypeOK'
  BY <1>1, <1>a, Routes DEF Corpus!SetNewQuery, Corpus!Leave
<1>2. ASSUME NEW settings \in Settings, Corpus!CloseSettings(settings) PROVE Corpus!TypeOK'
  BY <1>2, <1>a, Routes DEF Corpus!CloseSettings
<1>3. CASE Corpus!ToNextPage
  BY <1>3, <1>a, Routes DEF Corpus!ToNextPage
<1>4. ASSUME NEW to \in DOMAIN entries, Corpus!PopState(to) PROVE Corpus!TypeOK'
  <2>1. at' = to /\ entries' = entries /\ Corpus!Render(entries[to], calls, results)
    BY <1>4 DEF Corpus!PopState
  <2>2. entries[to] \in Entry
    BY <1>0
  <2>3. calls' \in Seq(Call) /\ results' \in Shown /\ asked' \in Corpus!Inputs
    BY <1>0, <2>1, <2>2, RenderTypes
  <2> QED
    BY <1>0, <2>1, <2>3 DEF Corpus!TypeOK, Entry, Call, Shown
<1>5. ASSUME NEW c \in DOMAIN calls, Corpus!OnResult(c) PROVE Corpus!TypeOK'
  <2>1. Corpus!Closed(c) \in Seq(Call) /\ Corpus!Set(c, "Found") \in Shown
    BY <1>0, ClosedCalls, SetShows
  <2>2. CASE ~calls[c].current
    BY <1>0, <1>5, <2>1, <2>2 DEF Corpus!OnResult, Corpus!TypeOK, Entry, Call, Shown
  <2>3. CASE calls[c].current
    <3>1. PICK route \in Entry : Corpus!Push(route) /\ Corpus!Render(route, Corpus!Closed(c), Corpus!Set(c, "Found"))
      BY <1>5, <2>3, Routes DEF Corpus!OnResult
    <3>2. entries' \in Seq(Entry) /\ at' \in DOMAIN entries'
      BY <1>0, <3>1, Pushed
    <3>3. calls' \in Seq(Call) /\ results' \in Shown /\ asked' \in Corpus!Inputs
      BY <1>0, <2>1, <3>1, RenderTypes
    <3> QED
      BY <3>2, <3>3 DEF Corpus!TypeOK, Entry, Call, Shown
  <2> QED
    BY <2>2, <2>3
<1>6. ASSUME NEW c \in DOMAIN calls, Corpus!OnError(c) PROVE Corpus!TypeOK'
  <2>1. Corpus!Closed(c) \in Seq(Call) /\ Corpus!Set(c, "Error") \in Shown
    BY <1>0, ClosedCalls, SetShows
  <2> QED
    BY <1>0, <1>6, <2>1 DEF Corpus!OnError, Corpus!TypeOK, Entry, Call, Shown
<1>7. CASE UNCHANGED Corpus!vars
  BY <1>7 DEF Corpus!vars, Corpus!TypeOK
<1> QED
  BY <1>1, <1>2, <1>3, <1>4, <1>5, <1>6, <1>7 DEF Corpus!Next

\* What the page shows.

LEMMA InitCorpus ==
  ASSUME Corpus!ConstantsFit
  PROVE  Corpus!Init => Corpus!PageInv
<1> SUFFICES ASSUME Corpus!Init PROVE Corpus!PageInv
  OBVIOUS
<1>1. Corpus!TypeOK
  BY InitCorpusTypes
<1>2. entries = <<Corpus!Route>> /\ Corpus!Route = Corpus!CorpusRoute("", Default, Corpus!NoPage, Corpus!NoPage)
  BY DEF Corpus!Init, Corpus!Route
<1>3. DOMAIN entries = {1} /\ entries[1] = Corpus!Route /\ DOMAIN calls = {}
  <2>1. entries \in Seq(Entry) /\ Len(entries) = 1 /\ entries[1] = Corpus!Route
    BY <1>1, <1>2, CorpusTypes
  <2>2. calls = <<>>
    BY DEF Corpus!Init
  <2>3. DOMAIN entries = 1 .. 1
    BY <2>1
  <2>4. 1 .. 1 = {1}
    OBVIOUS
  <2> QED
    BY <2>1, <2>2, <2>3, <2>4
<1>4. Corpus!Route.path = "corpus" /\ Corpus!Route.query = ""
      /\ Corpus!Route.cp = Corpus!NoPage /\ Corpus!Route.np = Corpus!NoPage
  BY <1>2 DEF Corpus!CorpusRoute
<1>5. ~Corpus!IsToken(Corpus!NoPage)
  BY DEF Corpus!NoPage, Corpus!IsToken
<1>6. Corpus!EntriesFit
  BY <1>3, <1>4, <1>5 DEF Corpus!EntriesFit, Corpus!TokensFit
<1>7. Corpus!AskedFits
  BY <1>4 DEF Corpus!Init, Corpus!AskedFits, Corpus!ApiRequest, Corpus!Mounted
<1>8. Corpus!CallsFit /\ Corpus!ShownIsAsked /\ Corpus!LoadingIsAsked
  BY <1>2, <1>3 DEF Corpus!Init, Corpus!CallsFit, Corpus!ShownIsAsked,
     Corpus!LoadingIsAsked, Corpus!Shows, Corpus!Result
<1> QED
  BY <1>1, <1>6, <1>7, <1>8 DEF Corpus!PageInv

\* In terms of what the hook has asked.
LEMMA Listens ==
  ASSUME Corpus!ConstantsFit, Corpus!PageInv
  PROVE  /\ Corpus!Mounted /\ asked # Corpus!NoInput /\ results.kind = "Found" => results.input = asked
         /\ Corpus!Mounted /\ asked # Corpus!NoInput /\ results.kind = "Loading" =>
              \E c \in DOMAIN calls : calls[c].open /\ calls[c].current /\ calls[c].input = asked
<1>1. Corpus!Route \in Entry
  BY HistoryTypes DEF Corpus!PageInv
<1>2. Corpus!Mounted => asked = Corpus!ApiRequest(Corpus!Route)
  BY DEF Corpus!PageInv, Corpus!AskedFits
<1>3. Corpus!Mounted /\ asked # Corpus!NoInput => \A kind : results.kind = kind => Corpus!Shows(kind)
  BY <1>1, <1>2, Requested DEF Corpus!Shows
<1> QED
  BY <1>2, <1>3 DEF Corpus!PageInv, Corpus!ShownIsAsked, Corpus!LoadingIsAsked

\* Going to a route whose tokens fit, with everything that listens as it is.
LEMMA ToFits ==
  ASSUME Corpus!ConstantsFit, Corpus!PageInv, NEW route \in Entry, Corpus!To(route),
         route.path = "corpus" => Corpus!TokensFit(route),
         route.path # "corpus" => \A c \in DOMAIN calls : ~calls[c].open
  PROVE  Corpus!PageInv'
<1>1. /\ entries \in Seq(Entry) /\ at \in DOMAIN entries
      /\ calls \in Seq(Call) /\ results \in Shown /\ Corpus!Route \in Entry
  BY CorpusTypes, HistoryTypes DEF Corpus!PageInv
<1>2. Corpus!Push(route) /\ Corpus!Render(route, calls, results)
  BY DEF Corpus!To
<1>3. /\ entries'[at'] = route
      /\ \A i \in DOMAIN entries' :
           entries'[i] = route \/ (i \in DOMAIN entries /\ entries'[i] = entries[i])
  BY <1>1, <1>2, Pushed
<1>4. Corpus!EntriesFit'
  BY <1>3 DEF Corpus!PageInv, Corpus!EntriesFit, Corpus!TokensFit
<1>5. Corpus!Route' = route
  BY <1>3 DEF Corpus!Route
<1>6. Corpus!AskedFits' /\ Corpus!CallsFit' /\ Corpus!ShownIsAsked' /\ Corpus!LoadingIsAsked'
  BY <1>1, <1>2, <1>5, Listens, RenderFits DEF Corpus!PageInv, Corpus!CallsFit
<1>7. Corpus!TypeOK'
  BY ToTypes DEF Corpus!PageInv
<1> QED
  BY <1>4, <1>6, <1>7 DEF Corpus!PageInv

\* Every step preserves the invariant, if nobody leaves while a page loads.
LEMMA NextCorpus ==
  ASSUME Corpus!ConstantsFit, LeaveWhileLoading = FALSE
  PROVE  Corpus!PageInv /\ [Corpus!Next]_(Corpus!vars) => Corpus!PageInv'
<1> SUFFICES ASSUME Corpus!PageInv, [Corpus!Next]_(Corpus!vars) PROVE Corpus!PageInv'
  OBVIOUS
<1>0. /\ Corpus!TypeOK /\ entries \in Seq(Entry) /\ at \in DOMAIN entries
      /\ calls \in Seq(Call) /\ results \in Shown /\ asked \in Corpus!Inputs /\ Corpus!Route \in Entry
  BY CorpusTypes, HistoryTypes DEF Corpus!PageInv
<1>a. Corpus!TypeOK'
  BY <1>0, NextCorpusTypes
<1>b. ~Corpus!IsToken(Corpus!NoPage) /\ Corpus!NoPage.page = 0
  BY DEF Corpus!NoPage, Corpus!IsToken
<1>c. Corpus!Mounted => Corpus!TokensFit(Corpus!Route)
  BY <1>0 DEF Corpus!PageInv, Corpus!EntriesFit, Corpus!Mounted, Corpus!Route
<1>1. ASSUME NEW query \in Queries, Corpus!SetNewQuery(query) PROVE Corpus!PageInv'
  <2>1. PICK route \in Entry : route = Corpus!CorpusRoute(query, Corpus!Route.settings, Corpus!NoPage, Corpus!NoPage)
    BY <1>0, Routes
  <2>2. route.path = "corpus" /\ route.cp = Corpus!NoPage /\ route.np = Corpus!NoPage
    BY <2>1 DEF Corpus!CorpusRoute
  <2>3. Corpus!TokensFit(route)
    BY <1>b, <2>2 DEF Corpus!TokensFit
  <2> QED
    BY <1>1, <2>1, <2>2, <2>3, ToFits DEF Corpus!SetNewQuery
<1>2. ASSUME NEW query \in Queries, Corpus!Leave(query) PROVE Corpus!PageInv'
  <2>1. PICK route \in Entry : route = Corpus!OtherRoute(query) /\ route.path = "other"
    BY <1>0, Routes
  <2>2. \A c \in DOMAIN calls : ~calls[c].open
    BY <1>2 DEF Corpus!Leave
  <2> QED
    BY <1>2, <2>1, <2>2, ToFits DEF Corpus!Leave
<1>3. ASSUME NEW settings \in Settings, Corpus!CloseSettings(settings) PROVE Corpus!PageInv'
  <2>1. PICK route \in Entry :
          /\ route = [Corpus!Route EXCEPT !.settings = settings]
          /\ route.path = Corpus!Route.path /\ route.query = Corpus!Route.query
          /\ route.cp = Corpus!Route.cp /\ route.np = Corpus!Route.np
    BY <1>0, Routes
  <2>2. route.path = "corpus" /\ Corpus!TokensFit(route)
    BY <1>3, <1>c, <2>1 DEF Corpus!CloseSettings, Corpus!TokensFit, Corpus!Mounted
  <2> QED
    BY <1>3, <2>1, <2>2, ToFits DEF Corpus!CloseSettings
<1>4. ASSUME Corpus!ToNextPage PROVE Corpus!PageInv'
  <2>1. PICK route \in Entry :
          route = Corpus!CorpusRoute(Corpus!Route.query, Corpus!Route.settings, Corpus!Route.np, Corpus!NoPage)
    BY <1>0, Routes
  <2>2. /\ route.path = "corpus" /\ route.query = Corpus!Route.query
        /\ route.cp = Corpus!Route.np /\ route.np = Corpus!NoPage
    BY <2>1 DEF Corpus!CorpusRoute
  <2>3. Corpus!TokensFit(route)
    BY <1>4, <1>b, <1>c, <2>2 DEF Corpus!ToNextPage, Corpus!TokensFit
  <2> QED
    BY <1>4, <2>1, <2>2, <2>3, ToFits DEF Corpus!ToNextPage
<1>5. ASSUME NEW to \in DOMAIN entries, Corpus!PopState(to) PROVE Corpus!PageInv'
  <2>1. /\ at' = to /\ entries' = entries /\ Corpus!Render(entries[to], calls, results)
        /\ Corpus!Mounted /\ entries[to].path # "corpus" => \A c \in DOMAIN calls : ~calls[c].open
    BY <1>5 DEF Corpus!PopState
  <2>2. entries[to] \in Entry /\ Corpus!Route' = entries[to]
    BY <1>0, <2>1 DEF Corpus!Route
  <2>3. entries[to].path # "corpus" => \A c \in DOMAIN calls : ~calls[c].open
    BY <2>1 DEF Corpus!PageInv, Corpus!CallsFit
  <2>4. Corpus!AskedFits' /\ Corpus!CallsFit' /\ Corpus!ShownIsAsked' /\ Corpus!LoadingIsAsked'
    BY <1>0, <2>1, <2>2, <2>3, Listens, RenderFits DEF Corpus!PageInv, Corpus!CallsFit
  <2>5. Corpus!EntriesFit'
    BY <2>1 DEF Corpus!PageInv, Corpus!EntriesFit
  <2> QED
    BY <1>a, <2>4, <2>5 DEF Corpus!PageInv
<1>6. ASSUME NEW c \in DOMAIN calls, Corpus!OnResult(c) PROVE Corpus!PageInv'
  <2>1. /\ Corpus!Closed(c) \in Seq(Call) /\ DOMAIN Corpus!Closed(c) = DOMAIN calls /\ ~Corpus!Closed(c)[c].open
        /\ \A d \in DOMAIN calls : d # c => Corpus!Closed(c)[d] = calls[d]
    BY <1>0, ClosedCalls
  <2>2. CASE ~calls[c].current
    <3>1. calls' = Corpus!Closed(c) /\ UNCHANGED <<entries, at, results, asked>>
      BY <1>6, <2>2 DEF Corpus!OnResult
    <3>2. Corpus!LoadingIsAsked'
      BY <2>1, <2>2, <3>1 DEF Corpus!PageInv, Corpus!LoadingIsAsked, Corpus!Shows,
         Corpus!Mounted, Corpus!Route
    <3>3. Corpus!EntriesFit' /\ Corpus!AskedFits' /\ Corpus!CallsFit' /\ Corpus!ShownIsAsked'
      BY <2>1, <3>1
         DEF Corpus!PageInv, Corpus!EntriesFit, Corpus!AskedFits, Corpus!CallsFit,
            Corpus!ShownIsAsked, Corpus!Shows, Corpus!Mounted, Corpus!Route
    <3> QED
      BY <1>a, <3>2, <3>3 DEF Corpus!PageInv
  <2>3. CASE calls[c].current
    <3> DEFINE next == Corpus!CorpusRoute(Corpus!Route.query, Corpus!Route.settings, Corpus!Route.cp,
                                          Corpus!NextPage(calls[c].input))
    <3>1. calls[c].open /\ Corpus!Push(next) /\ Corpus!Render(next, Corpus!Closed(c), Corpus!Set(c, "Found"))
      BY <1>6, <2>3 DEF Corpus!OnResult
    <3>2. Corpus!Mounted /\ calls[c].mounted /\ calls[c].input = asked /\ asked = Corpus!ApiRequest(Corpus!Route)
      BY <2>3, <3>1 DEF Corpus!PageInv, Corpus!CallsFit, Corpus!AskedFits
    <3>3. calls[c] \in Call /\ calls[c].input \in Corpus!Requests
      <4>1. calls[c] \in Call
        BY <1>0
      <4> QED
        BY <4>1 DEF Call
    <3>4. asked # Corpus!NoInput /\ asked = Corpus!Input(Corpus!Route.query, Corpus!Route.settings, Corpus!Route.cp)
      <4>1. Corpus!NoInput.query = ""
        BY DEF Corpus!NoInput, Corpus!Input
      <4>2. asked # Corpus!NoInput
        BY <3>2, <3>3, <4>1 DEF Corpus!Requests
      <4> QED
        BY <1>0, <3>2, <4>2, Requested
    <3>5. asked.query = Corpus!Route.query /\ asked.cp = Corpus!Route.cp
      BY <3>4 DEF Corpus!Input
    <3>6. /\ next \in Entry /\ next.path = "corpus" /\ next.query = Corpus!Route.query
          /\ next.cp = Corpus!Route.cp /\ next.np = Corpus!NextPage(asked)
      BY <1>0, <3>2, Routes DEF Corpus!CorpusRoute
    <3>7. Corpus!TokensFit(next)
      <4>1. Corpus!IsToken(next.np) => next.np.query = Corpus!Route.query /\ next.np.page = Corpus!Route.cp.page + 1
        BY <3>2, <3>3, <3>5, <3>6, NextToken
      <4> QED
        BY <1>c, <3>2, <3>6, <4>1 DEF Corpus!TokensFit
    <3>8. Corpus!Set(c, "Found") \in Shown /\ Corpus!Set(c, "Found").kind = "Found"
          /\ Corpus!Set(c, "Found").input = asked
      BY <1>0, <3>2, SetShows
    <3> HIDE DEF next
    <3>9. /\ entries'[at'] = next
          /\ \A i \in DOMAIN entries' :
               entries'[i] = next \/ (i \in DOMAIN entries /\ entries'[i] = entries[i])
      BY <1>0, <3>1, <3>6, Pushed
    <3>10. Corpus!EntriesFit'
      BY <3>7, <3>9 DEF Corpus!PageInv, Corpus!EntriesFit, Corpus!TokensFit
    <3>11. Corpus!Route' = next
      BY <3>9 DEF Corpus!Route
    <3>12. \A d \in DOMAIN Corpus!Closed(c) :
             /\ Corpus!Closed(c)[d].open => Corpus!Mounted /\ Corpus!Closed(c)[d].mounted
             /\ Corpus!Closed(c)[d].open /\ Corpus!Closed(c)[d].current => Corpus!Closed(c)[d].input = asked
      BY <2>1 DEF Corpus!PageInv, Corpus!CallsFit
    <3>13. Corpus!AskedFits' /\ Corpus!CallsFit' /\ Corpus!ShownIsAsked' /\ Corpus!LoadingIsAsked'
      BY <1>0, <2>1, <3>1, <3>6, <3>8, <3>11, <3>12, RenderFits DEF Corpus!PageInv
    <3> QED
      BY <1>a, <3>10, <3>13 DEF Corpus!PageInv
  <2> QED
    BY <2>2, <2>3
<1>7. ASSUME NEW c \in DOMAIN calls, Corpus!OnError(c) PROVE Corpus!PageInv'
  <2>1. /\ Corpus!Closed(c) \in Seq(Call) /\ DOMAIN Corpus!Closed(c) = DOMAIN calls /\ ~Corpus!Closed(c)[c].open
        /\ \A d \in DOMAIN calls : d # c => Corpus!Closed(c)[d] = calls[d]
    BY <1>0, ClosedCalls
  <2>2. /\ calls' = Corpus!Closed(c) /\ UNCHANGED <<entries, at, asked>>
        /\ results' = IF calls[c].current THEN Corpus!Set(c, "Error") ELSE results
    BY <1>7 DEF Corpus!OnError
  <2>3. Corpus!EntriesFit' /\ Corpus!AskedFits' /\ Corpus!CallsFit'
    BY <2>1, <2>2 DEF Corpus!PageInv, Corpus!EntriesFit, Corpus!AskedFits, Corpus!CallsFit,
       Corpus!Mounted, Corpus!Route
  <2>4. CASE calls[c].current
    <3>1. results'.kind = "Error"
      <4>1. calls[c].mounted
        BY <1>7 DEF Corpus!OnError, Corpus!PageInv, Corpus!CallsFit
      <4> QED
        BY <1>0, <2>2, <2>4, <4>1, SetShows
    <3> QED
      BY <1>a, <2>3, <3>1 DEF Corpus!PageInv, Corpus!ShownIsAsked, Corpus!LoadingIsAsked,
         Corpus!Shows
  <2>5. CASE ~calls[c].current
    <3>1. results' = results
      BY <2>2, <2>5
    <3>2. Corpus!LoadingIsAsked'
      BY <2>1, <2>2, <2>5, <3>1 DEF Corpus!PageInv, Corpus!LoadingIsAsked, Corpus!Shows,
         Corpus!Mounted, Corpus!Route
    <3>3. Corpus!ShownIsAsked'
      BY <2>2, <3>1 DEF Corpus!PageInv, Corpus!ShownIsAsked, Corpus!Shows, Corpus!Mounted,
         Corpus!Route
    <3> QED
      BY <1>a, <2>3, <3>2, <3>3 DEF Corpus!PageInv
  <2> QED
    BY <2>4, <2>5
<1>8. CASE UNCHANGED Corpus!vars
  BY <1>8 DEF Corpus!vars, Corpus!PageInv, Corpus!TypeOK, Corpus!EntriesFit,
     Corpus!AskedFits, Corpus!CallsFit, Corpus!ShownIsAsked,
              Corpus!LoadingIsAsked, Corpus!Shows, Corpus!Mounted, Corpus!Route
<1> QED
  BY <1>1, <1>2, <1>3, <1>4, <1>5, <1>6, <1>7, <1>8 DEF Corpus!Next

\* Every variable of the page keeps its type in every behaviour, also when the
\* user leaves while a page loads.
THEOREM PageTypeCorrect ==
  ASSUME Corpus!ConstantsFit
  PROVE  Corpus!Spec => []Corpus!TypeOK
BY InitCorpusTypes, NextCorpusTypes, PTL DEF Corpus!Spec

\* The results shown are those of the URL, a page that loads has a request it
\* listens to, and page tokens are those of their query (CorpusPageFits), in
\* whatever order answers, errors, new queries, Back and Forward come, if nobody
\* leaves the page while it loads (otherwise TLC has a counterexample).
THEOREM CorpusPageFitsItsUrl ==
  ASSUME Corpus!ConstantsFit, LeaveWhileLoading = FALSE
  PROVE  Corpus!Spec => []CorpusPageFits
<1>1. Corpus!PageInv => CorpusPageFits
  <2>1. Corpus!PageInv => Corpus!PageTokensFit
    BY CorpusTypes DEF Corpus!PageInv, Corpus!EntriesFit, Corpus!PageTokensFit, Corpus!Mounted,
       Corpus!Route
  <2> QED
    BY <2>1 DEF Corpus!PageInv, CorpusPageFits, Corpus!CorpusPageFits
<1> QED
  BY <1>1, InitCorpus, NextCorpus, PTL DEF Corpus!Spec

-----------------------------------------------------------------------------
\* The dictionary page.

Route == [query : Dict!AnyWord, lang : Dict!Langs, dicts : SUBSET Dict!AllDicts,
          inflected : BOOLEAN]
LookupRequest == [input : Dict!Inputs, open : BOOLEAN]
DictShown == [kind : {"Landing", "Loading", "Error", "No Results", "Results"}, input : Dict!Inputs]

\* The current request is the one for what was rendered last, and what is shown
\* is its answer, or waits for it.
CurrentLookup ==
  lookedUp # Dict!NoInput =>
    /\ lookup \in DOMAIN lookups /\ lookups[lookup].input = lookedUp
    /\ dictState.input = lookedUp /\ dictState.kind # "Landing"
    /\ dictState.kind = "Loading" => lookups[lookup].open

DictInv ==
  /\ Dict!TypeOK
  /\ dictPage # "closed" => lookedUp = Dict!ApiRequest
  /\ CurrentLookup

RouteTypes ==
  /\ dictPage \in {"closed", "page", "embedded"}
  /\ dictRoute \in visited /\ visited \subseteq Route
  /\ initial \in Dict!AnyWord /\ dictsToUse \subseteq Dict!AllDicts
  /\ inflectedSearch \in BOOLEAN /\ internalLink \in BOOLEAN

LookupTypes ==
  /\ lookups \in Seq(LookupRequest) /\ lookup \in 0 .. Len(lookups)
  /\ lookedUp \in Dict!Inputs /\ dictState \in DictShown

LEMMA DictTypes == Dict!TypeOK <=> RouteTypes /\ LookupTypes
BY DEF Dict!TypeOK, RouteTypes, LookupTypes, Route, LookupRequest, DictShown

LEMMA RouteFields ==
  ASSUME NEW route \in Route
  PROVE  /\ route.query \in Dict!AnyWord /\ route.lang \in Dict!Langs
         /\ route.dicts \subseteq Dict!AllDicts /\ route.inflected \in BOOLEAN
BY DEF Route

LEMMA LookupFields ==
  ASSUME NEW s \in Seq(LookupRequest), NEW l \in DOMAIN s
  PROVE  /\ s[l] \in LookupRequest /\ s[l].input \in Dict!Inputs /\ s[l].open \in BOOLEAN
<1>1. s[l] \in LookupRequest
  OBVIOUS
<1> QED
  BY <1>1 DEF LookupRequest

LEMMA LookupReplaced ==
  ASSUME NEW s \in Seq(LookupRequest), NEW l \in DOMAIN s, NEW q \in LookupRequest
  PROVE  [s EXCEPT ![l] = q] \in Seq(LookupRequest) /\ Len([s EXCEPT ![l] = q]) = Len(s)
<1>1. PICK n \in Nat : n = Len(s)
  OBVIOUS
<1>2. DOMAIN [s EXCEPT ![l] = q] = 1 .. n
  BY <1>1
<1>3. \A j \in 1 .. n : [s EXCEPT ![l] = q][j] \in LookupRequest
  BY <1>1
<1> QED
  BY <1>1, <1>2, <1>3

LEMMA NoInputIsInput == Dict!NoInput \in Dict!Inputs
BY DEF Dict!NoInput, Dict!Inputs, Dict!AnyWord

\* What the page asks is an input, and one that is asked for, where it has a word.
LEMMA RequestIsInput ==
  ASSUME RouteTypes
  PROVE  Dict!ApiRequest \in Dict!Inputs
<1>1. dictRoute \in Route
  BY DEF RouteTypes
<1>2. Dict!Query \in Dict!AnyWord
  BY <1>1, RouteFields DEF Dict!Query, RouteTypes
<1>3. (inflectedSearch \/ dictRoute.inflected) \in BOOLEAN
  BY <1>1, RouteFields DEF RouteTypes
<1>4. Dict!OfLang(IF dictPage = "embedded" THEN dictsToUse ELSE dictRoute.dicts, dictRoute.lang)
        \subseteq Dict!AllDicts
  BY <1>1, RouteFields DEF RouteTypes, Dict!OfLang
<1> QED
  BY <1>2, <1>3, <1>4, NoInputIsInput DEF Dict!ApiRequest, Dict!Inputs

\* A render asks when the input has changed, and shows that it is loading.
LEMMA RenderKeeps ==
  ASSUME DictInv, RouteTypes', Dict!Render
  PROVE  DictInv'
<1>1. LookupTypes
  BY DictTypes DEF DictInv
<1>2. Dict!ApiRequest' \in Dict!Inputs
  <2>1. (RouteTypes => Dict!ApiRequest \in Dict!Inputs)'
    BY RequestIsInput, PTL
  <2> QED
    BY <2>1
<1> DEFINE looked == Dict!ApiRequest'
<1> HIDE DEF looked
<1>3. lookedUp' = looked /\ looked = Dict!ApiRequest' /\ looked \in Dict!Inputs
  BY <1>2 DEF Dict!Render, looked
<1>4. ASSUME LookupTypes', CurrentLookup'
      PROVE  DictInv'
  <2>1. (RouteTypes /\ LookupTypes => Dict!TypeOK)'
    BY DictTypes, PTL
  <2> QED
    BY <1>3, <1>4, <2>1 DEF DictInv
<1>5. CASE looked = lookedUp
  <2>1. UNCHANGED <<lookups, lookup, dictState, lookedUp>>
    BY <1>3, <1>5 DEF Dict!Render, looked
  <2>2. Dict!NoInput' = Dict!NoInput
    BY DEF Dict!NoInput
  <2> QED
    BY <1>1, <1>4, <2>1, <2>2 DEF DictInv, LookupTypes, CurrentLookup
<1>6. CASE looked # lookedUp /\ looked = Dict!NoInput
  <2>1. lookup' = 0 /\ UNCHANGED <<lookups, dictState>>
    BY <1>3, <1>6 DEF Dict!Render, looked
  <2>2. lookedUp' = Dict!NoInput
    BY <1>3, <1>6
  <2>3. lookup' \in 0 .. Len(lookups)
    BY <1>1, <2>1 DEF LookupTypes
  <2> QED
    BY <1>1, <1>3, <1>4, <2>1, <2>2, <2>3 DEF LookupTypes, CurrentLookup
<1>7. CASE looked # lookedUp /\ looked # Dict!NoInput
  <2> DEFINE request == [input |-> looked, open |-> TRUE]
             waiting == [kind |-> "Loading", input |-> looked]
  <2>1. /\ lookups' = Append(lookups, request) /\ lookup' = Len(lookups) + 1
        /\ dictState' = waiting
    BY <1>3, <1>7 DEF Dict!Render, looked
  <2>2. request \in LookupRequest /\ request.input = looked /\ request.open
    BY <1>3 DEF LookupRequest
  <2>3. waiting \in DictShown /\ waiting.input = looked /\ waiting.kind = "Loading"
    BY <1>3 DEF DictShown
  <2> HIDE DEF request, waiting
  <2>4. /\ lookups' \in Seq(LookupRequest) /\ Len(lookups') = Len(lookups) + 1
        /\ lookups'[Len(lookups) + 1] = request /\ Len(lookups) \in Nat
    BY <1>1, <2>1, <2>2 DEF LookupTypes
  <2>5. lookup' \in 0 .. Len(lookups') /\ lookup' \in DOMAIN lookups'
    BY <2>1, <2>4
  <2> QED
    BY <1>3, <1>4, <2>1, <2>2, <2>3, <2>4, <2>5 DEF LookupTypes, CurrentLookup
<1> QED
  BY <1>5, <1>6, <1>7

\* A search leads to a route, or passes a word, whatever dictionaries are chosen.
LEMMA SearchTypes ==
  ASSUME RouteTypes, NEW word \in LatinWords, NEW lang \in Dict!Langs, NEW inflected \in BOOLEAN,
         Dict!OnSearchQuery(word, lang, inflected), internalLink' \in BOOLEAN
  PROVE  RouteTypes'
<1>1. word \in Dict!AnyWord
  BY DEF Dict!AnyWord
<1>2. UNCHANGED <<dictPage, dictsToUse, inflectedSearch>>
  BY DEF Dict!OnSearchQuery
<1>3. CASE dictPage = "embedded"
  BY <1>1, <1>2, <1>3 DEF RouteTypes, Dict!OnSearchQuery, Route, Dict!AnyWord, Dict!AllDicts, Dict!Langs
<1>4. CASE dictPage # "embedded"
  <2> DEFINE named == IF Dict!OfLang(Dict!AllDicts, lang) = Dict!OfLang(dictsToUse, lang)
                      THEN Dict!AllDicts ELSE Dict!OfLang(dictsToUse, lang)
             route == [query |-> word, lang |-> lang, inflected |-> inflected, dicts |-> named]
  <2>1. dictRoute' = route /\ visited' = visited \cup {dictRoute'} /\ initial' = initial
    BY <1>4 DEF Dict!OnSearchQuery
  <2>2. named \subseteq Dict!AllDicts
    BY DEF RouteTypes, Dict!OfLang
  <2> HIDE DEF named
  <2>3. route \in Route
    BY <1>1, <2>2 DEF Route
  <2> HIDE DEF route
  <2> QED
    BY <1>2, <2>1, <2>3 DEF RouteTypes, Route, Dict!AnyWord, Dict!AllDicts, Dict!Langs
<1> QED
  BY <1>3, <1>4

LEMMA InitDict == Dict!Init => DictInv
<1> SUFFICES ASSUME Dict!Init PROVE DictInv
  OBVIOUS
<1>1. Dict!Landing \in Route
  BY DEF Dict!Landing, Route, Dict!AnyWord, Dict!Langs
<1>2. [kind |-> "Landing", input |-> Dict!NoInput] \in DictShown
  BY NoInputIsInput DEF DictShown
<1>3. RouteTypes
  BY <1>1 DEF Dict!Init, RouteTypes, Dict!AnyWord
<1>4. LookupTypes
  <2>1. <<>> \in Seq(LookupRequest) /\ 0 \in 0 .. Len(<<>>)
    OBVIOUS
  <2> QED
    BY <1>2, <2>1, NoInputIsInput DEF Dict!Init, LookupTypes
<1> QED
  BY <1>3, <1>4, DictTypes DEF DictInv, Dict!Init, CurrentLookup

LEMMA NextDict == DictInv /\ [Dict!Next]_(Dict!vars) => DictInv'
<1> SUFFICES ASSUME DictInv, [Dict!Next]_(Dict!vars) PROVE DictInv'
  OBVIOUS
<1>0. RouteTypes /\ LookupTypes
  BY DictTypes DEF DictInv
<1>r. Route' = Route /\ Dict!AnyWord' = Dict!AnyWord /\ Dict!AllDicts' = Dict!AllDicts
  BY DEF Route, Dict!AnyWord, Dict!AllDicts, Dict!Langs
<1>1. ASSUME NEW how \in {"page", "embedded"}, Dict!Open(how) PROVE DictInv'
  <2>1. RouteTypes'
    BY <1>0, <1>1, <1>r DEF RouteTypes, Dict!Open
  <2> QED
    BY <1>1, <2>1, RenderKeeps DEF Dict!Open
<1>2. ASSUME NEW word \in LatinWords, NEW lang \in Dict!Langs, Dict!Search(word, lang) PROVE DictInv'
  <2>1. inflectedSearch \in BOOLEAN /\ internalLink' \in BOOLEAN
    BY <1>0, <1>2 DEF RouteTypes, Dict!Search
  <2>2. RouteTypes'
    BY <1>0, <1>2, <2>1, SearchTypes DEF Dict!Search
  <2> QED
    BY <1>2, <2>2, RenderKeeps DEF Dict!Search
<1>3. ASSUME NEW word \in LatinWords, Dict!ClickWord(word) PROVE DictInv'
  <2>1. Dict!OnSearchQuery(word, "La", TRUE) /\ internalLink' \in BOOLEAN /\ Dict!Render
    BY <1>3 DEF Dict!ClickWord
  <2>2. "La" \in Dict!Langs
    BY DEF Dict!Langs
  <2>3. RouteTypes'
    BY <1>0, <2>1, <2>2, SearchTypes
  <2> QED
    BY <2>1, <2>3, RenderKeeps
<1>4. ASSUME NEW word \in LatinWords \cup GreekWords, Dict!PassWord(word) PROVE DictInv'
  <2>1. word \in Dict!AnyWord
    BY DEF Dict!AnyWord
  <2>2. RouteTypes'
    BY <1>0, <1>4, <1>r, <2>1 DEF RouteTypes, Dict!PassWord
  <2> QED
    BY <1>4, <2>2, RenderKeeps DEF Dict!PassWord
<1>5. ASSUME NEW route \in visited, Dict!PopState(route) PROVE DictInv'
  <2>1. RouteTypes'
    BY <1>0, <1>5, <1>r DEF RouteTypes, Dict!PopState
  <2> QED
    BY <1>5, <2>1, RenderKeeps DEF Dict!PopState
<1>6. ASSUME NEW dict \in Dict!AllDicts, Dict!SetDicts(dict) PROVE DictInv'
  <2>1. RouteTypes'
    BY <1>0, <1>6, <1>r DEF RouteTypes, Dict!SetDicts
  <2> QED
    BY <1>6, <2>1, RenderKeeps DEF Dict!SetDicts
<1>7. CASE Dict!ToggleInflected
  <2>1. RouteTypes'
    BY <1>0, <1>7, <1>r DEF RouteTypes, Dict!ToggleInflected
  <2> QED
    BY <1>7, <2>1, RenderKeeps DEF Dict!ToggleInflected
<1>8. ASSUME NEW l \in DOMAIN lookups, NEW kind \in {"Results", "No Results", "Error"},
             Dict!Answer(l, kind)
      PROVE  DictInv'
  <2> DEFINE settled == [lookups[l] EXCEPT !.open = FALSE]
             answer == [kind |-> kind, input |-> lookups[l].input]
  <2>1. /\ lookups' = [lookups EXCEPT ![l] = settled]
        /\ dictState' = IF l = lookup THEN answer ELSE dictState
        /\ internalLink' \in BOOLEAN
        /\ UNCHANGED <<dictPage, dictRoute, visited, initial, dictsToUse, inflectedSearch,
                       lookup, lookedUp>>
    BY <1>0, <1>8 DEF Dict!Answer, Dict!routeVars, RouteTypes
  <2>2. lookups[l] \in LookupRequest
    BY <1>0, LookupFields DEF LookupTypes
  <2>3. settled \in LookupRequest /\ settled.input = lookups[l].input
    BY <2>2 DEF LookupRequest
  <2>4. answer \in DictShown /\ answer.kind = kind /\ answer.input = lookups[l].input
    BY <2>2 DEF LookupRequest, DictShown
  <2> HIDE DEF settled, answer
  <2>5. RouteTypes'
    BY <1>0, <1>r, <2>1 DEF RouteTypes
  <2>6. LookupTypes'
    <3>1. lookups \in Seq(LookupRequest)
      BY <1>0 DEF LookupTypes
    <3>2. lookups' \in Seq(LookupRequest) /\ Len(lookups') = Len(lookups)
      <4>1. settled \in LookupRequest
        BY <2>3
      <4>2. [lookups EXCEPT ![l] = settled] \in Seq(LookupRequest)
              /\ Len([lookups EXCEPT ![l] = settled]) = Len(lookups)
        BY <3>1, <4>1, LookupReplaced
      <4> QED
        BY <2>1, <4>2
    <3>3. dictState' \in DictShown
      BY <1>0, <2>1, <2>4 DEF LookupTypes
    <3> QED
      BY <1>0, <2>1, <3>2, <3>3 DEF LookupTypes
  <2>7. CurrentLookup'
    BY <1>0, <2>1, <2>3, <2>4 DEF DictInv, CurrentLookup, Dict!NoInput, LookupTypes
  <2>8. Dict!ApiRequest' = Dict!ApiRequest
    BY <2>1 DEF Dict!ApiRequest, Dict!Query, Dict!Greek, Dict!NoInput, Dict!OfLang
  <2>9. (RouteTypes /\ LookupTypes => Dict!TypeOK)'
    BY DictTypes, PTL
  <2> QED
    BY <2>1, <2>5, <2>6, <2>7, <2>8, <2>9 DEF DictInv
<1>9. CASE UNCHANGED Dict!vars
  <2>1. UNCHANGED <<dictPage, dictRoute, visited, initial, dictsToUse, inflectedSearch,
                    lookups, lookup, lookedUp, dictState, internalLink>>
    BY <1>9 DEF Dict!vars, Dict!routeVars
  <2>2. RouteTypes' /\ LookupTypes'
    BY <1>0, <1>r, <2>1 DEF RouteTypes, LookupTypes
  <2>3. CurrentLookup'
    BY <2>1 DEF DictInv, CurrentLookup, Dict!NoInput
  <2>4. Dict!ApiRequest' = Dict!ApiRequest
    BY <2>1 DEF Dict!ApiRequest, Dict!Query, Dict!Greek, Dict!NoInput, Dict!OfLang
  <2>5. (RouteTypes /\ LookupTypes => Dict!TypeOK)'
    BY DictTypes, PTL
  <2> QED
    BY <2>1, <2>2, <2>3, <2>4, <2>5 DEF DictInv
<1> QED
  BY <1>1, <1>2, <1>3, <1>4, <1>5, <1>6, <1>7, <1>8, <1>9 DEF Dict!Next

\* Every variable of the dictionary page keeps its type in every behaviour.
THEOREM DictTypeCorrect == Dict!Spec => []Dict!TypeOK
<1>1. DictInv => Dict!TypeOK
  BY DEF DictInv
<1> QED
  BY <1>1, InitDict, NextDict, PTL DEF Dict!Spec

\* The dictionary page shows the answer to what its route, dictionaries and
\* settings ask, or waits for it (EntriesFitRoute), in whatever order words are
\* searched, settings changed and requests answered.
THEOREM EntriesAlwaysFit == Dict!Spec => []EntriesFitRoute
<1>1. DictInv => EntriesFitRoute
  <2> SUFFICES ASSUME DictInv, Dict!Query # NoneShown, ~Dict!Greek, dictPage # "closed"
               PROVE  /\ dictState.kind # "Landing" /\ dictState.input = Dict!ApiRequest
                      /\ dictState.kind = "Loading" => lookup # 0 /\ lookups[lookup].open
    BY DEF EntriesFitRoute, Dict!EntriesFitRoute
  <2>1. Dict!ApiRequest.query = Dict!Query
    BY DEF Dict!ApiRequest
  <2>2. Dict!NoInput.query = NoneShown
    BY DEF Dict!NoInput
  <2>3. lookedUp = Dict!ApiRequest /\ lookedUp # Dict!NoInput
    BY <2>1, <2>2 DEF DictInv
  <2>4. lookup # 0
    BY <2>3, DictTypes DEF DictInv, CurrentLookup, LookupTypes
  <2> QED
    BY <2>3, <2>4 DEF DictInv, CurrentLookup
<1> QED
  BY <1>1, InitDict, NextDict, PTL DEF Dict!Spec

-----------------------------------------------------------------------------
\* The library and the reader.

ReaderRoute == [path : Works \cup {"library"}, id : Seq(Nat)]
FetchedWork == [work : Works, kind : {"work", "translation"}, mounted : BOOLEAN]
FirstPage(w) == Reader!At(w, PagesOf(w)[1])

ReaderTypes ==
  /\ rRoute \in rVisited /\ rVisited \subseteq ReaderRoute
  /\ work \in Reader!States /\ translation \in Reader!States
  /\ texts \subseteq FetchedWork /\ saved \in [Works -> Seq(Nat)]

\* ShownIsOpened, part by part.
ReaderShown ==
  /\ work \in Works => work = rRoute.path /\ rRoute.id # Reader!NoId
  /\ translation \in Works => translation = rRoute.path
  /\ work = "Loading" => Reader!Fetch(rRoute.path, "work") \in texts
  /\ translation = "Loading" => Reader!Fetch(rRoute.path, "translation") \in texts

\* A reader fetches what its URL names, and there is none in the library.
ReaderOfRoute ==
  /\ \A f \in texts : f.mounted => f.work = rRoute.path
  /\ rRoute.path = "library" => work = "none" /\ translation = "none"
  /\ \A route \in rVisited : route.path = "library" => route = Reader!Library

\* The first page of a work was visited before any other section, and before a
\* spot was saved: so the history holds it when a route without a section is
\* replaced by it.
FirstPagesVisited ==
  /\ \A route \in rVisited :
       route.path # "library" /\ route.id # Reader!NoId => FirstPage(route.path) \in rVisited
  /\ \A w \in Works : saved[w] # Reader!NoId => FirstPage(w) \in rVisited

ReaderInv ==
  ReaderTypes /\ ReaderShown /\ Reader!SavedSpotsExist /\ ReaderOfRoute /\ FirstPagesVisited

LEMMA LeastNumber ==
  ASSUME NEW T, T \subseteq Nat, T # {}
  PROVE  \E x \in T : \A y \in T : x <= y
<1> DEFINE R == {ss \in Nat \X Nat : ss[1] < ss[2]}
<1>1. IsWellFoundedOn(R, Nat)
  BY NatLessThanWellFounded DEF OpToRel
<1> HIDE DEF R
<1>2. PICK x \in T : \A y \in T : ~(<<y, x>> \in R)
  BY <1>1, WFMin
<1>3. \A y \in T : ~(y < x)
  BY <1>2 DEF R
<1> QED
  BY <1>3

\* A work has a first page, and every page a name.
LEMMA PagesOfWork ==
  ASSUME Reader!ConstantsFit, NEW w \in Works
  PROVE  /\ PagesOf(w) \in Seq(Seq(Nat)) /\ Len(PagesOf(w)) \in Nat \ {0}
         /\ DOMAIN PagesOf(w) = 1 .. Len(PagesOf(w)) /\ 1 \in DOMAIN PagesOf(w)
         /\ \A p \in DOMAIN PagesOf(w) :
              /\ PagesOf(w)[p] \in Seq(Nat) /\ PagesOf(w)[p] # Reader!NoId
              /\ Len(PagesOf(w)[p]) = PageDepth
<1>1. PagesOf(w) \in Seq(Seq(Nat)) /\ PagesOf(w) # <<>>
      /\ \A p \in DOMAIN PagesOf(w) : Len(PagesOf(w)[p]) = PageDepth
  BY DEF Reader!ConstantsFit
<1>2. PageDepth \in Nat \ {0}
  BY DEF Reader!ConstantsFit
<1>3. Len(PagesOf(w)) \in Nat \ {0} /\ DOMAIN PagesOf(w) = 1 .. Len(PagesOf(w))
  BY <1>1
<1>4. \A p \in DOMAIN PagesOf(w) : PagesOf(w)[p] \in Seq(Nat)
  BY <1>1
<1> QED
  BY <1>1, <1>2, <1>3, <1>4 DEF Reader!NoId

\* A section is on a page of the work, or on none.
LEMMA MatchIsPage ==
  ASSUME Reader!ConstantsFit, NEW w \in Works, NEW id \in Seq(Nat)
  PROVE  Reader!FindMatchPage(w, id) \in DOMAIN PagesOf(w) \cup {-1}
<1> DEFINE subset == SubSeq(id, 1, IF Len(id) < PageDepth THEN Len(id) ELSE PageDepth)
           found == {p \in DOMAIN PagesOf(w) : PagesOf(w)[p] = subset}
<1>1. Reader!FindMatchPage(w, id)
        = IF found = {} THEN -1 ELSE CHOOSE p \in found : \A q \in found : p <= q
  BY DEF Reader!FindMatchPage
<1>2. found \subseteq DOMAIN PagesOf(w) /\ found \subseteq Nat
  BY PagesOfWork
<1> HIDE DEF found
<1>3. CASE found = {}
  BY <1>1, <1>3
<1>4. CASE found # {}
  <2>1. \E p \in found : \A q \in found : p <= q
    BY <1>2, <1>4, LeastNumber
  <2>2. (CHOOSE p \in found : \A q \in found : p <= q) \in found
    BY <2>1
  <2> QED
    BY <1>1, <1>2, <1>4, <2>2
<1> QED
  BY <1>3, <1>4

\* The name of a page leads to a page.
LEMMA PageIsFound ==
  ASSUME Reader!ConstantsFit, NEW w \in Works, NEW leaf \in DOMAIN PagesOf(w)
  PROVE  Reader!FindMatchPage(w, PagesOf(w)[leaf]) # -1
<1> DEFINE id == PagesOf(w)[leaf]
           subset == SubSeq(id, 1, IF Len(id) < PageDepth THEN Len(id) ELSE PageDepth)
           found == {p \in DOMAIN PagesOf(w) : PagesOf(w)[p] = subset}
<1>1. Reader!FindMatchPage(w, id)
        = IF found = {} THEN -1 ELSE CHOOSE p \in found : \A q \in found : p <= q
  BY DEF Reader!FindMatchPage
<1>2. id \in Seq(Nat) /\ Len(id) = PageDepth
  BY PagesOfWork
<1>3. PICK n \in Nat : n = PageDepth /\ n > 0
  BY DEF Reader!ConstantsFit
<1>4. subset = id
  BY <1>2, <1>3
<1>5. leaf \in found /\ found \subseteq Nat
  BY <1>4, PagesOfWork
<1> HIDE DEF found
<1>6. \E p \in found : \A q \in found : p <= q
  BY <1>5, LeastNumber
<1>7. (CHOOSE p \in found : \A q \in found : p <= q) \in found
  BY <1>6
<1>8. (CHOOSE p \in found : \A q \in found : p <= q) \in Nat
  BY <1>5, <1>7
<1>9. Reader!FindMatchPage(w, id) \in Nat
  BY <1>1, <1>5, <1>8
<1>10. \A m \in Nat : m # -1
  OBVIOUS
<1> QED
  BY <1>9, <1>10

LEMMA ReaderInvariants ==
  ReaderInv => Reader!TypeOK /\ Reader!WorksAndSpotsFit
BY DEF ReaderInv, ReaderTypes, ReaderShown, ReaderRoute, FetchedWork, Reader!TypeOK,
       Reader!WorksAndSpotsFit, Reader!ShownIsOpened, Reader!Loaded

LEMMA NamesAreNoWorks ==
  ASSUME Reader!ConstantsFit
  PROVE  /\ "library" \notin Works /\ "none" \notin Works
         /\ "Loading" \notin Works /\ "Error" \notin Works
BY DEF Reader!ConstantsFit

LEMMA AtRoute ==
  ASSUME NEW w \in Works \cup {"library"}, NEW id \in Seq(Nat)
  PROVE  /\ Reader!At(w, id) \in ReaderRoute
         /\ Reader!At(w, id).path = w /\ Reader!At(w, id).id = id
BY DEF Reader!At, ReaderRoute

LEMMA RouteParts ==
  ASSUME NEW route \in ReaderRoute
  PROVE  /\ route.path \in Works \cup {"library"} /\ route.id \in Seq(Nat)
         /\ route = Reader!At(route.path, route.id)
BY DEF Reader!At, ReaderRoute

LEMMA FetchParts ==
  ASSUME NEW w \in Works, NEW kind \in {"work", "translation"}
  PROVE  /\ Reader!Fetch(w, kind) \in FetchedWork
         /\ Reader!Fetch(w, kind).work = w /\ Reader!Fetch(w, kind).kind = kind
         /\ Reader!Fetch(w, kind).mounted = TRUE
BY DEF Reader!Fetch, FetchedWork

LEMMA UnmountedFetches ==
  ASSUME texts \subseteq FetchedWork
  PROVE  Reader!Unmounted \subseteq FetchedWork /\ \A f \in Reader!Unmounted : f.mounted = FALSE
<1> SUFFICES ASSUME NEW f \in texts
             PROVE  [f EXCEPT !.mounted = FALSE] \in FetchedWork
                    /\ [f EXCEPT !.mounted = FALSE].mounted = FALSE
  BY DEF Reader!Unmounted
<1>1. f \in FetchedWork
  OBVIOUS
<1> QED
  BY <1>1 DEF FetchedWork

LEMMA LibraryRoute ==
  Reader!Library \in ReaderRoute /\ Reader!Library.path = "library" /\ Reader!Library.id = Reader!NoId
<1>1. <<>> \in Seq(Nat)
  OBVIOUS
<1> QED
  BY <1>1 DEF Reader!Library, Reader!NoId, ReaderRoute

\* The spot of a work is saved at one of its pages.
LEMMA SpotIsSaved ==
  ASSUME Reader!ConstantsFit, saved \in [Works -> Seq(Nat)], Reader!SavedSpotsExist,
         NEW w \in Works, NEW leaf \in DOMAIN PagesOf(w), saved' = [saved EXCEPT ![w] = PagesOf(w)[leaf]]
  PROVE  saved' \in [Works -> Seq(Nat)] /\ Reader!SavedSpotsExist'
<1>1. PagesOf(w)[leaf] \in Seq(Nat)
  BY PagesOfWork
<1>2. saved' \in [Works -> Seq(Nat)]
  BY <1>1
<1>3. ASSUME NEW v \in Works, saved'[v] # Reader!NoId
      PROVE  Reader!FindMatchPage(v, saved'[v]) # -1
  <2>1. CASE v = w
    BY <2>1, PageIsFound
  <2>2. CASE v # w
    BY <1>3, <2>2 DEF Reader!SavedSpotsExist
  <2> QED
    BY <2>1, <2>2
<1>4. Reader!SavedSpotsExist'
  BY <1>3 DEF Reader!SavedSpotsExist, Reader!FindMatchPage, Reader!NoId
<1> QED
  BY <1>2, <1>4

\* A work is opened from the library.
LEMMA Enters ==
  ASSUME Reader!ConstantsFit, ReaderInv, NEW route \in ReaderRoute,
         rRoute.path = "library", route.path \in Works,
         route.id # Reader!NoId => FirstPage(route.path) \in rVisited,
         Reader!EnterWork(route), rVisited' = rVisited \cup {rRoute'}
  PROVE  ReaderInv'
<1>1. /\ work' = "Loading" /\ translation' = "none" /\ rRoute' = route /\ saved' = saved
      /\ texts' = Reader!Unmounted \cup {Reader!Fetch(route.path, "work")}
  BY DEF Reader!EnterWork
<1>2. /\ Reader!Fetch(route.path, "work") \in FetchedWork
      /\ Reader!Fetch(route.path, "work").work = route.path
  BY FetchParts
<1>3. Reader!Unmounted \subseteq FetchedWork /\ \A f \in Reader!Unmounted : f.mounted = FALSE
  BY UnmountedFetches DEF ReaderInv, ReaderTypes
<1>4. ReaderTypes'
  BY <1>1, <1>2, <1>3 DEF ReaderInv, ReaderTypes, Reader!States, ReaderRoute, FetchedWork
<1>5. ReaderShown'
  BY <1>1, NamesAreNoWorks DEF ReaderShown, Reader!Fetch
<1>6. Reader!SavedSpotsExist'
  BY <1>1 DEF ReaderInv, Reader!SavedSpotsExist, Reader!FindMatchPage, Reader!NoId
<1>7. ReaderOfRoute'
  BY <1>1, <1>2, <1>3, NamesAreNoWorks DEF ReaderInv, ReaderOfRoute, Reader!Library, Reader!NoId
<1>8. FirstPagesVisited'
  BY <1>1 DEF ReaderInv, FirstPagesVisited, FirstPage, Reader!At, Reader!NoId
<1> QED
  BY <1>4, <1>5, <1>6, <1>7, <1>8 DEF ReaderInv

\* The reader goes to a section of the work that is loaded, and may save its page.
LEMMA Moves ==
  ASSUME Reader!ConstantsFit, ReaderInv, work \in Works, NEW id \in Seq(Nat), id # Reader!NoId,
         rRoute' = Reader!At(rRoute.path, id), rVisited' = rVisited \cup {rRoute'},
         UNCHANGED <<work, translation, texts>>,
         saved' = saved \/ \E leaf \in DOMAIN PagesOf(work) :
                             saved' = [saved EXCEPT ![work] = PagesOf(work)[leaf]]
  PROVE  ReaderInv'
<1>1. work = rRoute.path /\ rRoute.id # Reader!NoId /\ rRoute \in rVisited /\ work # "library"
  BY NamesAreNoWorks DEF ReaderInv, ReaderShown, ReaderTypes
<1>2. FirstPage(work) \in rVisited
  BY <1>1 DEF ReaderInv, FirstPagesVisited
<1>3. rRoute' \in ReaderRoute /\ rRoute'.path = work /\ rRoute'.id = id
  BY <1>1, AtRoute
<1>4. saved' \in [Works -> Seq(Nat)] /\ Reader!SavedSpotsExist'
  <2>1. CASE saved' = saved
    BY <2>1 DEF ReaderInv, ReaderTypes, Reader!SavedSpotsExist, Reader!FindMatchPage, Reader!NoId
  <2>2. ASSUME NEW leaf \in DOMAIN PagesOf(work), saved' = [saved EXCEPT ![work] = PagesOf(work)[leaf]]
        PROVE  saved' \in [Works -> Seq(Nat)] /\ Reader!SavedSpotsExist'
    <3>1. saved \in [Works -> Seq(Nat)] /\ Reader!SavedSpotsExist
      BY DEF ReaderInv, ReaderTypes
    <3> QED
      BY <2>2, <3>1, SpotIsSaved
  <2> QED
    BY <2>1, <2>2
<1>5. \A w \in Works : w # work => saved'[w] = saved[w]
  BY DEF ReaderInv, ReaderTypes
<1>6. ReaderTypes'
  BY <1>3, <1>4 DEF ReaderInv, ReaderTypes, Reader!States, ReaderRoute, FetchedWork
<1>7. ReaderShown'
  BY <1>1, <1>3 DEF ReaderInv, ReaderShown, Reader!Fetch, Reader!NoId
<1>8. ReaderOfRoute'
  BY <1>1, <1>3 DEF ReaderInv, ReaderOfRoute, Reader!Library, Reader!NoId
<1>9. FirstPagesVisited'
  BY <1>2, <1>3, <1>5 DEF ReaderInv, FirstPagesVisited, FirstPage, Reader!At, Reader!NoId
<1> QED
  BY <1>4, <1>6, <1>7, <1>8, <1>9 DEF ReaderInv

LEMMA InitReader ==
  ASSUME Reader!ConstantsFit
  PROVE  Reader!Init => ReaderInv
<1> SUFFICES ASSUME Reader!Init PROVE ReaderInv
  OBVIOUS
<1>1. /\ rRoute = Reader!Library /\ rVisited = {Reader!Library}
      /\ work = "none" /\ translation = "none" /\ texts = {}
      /\ saved = [w \in Works |-> Reader!NoId]
  BY DEF Reader!Init
<1>2. Reader!NoId \in Seq(Nat)
  BY DEF Reader!NoId
<1>3. ReaderTypes
  BY <1>1, <1>2, LibraryRoute DEF ReaderTypes, Reader!States
<1> QED
  BY <1>1, <1>3, LibraryRoute, NamesAreNoWorks
     DEF ReaderInv, ReaderShown, ReaderOfRoute, FirstPagesVisited, Reader!SavedSpotsExist

LEMMA HistoryKeeps ==
  ASSUME Reader!ConstantsFit, ReaderInv, NEW route \in rVisited, Reader!PopState(route),
         DirectJumps = FALSE
  PROVE  ReaderInv'
<1>0. route \in ReaderRoute /\ rRoute \in ReaderRoute /\ rRoute \in rVisited
  BY DEF ReaderInv, ReaderTypes
<1>1. CASE route.path = rRoute.path /\ route.id = Reader!NoId /\ work \in Works
  <2>1. /\ rRoute' = Reader!At(route.path, PagesOf(work)[1])
        /\ saved' = [saved EXCEPT ![work] = PagesOf(work)[1]]
        /\ UNCHANGED <<rVisited, work, translation, texts>>
    BY <1>1 DEF Reader!PopState, Reader!Loaded
  <2>2. work = rRoute.path /\ FirstPage(work) \in rVisited
    BY <1>0, <1>1, NamesAreNoWorks DEF ReaderInv, ReaderShown, FirstPagesVisited
  <2>3. rVisited' = rVisited \cup {rRoute'}
    BY <1>1, <2>1, <2>2 DEF FirstPage
  <2>4. 1 \in DOMAIN PagesOf(work) /\ PagesOf(work)[1] \in Seq(Nat) /\ PagesOf(work)[1] # Reader!NoId
    BY <1>1, PagesOfWork
  <2> QED
    BY <1>1, <2>1, <2>3, <2>4, Moves
<1>2. CASE route.path = rRoute.path /\ ~(route.id = Reader!NoId /\ work \in Works)
  <2>1. rRoute' = route /\ UNCHANGED <<saved, rVisited, work, translation, texts>>
    BY <1>2 DEF Reader!PopState, Reader!Loaded
  <2>2. ReaderTypes'
    BY <1>0, <2>1 DEF ReaderInv, ReaderTypes, Reader!States, ReaderRoute, FetchedWork
  <2>3. ReaderShown'
    BY <1>2, <2>1 DEF ReaderInv, ReaderShown, Reader!Fetch, Reader!NoId
  <2>4. Reader!SavedSpotsExist'
    BY <2>1 DEF ReaderInv, Reader!SavedSpotsExist, Reader!FindMatchPage, Reader!NoId
  <2>5. ReaderOfRoute'
    BY <1>2, <2>1 DEF ReaderInv, ReaderOfRoute, Reader!Library, Reader!NoId
  <2>6. FirstPagesVisited'
    BY <2>1 DEF ReaderInv, FirstPagesVisited, FirstPage, Reader!At, Reader!NoId
  <2> QED
    BY <2>2, <2>3, <2>4, <2>5, <2>6 DEF ReaderInv
<1>3. CASE route.path # rRoute.path /\ route = Reader!Library
  <2>1. /\ rRoute' = route /\ work' = "none" /\ translation' = "none"
        /\ texts' = Reader!Unmounted /\ UNCHANGED <<rVisited, saved>>
    BY <1>3 DEF Reader!PopState
  <2>2. Reader!Unmounted \subseteq FetchedWork /\ \A f \in Reader!Unmounted : f.mounted = FALSE
    BY UnmountedFetches DEF ReaderInv, ReaderTypes
  <2>3. ReaderTypes'
    BY <1>0, <2>1, <2>2 DEF ReaderInv, ReaderTypes, Reader!States, ReaderRoute, FetchedWork
  <2>4. ReaderShown'
    BY <2>1, NamesAreNoWorks DEF ReaderShown
  <2>5. Reader!SavedSpotsExist'
    BY <2>1 DEF ReaderInv, Reader!SavedSpotsExist, Reader!FindMatchPage, Reader!NoId
  <2>6. ReaderOfRoute'
    BY <2>1, <2>2 DEF ReaderInv, ReaderOfRoute, Reader!Library, Reader!NoId
  <2>7. FirstPagesVisited'
    BY <2>1 DEF ReaderInv, FirstPagesVisited, FirstPage, Reader!At, Reader!NoId
  <2> QED
    BY <2>3, <2>4, <2>5, <2>6, <2>7 DEF ReaderInv
<1>4. CASE route.path # rRoute.path /\ route # Reader!Library
  <2>1. /\ rRoute = Reader!Library /\ Reader!EnterWork(route)
        /\ rVisited' = rVisited \cup {rRoute'}
    BY <1>4 DEF Reader!PopState
  <2>2. rRoute.path = "library" /\ route.path \in Works
    BY <1>0, <1>4, <2>1, LibraryRoute, RouteParts DEF ReaderInv, ReaderOfRoute
  <2>3. route.id # Reader!NoId => FirstPage(route.path) \in rVisited
    BY <2>2, NamesAreNoWorks DEF ReaderInv, FirstPagesVisited
  <2> QED
    BY <1>0, <2>1, <2>2, <2>3, Enters
<1> QED
  BY <1>1, <1>2, <1>3, <1>4

LEMMA AnswerKeeps ==
  ASSUME Reader!ConstantsFit, ReaderInv, NEW f \in texts, NEW ok \in BOOLEAN,
         Reader!OnWorkState(f, ok)
  PROVE  ReaderInv'
<1> DEFINE state == IF ok THEN f.work ELSE "Error"
           redirects == f.mounted /\ f.kind = "work" /\ ok /\ rRoute.id = Reader!NoId
<1>0. /\ texts' = texts \ {f}
      /\ work' = IF f.mounted /\ f.kind = "work" THEN state ELSE work
      /\ translation' = IF f.mounted /\ f.kind = "translation" THEN state ELSE translation
      /\ rRoute' = IF redirects THEN FirstPage(f.work) ELSE rRoute
      /\ rVisited' = rVisited \cup {rRoute'}
      /\ saved' = IF redirects THEN [saved EXCEPT ![f.work] = PagesOf(f.work)[1]] ELSE saved
  <2>1. f.mounted => f.work = rRoute.path
    BY DEF ReaderInv, ReaderOfRoute
  <2> QED
    BY <2>1 DEF Reader!OnWorkState, FirstPage
<1>1. f \in FetchedWork /\ f.work \in Works /\ f.kind \in {"work", "translation"} /\ f.mounted \in BOOLEAN
  BY DEF ReaderInv, ReaderTypes, FetchedWork
<1>2. f.mounted => f.work = rRoute.path
  BY DEF ReaderInv, ReaderOfRoute
<1>3. rRoute \in rVisited /\ rVisited \subseteq ReaderRoute
  BY DEF ReaderInv, ReaderTypes
<1>4. /\ 1 \in DOMAIN PagesOf(f.work) /\ PagesOf(f.work)[1] \in Seq(Nat)
      /\ PagesOf(f.work)[1] # Reader!NoId
  BY <1>1, PagesOfWork
<1>5. /\ FirstPage(f.work) \in ReaderRoute /\ FirstPage(f.work).path = f.work
      /\ FirstPage(f.work).id # Reader!NoId
  BY <1>1, <1>4, AtRoute DEF FirstPage
<1>6. state \in Reader!States /\ state # "Loading" /\ state # "none" /\ (state \in Works => state = f.work)
  BY <1>1, NamesAreNoWorks DEF Reader!States
<1>7. saved' \in [Works -> Seq(Nat)] /\ Reader!SavedSpotsExist'
  <2>1. CASE redirects
    BY <1>0, <1>1, <1>4, <2>1, SpotIsSaved DEF ReaderInv, ReaderTypes
  <2>2. CASE ~redirects
    BY <1>0, <2>2 DEF ReaderInv, ReaderTypes, Reader!SavedSpotsExist, Reader!FindMatchPage, Reader!NoId
  <2> QED
    BY <2>1, <2>2
<1>8. rRoute'.path = rRoute.path /\ rRoute' \in ReaderRoute
      /\ (rRoute.id # Reader!NoId => rRoute' = rRoute)
  BY <1>0, <1>2, <1>3, <1>5
<1>9. ~f.mounted \/ f.kind # "work" => f # Reader!Fetch(rRoute.path, "work")
  BY DEF Reader!Fetch
<1>10. ~f.mounted \/ f.kind # "translation" => f # Reader!Fetch(rRoute.path, "translation")
  BY DEF Reader!Fetch
<1>11. \A w \in Works : w # f.work \/ ~redirects => saved'[w] = saved[w]
  BY <1>0 DEF ReaderInv, ReaderTypes
<1>12. redirects => rRoute' = FirstPage(f.work) /\ FirstPage(f.work) \in rVisited'
  BY <1>0
<1>13. ~redirects => rRoute' = rRoute /\ rVisited' = rVisited
  BY <1>0, <1>3
<1>14. f.mounted /\ f.kind = "work" /\ state \in Works => redirects \/ rRoute.id # Reader!NoId
  BY <1>1, NamesAreNoWorks
<1>15. redirects => f.mounted /\ f.kind = "work"
  OBVIOUS
<1> HIDE DEF state, redirects
<1>16. ReaderTypes'
  BY <1>0, <1>6, <1>7, <1>8 DEF ReaderInv, ReaderTypes, Reader!States, ReaderRoute, FetchedWork
<1>17. ReaderShown'
  <2>1. work' \in Works => work' = rRoute'.path
    BY <1>0, <1>2, <1>6, <1>8 DEF ReaderInv, ReaderShown
  <2>2. work' \in Works => rRoute'.id # Reader!NoId
    BY <1>0, <1>5, <1>12, <1>13, <1>14 DEF ReaderInv, ReaderShown
  <2>3. translation' \in Works => translation' = rRoute'.path
    BY <1>0, <1>2, <1>6, <1>8 DEF ReaderInv, ReaderShown
  <2>4. work' = "Loading" => Reader!Fetch(rRoute'.path, "work") \in texts'
    BY <1>0, <1>6, <1>8, <1>9 DEF ReaderInv, ReaderShown
  <2>5. translation' = "Loading" => Reader!Fetch(rRoute'.path, "translation") \in texts'
    BY <1>0, <1>6, <1>8, <1>10 DEF ReaderInv, ReaderShown
  <2> QED
    BY <2>1, <2>2, <2>3, <2>4, <2>5 DEF ReaderShown, Reader!Fetch, Reader!NoId
<1>18. ReaderOfRoute'
  <2>1. \A g \in texts' : g.mounted => g.work = rRoute'.path
    BY <1>0, <1>8 DEF ReaderInv, ReaderOfRoute
  <2>2. rRoute'.path = "library" => work' = "none" /\ translation' = "none"
    BY <1>0, <1>1, <1>2, <1>8, NamesAreNoWorks DEF ReaderInv, ReaderOfRoute
  <2>3. \A route \in rVisited' : route.path = "library" => route = Reader!Library
    BY <1>0, <1>1, <1>5, <1>12, <1>13, NamesAreNoWorks DEF ReaderInv, ReaderOfRoute
  <2> QED
    BY <2>1, <2>2, <2>3 DEF ReaderOfRoute, Reader!Library, Reader!NoId
<1>19. FirstPagesVisited'
  <2>1. ASSUME NEW route \in rVisited', route.path # "library", route.id # Reader!NoId
        PROVE  FirstPage(route.path) \in rVisited'
    BY <1>0, <1>5, <1>12, <1>13, <2>1 DEF ReaderInv, FirstPagesVisited
  <2>2. ASSUME NEW w \in Works, saved'[w] # Reader!NoId
        PROVE  FirstPage(w) \in rVisited'
    BY <1>0, <1>11, <1>12, <2>2 DEF ReaderInv, FirstPagesVisited
  <2> QED
    BY <2>1, <2>2 DEF FirstPagesVisited, FirstPage, Reader!At, Reader!NoId
<1> QED
  BY <1>7, <1>16, <1>17, <1>18, <1>19 DEF ReaderInv

LEMMA NextReader ==
  ASSUME Reader!ConstantsFit, DirectJumps = FALSE
  PROVE  ReaderInv /\ [Reader!Next]_(Reader!vars) => ReaderInv'
<1> SUFFICES ASSUME ReaderInv, [Reader!Next]_(Reader!vars) PROVE ReaderInv'
  OBVIOUS
<1>0. rRoute \in ReaderRoute /\ saved \in [Works -> Seq(Nat)] /\ rRoute \in rVisited
  BY DEF ReaderInv, ReaderTypes
<1>1. ASSUME NEW w \in Works, Reader!OnWorkSelected(w) PROVE ReaderInv'
  <2>1. /\ rRoute = Reader!Library /\ Reader!EnterWork(Reader!At(w, saved[w]))
        /\ rVisited' = rVisited \cup {rRoute'}
    BY <1>1 DEF Reader!OnWorkSelected
  <2>2. saved[w] \in Seq(Nat)
    BY <1>0
  <2>3. /\ Reader!At(w, saved[w]) \in ReaderRoute
        /\ Reader!At(w, saved[w]).path = w /\ Reader!At(w, saved[w]).id = saved[w]
    BY <2>2, AtRoute
  <2>4. saved[w] # Reader!NoId => FirstPage(w) \in rVisited
    BY DEF ReaderInv, FirstPagesVisited
  <2>5. rRoute.path = "library"
    BY <2>1, LibraryRoute
  <2> QED
    BY <2>1, <2>3, <2>4, <2>5, Enters
<1>2. ASSUME NEW route \in rVisited, Reader!PopState(route) PROVE ReaderInv'
  BY <1>2, HistoryKeeps
<1>3. ASSUME NEW f \in texts, NEW ok \in BOOLEAN, Reader!OnWorkState(f, ok) PROVE ReaderInv'
  BY <1>3, AnswerKeeps
<1>4. ASSUME work \in Works, NEW leaf \in DOMAIN PagesOf(work),
             Reader!NavigateToSection(PagesOf(work)[leaf]),
             UNCHANGED <<work, translation, texts>>
      PROVE  ReaderInv'
  <2>1. PagesOf(work)[leaf] \in Seq(Nat) /\ PagesOf(work)[leaf] # Reader!NoId
    BY <1>4, PagesOfWork
  <2>2. /\ rRoute' = Reader!At(rRoute.path, PagesOf(work)[leaf])
        /\ rVisited' = rVisited \cup {rRoute'}
        /\ saved' = [saved EXCEPT ![work] = PagesOf(work)[leaf]]
    BY <1>4 DEF Reader!NavigateToSection, Reader!Visit
  <2> QED
    BY <1>4, <2>1, <2>2, Moves
<1>5. ASSUME NEW offset \in {-1, 1}, Reader!IncrementPage(offset) PROVE ReaderInv'
  <2> DEFINE to == Reader!CurrentPage + offset
             last == Len(PagesOf(work))
             leaf == IF to < 1 THEN 1 ELSE IF to > last THEN last ELSE to
  <2>1. /\ work \in Works /\ Reader!CurrentPage > 0
        /\ Reader!NavigateToSection(PagesOf(work)[leaf]) /\ UNCHANGED <<work, translation, texts>>
    BY <1>5 DEF Reader!IncrementPage, Reader!Loaded
  <2>2. last \in Nat \ {0} /\ DOMAIN PagesOf(work) = 1 .. last
    BY <2>1, PagesOfWork
  <2>3. rRoute.id \in Seq(Nat)
    BY <1>0, RouteParts
  <2>4. Reader!CurrentPage \in DOMAIN PagesOf(work) \cup {-1, 0}
    BY <2>1, <2>3, MatchIsPage DEF Reader!CurrentPage
  <2>5. Reader!CurrentPage \in Int
    BY <2>2, <2>4
  <2>6. to \in Int
    BY <2>5
  <2> HIDE DEF to, last
  <2>7. leaf \in 1 .. last
    BY <2>2, <2>6
  <2> HIDE DEF leaf
  <2> QED
    BY <1>4, <2>1, <2>2, <2>7
<1>6. ASSUME NEW w \in Works, NEW leaf \in DOMAIN PagesOf(w), Reader!Browse(leaf) PROVE ReaderInv'
  BY <1>4, <1>6 DEF Reader!Browse, Reader!Loaded
<1>7. ASSUME NEW id \in TypedIds, Reader!JumpToSection(id) PROVE ReaderInv'
  <2>1. id \in Seq(Nat) /\ id # Reader!NoId
    BY DEF Reader!ConstantsFit, Reader!NoId
  <2>2. /\ work \in Works /\ rRoute' = Reader!At(rRoute.path, id)
        /\ rVisited' = rVisited \cup {rRoute'}
        /\ saved' = saved /\ UNCHANGED <<work, translation, texts>>
    BY <1>7 DEF Reader!JumpToSection, Reader!Loaded, Reader!Visit
  <2> QED
    BY <2>1, <2>2, Moves
<1>8. CASE Reader!LoadTranslation
  <2>1. /\ work \in Works /\ translation' = "Loading"
        /\ texts' = texts \cup {Reader!Fetch(work, "translation")}
        /\ UNCHANGED <<rRoute, rVisited, work, saved>>
    BY <1>8 DEF Reader!LoadTranslation, Reader!Loaded
  <2>2. /\ Reader!Fetch(work, "translation") \in FetchedWork
        /\ Reader!Fetch(work, "translation").work = work
    BY <2>1, FetchParts
  <2>3. work = rRoute.path /\ work # "library"
    BY <2>1, NamesAreNoWorks DEF ReaderInv, ReaderShown
  <2>4. ReaderTypes'
    BY <2>1, <2>2 DEF ReaderInv, ReaderTypes, Reader!States, ReaderRoute, FetchedWork
  <2>5. ReaderShown'
    BY <2>1, <2>3, NamesAreNoWorks DEF ReaderInv, ReaderShown, Reader!Fetch, Reader!NoId
  <2>6. Reader!SavedSpotsExist'
    BY <2>1 DEF ReaderInv, Reader!SavedSpotsExist, Reader!FindMatchPage, Reader!NoId
  <2>7. ReaderOfRoute'
    BY <2>1, <2>2, <2>3 DEF ReaderInv, ReaderOfRoute, Reader!Library, Reader!NoId
  <2>8. FirstPagesVisited'
    BY <2>1 DEF ReaderInv, FirstPagesVisited, FirstPage, Reader!At, Reader!NoId
  <2> QED
    BY <2>4, <2>5, <2>6, <2>7, <2>8 DEF ReaderInv
<1>9. CASE UNCHANGED Reader!vars
  <2>1. UNCHANGED <<rRoute, rVisited, work, translation, texts, saved>>
    BY <1>9 DEF Reader!vars
  <2>2. ReaderTypes' /\ ReaderShown'
    BY <2>1 DEF ReaderInv, ReaderTypes, ReaderShown, Reader!States, ReaderRoute, FetchedWork,
                Reader!Fetch, Reader!NoId
  <2>3. Reader!SavedSpotsExist'
    BY <2>1 DEF ReaderInv, Reader!SavedSpotsExist, Reader!FindMatchPage, Reader!NoId
  <2>4. ReaderOfRoute' /\ FirstPagesVisited'
    BY <2>1 DEF ReaderInv, ReaderOfRoute, FirstPagesVisited, FirstPage, Reader!At,
                Reader!Library, Reader!NoId
  <2> QED
    BY <2>2, <2>3, <2>4 DEF ReaderInv
<1> QED
  BY <1>1, <1>2, <1>3, <1>5, <1>6, <1>7, <1>8, <1>9 DEF Reader!Next

\* Every variable of the reader keeps its type in every behaviour, so that the
\* URL is always one of the history.
THEOREM ReaderTypeCorrect ==
  ASSUME Reader!ConstantsFit, DirectJumps = FALSE
  PROVE  Reader!Spec => []Reader!TypeOK
BY ReaderInvariants, InitReader, NextReader, PTL DEF Reader!Spec

\* The reader shows the work in its URL, and every saved spot exists
\* (WorksAndSpotsFit), for any works, pages, typed sections and late answers,
\* if the history does not lead from one work to another at once.
THEOREM WorksAndSpotsAlwaysFit ==
  ASSUME Reader!ConstantsFit, DirectJumps = FALSE
  PROVE  Reader!Spec => []Reader!WorksAndSpotsFit
BY ReaderInvariants, InitReader, NextReader, PTL DEF Reader!Spec

-----------------------------------------------------------------------------
\* The reader of imported texts.

Awaited == [kind : {"read", "scrape", "saved"}, title : External!Texts, id : Nat]
Storing == [kind : {"list", "delete", "add"}, title : External!Texts \cup {"none"}]
LinkImport == [url : Urls, mounted : BOOLEAN, id : Nat, step : {"scrape", "save", "list"}]

ExternalTypes ==
  /\ External!TypeOK
  /\ awaited \subseteq Awaited /\ storing \subseteq Storing /\ linkImports \subseteq LinkImport
  /\ \A op \in storing : op.kind = "add" => op.title \in External!Texts

\* A list that is not what the store has will be read again.
ListsFollow ==
  contentIndex # savedRows =>
    (\E op \in storing : op.kind = "list") \/ (\E i \in linkImports : i.step = "list")

\* The text of a URL is there, or awaited; the form waits for what it started.
TextFollows ==
  /\ tab = "Text reader" => readerText # "null"
  /\ fromUrl # "none" => readerText # "null"
  /\ readerText = "READER_LOADING" => \E l \in awaited : l.kind # "saved"
  /\ processState = "Processing" => \E i \in linkImports : i.mounted

\* If one text at a time is asked, the one that is awaited is the one that was
\* asked last, and the parameter is its URL or that of the text that is there,
\* or is gone.
OneAtATime ==
  /\ \A l, m \in awaited : l = m
  /\ \A l \in awaited :
       /\ l.title = lastAsked
       /\ IF l.kind = "saved" THEN l.title \in Titles
          ELSE l.title \in Urls /\ fromUrl \in {"none", l.title} /\ readerText = "READER_LOADING"
  /\ readerText \in External!Texts => fromUrl \in {"none", readerText}
  /\ awaited = {} /\ lastAsked \in Urls => readerText \in {lastAsked, "READER_ERROR"}

ExternalInv == ExternalTypes /\ ListsFollow /\ TextFollows /\ (~overlapped => OneAtATime)

\* The names of what is not a text.
LEMMA NamesAreNoTexts ==
  ASSUME External!ConstantsFit
  PROVE  /\ \A t \in External!Texts : t \notin {"none", "null", "READER_LOADING", "READER_ERROR"}
         /\ \A t \in Urls : t \in External!Texts /\ t \notin Titles
         /\ \A t \in Titles : t \in External!Texts
BY DEF External!ConstantsFit, External!Texts

LEMMA ExternalHolds ==
  ASSUME External!ConstantsFit, ExternalInv
  PROVE  External!TypeOK /\ External!ImportsFit
<1>1. External!TypeOK /\ External!ListIsStored
  BY DEF ExternalInv, ExternalTypes, ListsFollow, External!ListIsStored
<1>2. External!ShownIsAsked
  BY NamesAreNoTexts
     DEF ExternalInv, OneAtATime, External!ShownIsAsked, External!Shown, External!LinkOffered
<1>3. External!ReaderHasText
  BY DEF ExternalInv, TextFollows, External!ReaderHasText
<1> QED
  BY <1>1, <1>2, <1>3 DEF External!ImportsFit

LEMMA InitExternal ==
  ASSUME External!ConstantsFit, External!Init
  PROVE  ExternalInv
<1>1. actionsLeft \in 0 .. MaxActions
  <2>1. MaxActions \in Nat
    BY DEF External!ConstantsFit
  <2>2. actionsLeft = MaxActions
    BY DEF External!Init
  <2> QED
    BY <2>1, <2>2
<1> USE DEF External!Init
<1>2. ExternalTypes
  <2>1. [kind |-> "list", title |-> "none"] \in Storing
    BY DEF Storing
  <2>2. External!TypeOK
    BY <1>1 DEF External!TypeOK
  <2>4. storing = {[kind |-> "list", title |-> "none"]} /\ awaited = {} /\ linkImports = {}
    OBVIOUS
  <2>3. storing \subseteq Storing /\ \A op \in storing : op.kind # "add"
    <3> DEFINE first == [kind |-> "list", title |-> "none"]
    <3>1. first \in Storing /\ first.kind # "add" /\ storing = {first}
      BY <2>1, <2>4
    <3> HIDE DEF first
    <3> QED
      BY <3>1
  <2> QED
    BY <2>2, <2>3, <2>4 DEF ExternalTypes
<1>3. ListsFollow /\ TextFollows
  BY DEF ListsFollow, TextFollows
<1>4. OneAtATime
  BY DEF OneAtATime, External!ConstantsFit, External!Texts
<1> QED
  BY <1>2, <1>3, <1>4 DEF ExternalInv

LEMMA ActionsAreFinite ==
  ASSUME External!ConstantsFit, ExternalInv
  PROVE  MaxActions \in Nat /\ actionsLeft \in Nat /\ actionsLeft <= MaxActions
<1>1. MaxActions \in Nat
  BY DEF External!ConstantsFit
<1>2. actionsLeft \in 0 .. MaxActions
  BY DEF ExternalInv, ExternalTypes, External!TypeOK
<1> QED
  BY <1>1, <1>2

LEMMA ActionCounted ==
  ASSUME External!ConstantsFit, ExternalInv, External!Do
  PROVE  actionsLeft' \in 0 .. MaxActions
<1>1. MaxActions \in Nat /\ actionsLeft \in Nat /\ actionsLeft <= MaxActions
  BY ActionsAreFinite
<1>2. actionsLeft > 0 /\ actionsLeft' = actionsLeft - 1
  BY DEF External!Do
<1> QED
  BY <1>1, <1>2

LEMMA AwaitedFields ==
  ASSUME ExternalInv, NEW l \in awaited
  PROVE  l \in Awaited /\ l.kind \in {"read", "scrape", "saved"} /\ l.title \in External!Texts /\ l.id \in Nat
<1>1. l \in Awaited
  BY DEF ExternalInv, ExternalTypes
<1> QED
  BY <1>1 DEF Awaited

LEMMA StoringFields ==
  ASSUME ExternalInv, NEW op \in storing
  PROVE  /\ op \in Storing /\ op.title \in External!Texts \cup {"none"}
         /\ op.kind = "add" => op.title \in External!Texts
<1>1. op \in Storing
  BY DEF ExternalInv, ExternalTypes
<1> QED
  BY <1>1 DEF Storing, ExternalInv, ExternalTypes

LEMMA ImportFields ==
  ASSUME ExternalInv, NEW i \in linkImports
  PROVE  /\ i \in LinkImport /\ i.url \in Urls /\ i.mounted \in BOOLEAN
         /\ i.step \in {"scrape", "save", "list"}
         /\ [i EXCEPT !.mounted = FALSE] \in LinkImport
         /\ \A s \in {"save", "list"} :
              [i EXCEPT !.step = s] \in LinkImport /\ [i EXCEPT !.step = s].step = s
              /\ [i EXCEPT !.step = s].mounted = i.mounted
         /\ [i EXCEPT !.mounted = FALSE].step = i.step
<1>1. i \in LinkImport
  BY DEF ExternalInv, ExternalTypes
<1> QED
  BY <1>1 DEF LinkImport

\* A text is asked from its URL.
LEMMA FetchKeeps ==
  ASSUME External!ConstantsFit, ExternalInv, NEW url \in Urls, External!FetchFromUrl(url)
  PROVE  /\ fromUrl' \in Urls /\ tab' = "Text reader" /\ readerText' = "READER_LOADING" /\ awaited' \subseteq Awaited
         /\ \E l \in awaited' : l.kind # "saved"
         /\ ~overlapped' => OneAtATime'
<1> DEFINE load == External!Load("read", url, actionsLeft)
<1>1. /\ fromUrl' = url /\ tab' = "Text reader" /\ readerText' = "READER_LOADING" /\ awaited' = awaited \cup {load}
      /\ lastAsked' = url /\ overlapped' = (overlapped \/ awaited # {})
  BY DEF External!FetchFromUrl, External!Asks
<1>2. load \in Awaited /\ load.kind = "read" /\ load.title = url
  <2>1. url \in External!Texts
    BY NamesAreNoTexts
  <2>2. actionsLeft \in Nat
    BY ActionsAreFinite
  <2> QED
    BY <2>1, <2>2 DEF External!Load, Awaited
<1> HIDE DEF load
<1>3. awaited' \subseteq Awaited
  BY <1>1, <1>2 DEF ExternalInv, ExternalTypes
<1>4. ASSUME ~overlapped'
      PROVE  OneAtATime'
  <2>1. awaited' = {load}
    BY <1>1, <1>4
  <2>2. "READER_LOADING" \notin External!Texts
    BY NamesAreNoTexts
  <2> QED
    BY <1>1, <1>2, <2>1, <2>2 DEF OneAtATime
<1> QED
  BY <1>1, <1>2, <1>3, <1>4

\* What an action of the store or of the form for links leaves as it is.
TextStays == UNCHANGED <<tab, readerText, fromUrl, awaited, lastAsked, overlapped>>

LEMMA TextStaysOneAtATime ==
  ASSUME ExternalInv, TextStays
  PROVE  ~overlapped' => OneAtATime'
BY DEF ExternalInv, TextStays, OneAtATime

LEMMA StoreKeeps ==
  ASSUME External!ConstantsFit, ExternalInv,
         External!StoreList \/ \E op \in storing : External!StoreDelete(op) \/ External!StoreAdd(op)
  PROVE  ExternalInv'
<1>1. TextStays /\ UNCHANGED <<linkImports, processState, actionsLeft>>
  BY DEF External!StoreList, External!StoreDelete, External!StoreAdd, External!importVars, TextStays
<1>2. ExternalTypes /\ ListsFollow /\ TextFollows /\ External!TypeOK
  BY DEF ExternalInv, ExternalTypes
<1>3. TextFollows' /\ (~overlapped' => OneAtATime')
  BY <1>1, <1>2, TextStaysOneAtATime DEF TextFollows, TextStays
<1>4. CASE External!StoreList
  <2>1. savedRows' = savedRows /\ contentIndex' = savedRows /\ storing' \subseteq storing
    BY <1>4 DEF External!StoreList
  <2> QED
    BY <1>1, <1>2, <1>3, <2>1
    DEF ExternalInv, ExternalTypes, External!TypeOK, ListsFollow, TextStays
<1>5. ASSUME NEW op \in storing, External!StoreDelete(op) \/ External!StoreAdd(op)
      PROVE  ExternalInv'
  <2> DEFINE list == External!ListRead(op.title)
  <2>1. list \in Storing /\ list.kind = "list"
    BY StoringFields DEF External!ListRead, Storing
  <2>2. /\ savedRows' \subseteq External!Texts
        /\ storing' \subseteq (storing \ {op}) \cup {list}
        /\ contentIndex' = contentIndex
        /\ \/ list \in storing'
           \/ savedRows' = savedRows /\ storing' = storing \ {op} /\ op.kind = "add"
    <3>1. CASE External!StoreDelete(op)
      BY <1>2, <3>1 DEF External!StoreDelete, External!TypeOK
    <3>2. CASE External!StoreAdd(op)
      <4>1. /\ op.kind = "add" /\ savedRows' = savedRows \cup {op.title} /\ contentIndex' = contentIndex
            /\ storing' = (storing \ {op}) \cup (IF op.title \in savedRows \cap Urls THEN {} ELSE {list})
        BY <3>2 DEF External!StoreAdd
      <4>2. op.title \in External!Texts /\ savedRows \subseteq External!Texts
        BY <1>2, <4>1, StoringFields DEF External!TypeOK
      <4> HIDE DEF list
      <4>3. CASE op.title \in savedRows \cap Urls
        BY <4>1, <4>2, <4>3
      <4>4. CASE op.title \notin savedRows \cap Urls
        BY <4>1, <4>2, <4>4
      <4> QED
        BY <4>3, <4>4
    <3> QED
      BY <1>5, <3>1, <3>2
  <2> HIDE DEF list
  <2>3. ExternalTypes'
    BY <1>1, <1>2, <2>1, <2>2 DEF ExternalTypes, External!TypeOK, TextStays
  <2>4. ListsFollow'
    BY <1>1, <1>2, <2>1, <2>2 DEF ListsFollow
  <2> QED
    BY <1>3, <2>3, <2>4 DEF ExternalInv
<1> QED
  BY <1>4, <1>5

LEMMA UrlKeeps ==
  ASSUME External!ConstantsFit, ExternalInv,
         (\E url \in Urls : External!OpenUrl(url)) \/ External!Resize
  PROVE  ExternalInv'
<1>1. PICK url \in Urls : External!FetchFromUrl(url)
  BY DEF External!OpenUrl, External!Resize, ExternalInv, ExternalTypes, External!TypeOK
<1>2. External!Do /\ UNCHANGED <<savedRows, contentIndex, storing, linkImports, processState>>
  BY DEF External!OpenUrl, External!Resize, External!importVars
<1>3. /\ fromUrl' \in Urls /\ tab' = "Text reader" /\ readerText' = "READER_LOADING" /\ awaited' \subseteq Awaited
      /\ \E l \in awaited' : l.kind # "saved"
      /\ ~overlapped' => OneAtATime'
  BY <1>1, FetchKeeps
<1>4. ExternalTypes /\ ListsFollow /\ TextFollows /\ External!TypeOK
  BY DEF ExternalInv, ExternalTypes
<1>5. actionsLeft' \in 0 .. MaxActions
  BY <1>2, ActionCounted
<1>6. ExternalTypes'
  BY <1>2, <1>3, <1>4, <1>5 DEF ExternalTypes, External!TypeOK
<1>7. ListsFollow' /\ TextFollows'
  BY <1>2, <1>3, <1>4 DEF ListsFollow, TextFollows
<1> QED
  BY <1>3, <1>6, <1>7 DEF ExternalInv

\* The parameter goes, and nothing else changes.
LEMMA LeavingKeeps ==
  ASSUME External!ConstantsFit, ExternalInv, External!LeaveUrl
  PROVE  ExternalInv'
<1>1. /\ External!Do /\ fromUrl' = "none"
      /\ UNCHANGED <<tab, readerText, awaited, savedRows, contentIndex, storing, linkImports,
                     processState, lastAsked, overlapped>>
  BY DEF External!LeaveUrl, External!importVars
<1>2. actionsLeft' \in 0 .. MaxActions
  BY <1>1, ActionCounted
<1>3. ExternalTypes' /\ ListsFollow' /\ TextFollows'
  BY <1>1, <1>2 DEF ExternalInv, ExternalTypes, External!TypeOK, ListsFollow, TextFollows
<1>4. ~overlapped' => OneAtATime'
  BY <1>1 DEF ExternalInv, OneAtATime
<1> QED
  BY <1>3, <1>4 DEF ExternalInv

\* Each answer is for one call, and shows its text or goes on without it.
LEMMA AnswersKeep ==
  ASSUME External!ConstantsFit, ExternalInv, NEW l \in awaited, NEW ok \in BOOLEAN,
         \/ External!LoadContentAnswer(l) \/ External!SavedContentAnswer(l)
         \/ External!ScrapeUrlAnswer(l, ok)
  PROVE  ExternalInv'
<1>1. ExternalTypes /\ ListsFollow /\ TextFollows /\ External!TypeOK /\ (~overlapped => OneAtATime)
  BY DEF ExternalInv, ExternalTypes
<1>2. /\ l \in Awaited /\ l.title \in External!Texts
      /\ l.title \notin {"none", "null", "READER_LOADING", "READER_ERROR"}
  BY AwaitedFields, NamesAreNoTexts
<1>3. /\ UNCHANGED <<savedRows, contentIndex, linkImports, processState, actionsLeft, lastAsked, overlapped>>
      /\ tab' \in {tab, "Text reader"}
  BY DEF External!LoadContentAnswer, External!SavedContentAnswer, External!ScrapeUrlAnswer,
     External!Show, External!importVars
<1>4. "READER_LOADING" \notin External!Texts /\ "READER_ERROR" \notin External!Texts
  BY NamesAreNoTexts
\* It is enough to follow the text and the calls.
<1>5. ASSUME readerText' \in {"null", "READER_LOADING", "READER_ERROR"} \cup External!Texts, fromUrl' \in Urls \cup {"none"},
             awaited' \subseteq Awaited,
             storing' \subseteq storing \cup {[kind |-> "add", title |-> l.title]}, storing \subseteq storing',
             readerText' # "null" \/ (readerText' = readerText /\ tab' = tab /\ fromUrl' = fromUrl),
             readerText' = "READER_LOADING" => \E m \in awaited' : m.kind # "saved",
             ~overlapped => OneAtATime'
      PROVE  ExternalInv'
  <2>1. [kind |-> "add", title |-> l.title] \in Storing
    BY <1>2 DEF Storing
  <2>2. ExternalTypes'
    <3>1. storing' \subseteq Storing
      BY <1>1, <1>5, <2>1 DEF ExternalTypes
    <3>2. \A op \in storing' : op.kind = "add" => op.title \in External!Texts
      BY <1>1, <1>2, <1>5 DEF ExternalTypes
    <3> QED
      BY <1>1, <1>3, <1>5, <3>1, <3>2 DEF ExternalTypes, External!TypeOK
  <2>3. ListsFollow'
    BY <1>1, <1>3, <1>5 DEF ListsFollow
  <2>4. TextFollows'
    BY <1>1, <1>3, <1>5 DEF TextFollows
  <2> QED
    BY <1>3, <1>5, <2>2, <2>3, <2>4 DEF ExternalInv
\* With one text at a time nothing else is awaited.
<1>6. ASSUME ~overlapped
      PROVE  awaited = {l} /\ l.title = lastAsked /\ OneAtATime
  BY <1>1, <1>6 DEF OneAtATime
<1>7. CASE External!LoadContentAnswer(l)
  <2>1. l.kind = "read" /\ UNCHANGED <<fromUrl, storing>>
    BY <1>7 DEF External!LoadContentAnswer
  <2>2. CASE l.title \in savedRows
    <3>1. readerText' = l.title /\ tab' = "Text reader" /\ awaited' = awaited \ {l}
      BY <1>7, <2>2 DEF External!LoadContentAnswer, External!Show
    <3>2. ~overlapped => OneAtATime'
      <4> SUFFICES ASSUME ~overlapped
                   PROVE  OneAtATime'
        OBVIOUS
      <4>1. awaited' = {} /\ l.title \in Urls /\ fromUrl \in {"none", l.title} /\ l.title \notin Titles
        BY <1>6, <2>1, <3>1, NamesAreNoTexts DEF OneAtATime
      <4> QED
        BY <1>3, <1>6, <2>1, <3>1, <4>1 DEF OneAtATime
    <3> QED
      BY <1>1, <1>2, <1>5, <2>1, <3>1, <3>2 DEF ExternalTypes, External!TypeOK
  <2>3. CASE l.title \notin savedRows
    <3> DEFINE scrape == [l EXCEPT !.kind = "scrape"]
    <3>1. awaited' = (awaited \ {l}) \cup {scrape} /\ UNCHANGED <<tab, readerText>>
      BY <1>7, <2>3 DEF External!LoadContentAnswer
    <3>2. scrape \in Awaited /\ scrape.kind = "scrape" /\ scrape.title = l.title
      BY <1>2 DEF Awaited
    <3> HIDE DEF scrape
    <3>3. ~overlapped => OneAtATime'
      <4> SUFFICES ASSUME ~overlapped
                   PROVE  OneAtATime'
        OBVIOUS
      <4>1. awaited' = {scrape}
        BY <1>6, <3>1
      <4> QED
        BY <1>3, <1>6, <2>1, <3>1, <3>2, <4>1 DEF OneAtATime
    <3> QED
      BY <1>1, <1>5, <2>1, <3>1, <3>2, <3>3 DEF ExternalTypes, External!TypeOK
  <2> QED
    BY <2>2, <2>3
<1>8. CASE External!SavedContentAnswer(l)
  <2>1. l.kind = "saved" /\ awaited' = awaited \ {l} /\ UNCHANGED storing
    BY <1>8 DEF External!SavedContentAnswer
  <2>2. CASE l.title \in savedRows
    <3>1. readerText' = l.title /\ tab' = "Text reader" /\ fromUrl' = "none"
      BY <1>8, <2>2 DEF External!SavedContentAnswer, External!Show
    <3>2. ~overlapped => OneAtATime'
      <4> SUFFICES ASSUME ~overlapped
                   PROVE  OneAtATime'
        OBVIOUS
      <4>1. awaited' = {} /\ l.title \in Titles /\ l.title \notin Urls
        BY <1>6, <2>1, NamesAreNoTexts DEF OneAtATime
      <4> QED
        BY <1>3, <1>6, <3>1, <4>1 DEF OneAtATime
    <3> QED
      BY <1>1, <1>2, <1>5, <2>1, <3>1, <3>2 DEF ExternalTypes, External!TypeOK
  <2>3. CASE l.title \notin savedRows
    <3>1. UNCHANGED <<tab, readerText, fromUrl>>
      BY <1>8, <2>3 DEF External!SavedContentAnswer
    <3>2. ~overlapped => OneAtATime'
      <4> SUFFICES ASSUME ~overlapped
                   PROVE  OneAtATime'
        OBVIOUS
      <4>1. awaited' = {} /\ l.title \in Titles /\ l.title \notin Urls
        BY <1>6, <2>1, NamesAreNoTexts DEF OneAtATime
      <4> QED
        BY <1>3, <1>6, <3>1, <4>1 DEF OneAtATime
    <3>3. readerText' = "READER_LOADING" => \E m \in awaited' : m.kind # "saved"
      BY <1>1, <2>1, <3>1 DEF TextFollows
    <3> QED
      BY <1>1, <1>5, <2>1, <3>1, <3>2, <3>3 DEF ExternalTypes, External!TypeOK
  <2> QED
    BY <2>2, <2>3
<1>9. CASE External!ScrapeUrlAnswer(l, ok)
  <2>1. /\ l.kind = "scrape" /\ awaited' = awaited \ {l} /\ UNCHANGED fromUrl
        /\ storing' \subseteq storing \cup {[kind |-> "add", title |-> l.title]} /\ storing \subseteq storing'
        /\ readerText' \in {l.title, "READER_ERROR"}
    BY <1>9 DEF External!ScrapeUrlAnswer, External!Show
  <2>2. ~overlapped => OneAtATime'
    <3> SUFFICES ASSUME ~overlapped
                 PROVE  OneAtATime'
      OBVIOUS
    <3>1. awaited' = {} /\ l.title \in Urls /\ fromUrl \in {"none", l.title} /\ l.title \notin Titles
      BY <1>6, <2>1, NamesAreNoTexts DEF OneAtATime
    <3> QED
      BY <1>3, <1>4, <1>6, <2>1, <3>1 DEF OneAtATime
  <2> QED
    BY <1>1, <1>2, <1>5, <2>1, <2>2 DEF ExternalTypes, External!TypeOK
<1> QED
  BY <1>7, <1>8, <1>9

\* The forms that go with the tab: their imports run on.
LEMMA Unmounted ==
  ASSUME ExternalInv, NEW some \in SUBSET linkImports,
         NEW gone, gone = {[i EXCEPT !.mounted = FALSE] : i \in some}
  PROVE  /\ gone \subseteq LinkImport
         /\ (\E i \in some : i.step = "list") => \E i \in gone : i.step = "list"
<1>1. \A i \in some : [i EXCEPT !.mounted = FALSE] \in LinkImport /\ [i EXCEPT !.mounted = FALSE].step = i.step
  BY ImportFields
<1> QED
  BY <1>1

\* Tabs, saved texts and typed ones.
LEMMA TabsKeep ==
  ASSUME External!ConstantsFit, ExternalInv,
         \/ \E other \in {"Load text", "Text reader"} : External!SelectTab(other)
         \/ \E title \in External!Texts : External!SelectSaved(title) \/ External!DeleteContent(title)
         \/ \E title \in Titles : External!ImportText(title)
  PROVE  ExternalInv'
<1>1. ExternalTypes /\ ListsFollow /\ TextFollows /\ External!TypeOK /\ (~overlapped => OneAtATime)
  BY DEF ExternalInv, ExternalTypes
<1> DEFINE gone == {[i EXCEPT !.mounted = FALSE] : i \in linkImports}
<1>2. gone \subseteq LinkImport /\ ((\E i \in linkImports : i.step = "list") => \E i \in gone : i.step = "list")
  BY Unmounted
<1> HIDE DEF gone
<1>3. MaxActions \in Nat /\ actionsLeft \in Nat /\ actionsLeft <= MaxActions
  BY ActionsAreFinite
<1>4. ASSUME NEW other \in {"Load text", "Text reader"}, External!SelectTab(other)
      PROVE  ExternalInv'
  <2>1. /\ tab' = other /\ processState' = "None" /\ linkImports' = gone
        /\ other = "Text reader" => readerText # "null"
        /\ UNCHANGED <<readerText, fromUrl, awaited, savedRows, contentIndex, storing, lastAsked, overlapped, actionsLeft>>
    BY <1>4 DEF External!SelectTab, gone
  <2>2. ExternalTypes'
    BY <1>1, <1>2, <1>4, <2>1 DEF ExternalTypes, External!TypeOK
  <2>3. ListsFollow'
    BY <1>1, <1>2, <2>1 DEF ListsFollow
  <2>4. TextFollows'
    BY <1>1, <2>1 DEF TextFollows
  <2>5. ~overlapped' => OneAtATime'
    BY <1>1, <2>1 DEF OneAtATime
  <2> QED
    BY <2>2, <2>3, <2>4, <2>5 DEF ExternalInv
<1>5. ASSUME NEW title \in External!Texts, External!SelectSaved(title)
      PROVE  ExternalInv'
  <2>1. /\ External!Do /\ UNCHANGED <<savedRows, contentIndex, storing, linkImports, processState>>
    BY <1>5 DEF External!SelectSaved, External!AtLoadTab, External!importVars
  <2>2. actionsLeft' \in 0 .. MaxActions
    BY <2>1, ActionCounted
  <2>3. ListsFollow'
    BY <1>1, <2>1 DEF ListsFollow
  <2>4. CASE title \in Urls /\ title # fromUrl
    <3>1. External!FetchFromUrl(title)
      BY <1>5, <2>4 DEF External!SelectSaved
    <3>2. /\ fromUrl' \in Urls /\ tab' = "Text reader" /\ readerText' = "READER_LOADING" /\ awaited' \subseteq Awaited
          /\ \E l \in awaited' : l.kind # "saved"
          /\ ~overlapped' => OneAtATime'
      BY <2>4, <3>1, FetchKeeps
    <3>3. ExternalTypes'
      BY <1>1, <2>1, <2>2, <3>2 DEF ExternalTypes, External!TypeOK
    <3>4. TextFollows'
      BY <1>1, <2>1, <3>2 DEF TextFollows
    <3> QED
      BY <2>3, <3>2, <3>3, <3>4 DEF ExternalInv
  <2>5. CASE title \in Urls /\ title = fromUrl
    <3>1. tab' = "Text reader" /\ UNCHANGED <<readerText, fromUrl, awaited, lastAsked, overlapped>>
      BY <1>5, <2>5 DEF External!SelectSaved
    <3>2. fromUrl # "none"
      BY <2>5, NamesAreNoTexts
    <3>3. ExternalTypes'
      BY <1>1, <2>1, <2>2, <3>1 DEF ExternalTypes, External!TypeOK
    <3>4. TextFollows'
      BY <1>1, <2>1, <3>1, <3>2 DEF TextFollows
    <3>5. ~overlapped' => OneAtATime'
      BY <1>1, <3>1 DEF OneAtATime
    <3> QED
      BY <2>3, <3>3, <3>4, <3>5 DEF ExternalInv
  <2>6. CASE title \notin Urls
    <3> DEFINE load == External!Load("saved", title, actionsLeft)
    <3>1. /\ awaited' = awaited \cup {load} /\ UNCHANGED <<tab, readerText, fromUrl>>
          /\ lastAsked' = title /\ overlapped' = (overlapped \/ awaited # {})
      BY <1>5, <2>6 DEF External!SelectSaved, External!Asks
    <3>2. load \in Awaited /\ load.kind = "saved" /\ load.title = title
      BY <1>3 DEF External!Load, Awaited
    <3>3. title \in Titles
      BY <2>6 DEF External!Texts
    <3> HIDE DEF load
    <3>4. ExternalTypes'
      BY <1>1, <2>1, <2>2, <3>1, <3>2 DEF ExternalTypes, External!TypeOK
    <3>5. TextFollows'
      BY <1>1, <2>1, <3>1 DEF TextFollows
    <3>6. ASSUME ~overlapped'
          PROVE  OneAtATime'
      <4>1. awaited' = {load} /\ OneAtATime
        BY <1>1, <3>1, <3>6
      <4> QED
        BY <3>1, <3>2, <3>3, <4>1 DEF OneAtATime
    <3> QED
      BY <2>3, <3>4, <3>5, <3>6 DEF ExternalInv
  <2> QED
    BY <2>4, <2>5, <2>6
<1>6. ASSUME NEW title \in External!Texts, External!DeleteContent(title)
      PROVE  ExternalInv'
  <2> DEFINE op == [kind |-> "delete", title |-> title]
  <2>1. /\ External!Do /\ storing' = storing \cup {op}
        /\ UNCHANGED <<tab, readerText, fromUrl, awaited, savedRows, contentIndex, lastAsked, overlapped>>
        /\ UNCHANGED <<linkImports, processState>>
    BY <1>6 DEF External!DeleteContent, External!AtLoadTab, External!importVars
  <2>2. op \in Storing /\ op.kind = "delete"
    BY DEF Storing
  <2>3. actionsLeft' \in 0 .. MaxActions
    BY <2>1, ActionCounted
  <2> HIDE DEF op
  <2>4. ExternalTypes'
    BY <1>1, <2>1, <2>2, <2>3 DEF ExternalTypes, External!TypeOK
  <2>5. ListsFollow'
    BY <1>1, <2>1 DEF ListsFollow
  <2>6. TextFollows'
    BY <1>1, <2>1 DEF TextFollows
  <2>7. ~overlapped' => OneAtATime'
    BY <1>1, <2>1 DEF OneAtATime
  <2> QED
    BY <2>4, <2>5, <2>6, <2>7 DEF ExternalInv
<1>7. ASSUME NEW title \in Titles, External!ImportText(title)
      PROVE  ExternalInv'
  <2> DEFINE op == [kind |-> "add", title |-> title]
  <2>1. /\ External!Do /\ storing' = storing \cup {op}
        /\ readerText' = title /\ tab' = "Text reader" /\ fromUrl' = "none"
        /\ lastAsked' = title /\ overlapped' = (overlapped \/ awaited # {})
        /\ processState' = "None" /\ linkImports' = gone /\ UNCHANGED <<awaited, savedRows, contentIndex>>
    BY <1>7 DEF External!ImportText, External!AtLoadTab, External!Asks, External!Show, gone
  <2>2. /\ title \in External!Texts /\ title \notin {"none", "null", "READER_LOADING", "READER_ERROR"}
        /\ title \notin Urls
    BY NamesAreNoTexts
  <2>3. op \in Storing /\ op.title = title
    BY <2>2 DEF Storing
  <2>4. actionsLeft' \in 0 .. MaxActions
    BY <2>1, ActionCounted
  <2> HIDE DEF op
  <2>5. ExternalTypes'
    BY <1>1, <1>2, <2>1, <2>2, <2>3, <2>4 DEF ExternalTypes, External!TypeOK
  <2>6. ListsFollow'
    BY <1>1, <1>2, <2>1 DEF ListsFollow
  <2>7. TextFollows'
    BY <2>1, <2>2 DEF TextFollows
  <2>8. ~overlapped' => OneAtATime'
    BY <2>1, <2>2 DEF OneAtATime
  <2> QED
    BY <2>5, <2>6, <2>7, <2>8 DEF ExternalInv
<1> QED
  BY <1>4, <1>5, <1>6, <1>7

\* Imports of links, of which several may be under way.
LEMMA LinksKeep ==
  ASSUME External!ConstantsFit, ExternalInv,
         \/ \E url \in Urls : External!ImportLink(url)
         \/ \E i \in linkImports, ok \in BOOLEAN : External!LinkScraped(i, ok)
         \/ \E i \in linkImports : External!LinkSaved(i)
  PROVE  ExternalInv'
<1>1. ExternalTypes /\ ListsFollow /\ TextFollows /\ External!TypeOK
  BY DEF ExternalInv, ExternalTypes
<1>2. TextStays /\ UNCHANGED <<contentIndex, storing>>
  BY DEF External!ImportLink, External!LinkScraped, External!LinkSaved, External!AtLoadTab, TextStays
<1>3. ~overlapped' => OneAtATime'
  BY <1>2, TextStaysOneAtATime
<1>4. ASSUME linkImports' \subseteq LinkImport, savedRows' \subseteq External!Texts,
             processState' \in {"None", "Processing", "Error"}, actionsLeft' \in 0 .. MaxActions, ListsFollow',
             processState' = "Processing" => \E i \in linkImports' : i.mounted
      PROVE  ExternalInv'
  <2>1. ExternalTypes'
    BY <1>1, <1>2, <1>4 DEF ExternalTypes, External!TypeOK, TextStays
  <2>2. TextFollows'
    BY <1>1, <1>2, <1>4 DEF TextFollows, TextStays
  <2> QED
    BY <1>3, <1>4, <2>1, <2>2 DEF ExternalInv
<1>5. ASSUME NEW url \in Urls, External!ImportLink(url)
      PROVE  ExternalInv'
  <2> DEFINE new == [url |-> url, mounted |-> TRUE, id |-> actionsLeft, step |-> "scrape"]
  <2>1. /\ External!Do /\ processState' = "Processing" /\ linkImports' = linkImports \cup {new} /\ savedRows' = savedRows
    BY <1>5 DEF External!ImportLink, External!AtLoadTab
  <2>2. new \in LinkImport /\ new.mounted = TRUE
    BY ActionsAreFinite DEF LinkImport
  <2>3. actionsLeft' \in 0 .. MaxActions
    BY <2>1, ActionCounted
  <2> HIDE DEF new
  <2>4. ListsFollow'
    BY <1>1, <1>2, <2>1 DEF ListsFollow
  <2> QED
    BY <1>1, <1>4, <2>1, <2>2, <2>3, <2>4 DEF ExternalTypes, External!TypeOK
<1>6. ASSUME NEW i \in linkImports, NEW ok \in BOOLEAN, External!LinkScraped(i, ok) \/ External!LinkSaved(i)
      PROVE  ExternalInv'
  <2>1. /\ i \in LinkImport /\ i.url \in Urls /\ i.mounted \in BOOLEAN
        /\ \A s \in {"save", "list"} :
             [i EXCEPT !.step = s] \in LinkImport /\ [i EXCEPT !.step = s].step = s
             /\ [i EXCEPT !.step = s].mounted = i.mounted
    BY ImportFields
  <2>2. actionsLeft' \in 0 .. MaxActions
    BY <1>1, <1>6 DEF External!LinkScraped, External!LinkSaved, External!TypeOK
  \* Either it goes one step further, or it is gone, and says so.
  <2>3. /\ i.step \in {"scrape", "save"}
        /\ \/ \E s \in {"save", "list"} :
                /\ linkImports' = (linkImports \ {i}) \cup {[i EXCEPT !.step = s]}
                /\ processState' = processState
                /\ IF s = "list" THEN savedRows' = savedRows \cup {i.url} ELSE savedRows' = savedRows
           \/ /\ linkImports' = linkImports \ {i} /\ savedRows' = savedRows
              /\ processState' = IF i.mounted THEN "Error" ELSE processState
    BY <1>6 DEF External!LinkScraped, External!LinkSaved, External!SetProcessState
  <2>4. CASE /\ linkImports' = linkImports \ {i} /\ savedRows' = savedRows
             /\ processState' = IF i.mounted THEN "Error" ELSE processState
    <3>1. ListsFollow'
      BY <1>1, <1>2, <2>3, <2>4 DEF ListsFollow
    <3>2. processState' = "Processing" => \E j \in linkImports' : j.mounted
      BY <1>1, <2>4 DEF TextFollows
    <3> QED
      BY <1>1, <1>4, <2>2, <2>4, <3>1, <3>2 DEF ExternalTypes, External!TypeOK
  <2>5. ASSUME NEW s \in {"save", "list"},
               linkImports' = (linkImports \ {i}) \cup {[i EXCEPT !.step = s]},
               processState' = processState,
               IF s = "list" THEN savedRows' = savedRows \cup {i.url} ELSE savedRows' = savedRows
        PROVE  ExternalInv'
    <3> DEFINE next == [i EXCEPT !.step = s]
    <3>1. next \in LinkImport /\ next.step = s /\ next.mounted = i.mounted /\ next \in linkImports'
          /\ linkImports' = (linkImports \ {i}) \cup {next}
      BY <2>1, <2>5
    <3> HIDE DEF next
    <3>2. savedRows' \subseteq External!Texts
      BY <1>1, <2>1, <2>5 DEF External!TypeOK, External!Texts
    <3>3. ListsFollow'
      BY <1>1, <1>2, <2>3, <2>5, <3>1 DEF ListsFollow
    <3>4. processState' = "Processing" => \E j \in linkImports' : j.mounted
      BY <1>1, <2>5, <3>1 DEF TextFollows
    <3>5. linkImports' \subseteq LinkImport /\ processState' \in {"None", "Processing", "Error"}
      BY <1>1, <2>5, <3>1 DEF ExternalTypes, External!TypeOK
    <3> QED
      BY <1>4, <2>2, <3>2, <3>3, <3>4, <3>5
  <2> QED
    BY <2>3, <2>4, <2>5
<1> QED
  BY <1>5, <1>6

LEMMA LinkListKeeps ==
  ASSUME External!ConstantsFit, ExternalInv, NEW i \in linkImports, External!LinkListed(i)
  PROVE  ExternalInv'
<1>1. ExternalTypes /\ ListsFollow /\ TextFollows /\ External!TypeOK /\ (~overlapped => OneAtATime)
  BY DEF ExternalInv, ExternalTypes
<1>2. /\ contentIndex' = savedRows /\ UNCHANGED <<savedRows, storing, actionsLeft>>
  BY DEF External!LinkListed
<1>3. ListsFollow'
  BY <1>2 DEF ListsFollow
<1>4. i.url \in Urls
  BY ImportFields
<1>5. CASE i.url # fromUrl
  <2> DEFINE gone == {[j EXCEPT !.mounted = FALSE] : j \in linkImports \ {i}}
  <2>1. External!FetchFromUrl(i.url) /\ processState' = "None" /\ linkImports' = gone
    BY <1>5 DEF External!LinkListed
  <2>2. gone \subseteq LinkImport
    BY Unmounted
  <2>3. /\ fromUrl' \in Urls /\ tab' = "Text reader" /\ readerText' = "READER_LOADING" /\ awaited' \subseteq Awaited
        /\ \E l \in awaited' : l.kind # "saved"
        /\ ~overlapped' => OneAtATime'
    BY <1>4, <2>1, FetchKeeps
  <2> HIDE DEF gone
  <2>4. ExternalTypes'
    BY <1>1, <1>2, <2>1, <2>2, <2>3 DEF ExternalTypes, External!TypeOK
  <2>5. TextFollows'
    BY <1>1, <2>1, <2>3 DEF TextFollows
  <2> QED
    BY <1>3, <2>3, <2>4, <2>5 DEF ExternalInv
<1>6. CASE i.url = fromUrl
  <2>1. /\ linkImports' = linkImports \ {i} /\ processState' = IF i.mounted THEN "None" ELSE processState
        /\ TextStays
    BY <1>6 DEF External!LinkListed, External!SetProcessState, TextStays
  <2>2. ExternalTypes'
    BY <1>1, <1>2, <2>1 DEF ExternalTypes, External!TypeOK, TextStays
  <2>3. TextFollows'
    BY <1>1, <2>1 DEF TextFollows, TextStays
  <2> QED
    BY <1>3, <2>1, <2>2, <2>3, TextStaysOneAtATime DEF ExternalInv
<1> QED
  BY <1>5, <1>6

LEMMA NextExternal ==
  ASSUME External!ConstantsFit
  PROVE  ExternalInv /\ [External!Next]_(External!vars) => ExternalInv'
<1> SUFFICES ASSUME ExternalInv, [External!Next]_(External!vars)
             PROVE  ExternalInv'
  OBVIOUS
<1>1. CASE UNCHANGED External!vars
  <2>1. /\ TextStays
        /\ UNCHANGED <<savedRows, contentIndex, storing, linkImports, processState, actionsLeft>>
    BY <1>1 DEF External!vars, External!importVars, TextStays
  <2>2. ExternalTypes' /\ ListsFollow' /\ TextFollows'
    BY <2>1 DEF ExternalInv, ExternalTypes, External!TypeOK, ListsFollow, TextFollows, TextStays
  <2> QED
    BY <2>1, <2>2, TextStaysOneAtATime DEF ExternalInv
<1>2. CASE External!StoreList \/ \E op \in storing : External!StoreDelete(op) \/ External!StoreAdd(op)
  BY <1>2, StoreKeeps
<1>3. CASE (\E url \in Urls : External!OpenUrl(url)) \/ External!Resize
  BY <1>3, UrlKeeps
<1>8. CASE External!LeaveUrl
  BY <1>8, LeavingKeeps
<1>4. CASE \/ \E l \in awaited : External!LoadContentAnswer(l) \/ External!SavedContentAnswer(l)
           \/ \E l \in awaited, ok \in BOOLEAN : External!ScrapeUrlAnswer(l, ok)
  <2>1. PICK l \in awaited, ok \in BOOLEAN :
          \/ External!LoadContentAnswer(l) \/ External!SavedContentAnswer(l)
          \/ External!ScrapeUrlAnswer(l, ok)
    BY <1>4
  <2> QED
    BY <2>1, AnswersKeep
<1>5. CASE \/ \E other \in {"Load text", "Text reader"} : External!SelectTab(other)
           \/ \E title \in External!Texts : External!SelectSaved(title) \/ External!DeleteContent(title)
           \/ \E title \in Titles : External!ImportText(title)
  BY <1>5, TabsKeep
<1>6. CASE \/ \E url \in Urls : External!ImportLink(url)
           \/ \E i \in linkImports, ok \in BOOLEAN : External!LinkScraped(i, ok)
           \/ \E i \in linkImports : External!LinkSaved(i)
  BY <1>6, LinksKeep
<1>7. CASE \E i \in linkImports : External!LinkListed(i)
  BY <1>7, LinkListKeeps
<1> QED
  BY <1>1, <1>2, <1>3, <1>4, <1>5, <1>6, <1>7, <1>8 DEF External!Next

\* The reader of imported texts keeps its types, for any URLs, titles and
\* number of actions.
THEOREM ExternalTypeCorrect ==
  ASSUME External!ConstantsFit
  PROVE  External!Spec => []External!TypeOK
BY ExternalHolds, InitExternal, NextExternal, PTL DEF External!Spec

\* When nothing is awaited the list is what the store has; if one text at a
\* time is asked, the reader shows the text of the URL that was asked last or is
\* blank because it failed, and a link that it offers is that of its text; and
\* it is never opened without a text that is there, awaited or failed
\* (ImportsFit), for any URLs, titles and number of actions, with Back and
\* Forward. What a late answer shows while texts are asked at once is excluded.
THEOREM ImportsAlwaysFit ==
  ASSUME External!ConstantsFit
  PROVE  External!Spec => []External!ImportsFit
BY ExternalHolds, InitExternal, NextExternal, PTL DEF External!Spec

-----------------------------------------------------------------------------
\* The gestures of the reader.

LastSwipe == Gestures!Swipe(touchData, fast)

\* What the feedback shows of a swipe, if nothing disturbed it.
FeedbackOf(swipe) ==
  IF swipeNavigation /\ ~swipe.fromRight
  THEN swipeDir = swipe.dir /\ overlayOpacity = (IF swipe.square >= 4 THEN "full" ELSE "part")
  ELSE overlayOpacity = "none"

\* A touch that is followed is known from its first point to its last, and a
\* swipe is one by what the last move saw.
Followed ==
  /\ finger = <<>> => touchData = <<>> /\ ~isSwiping
  /\ finger # <<>> => touchData = finger
  /\ isSwiping => /\ LastSwipe.dir # "none" /\ FeedbackOf(LastSwipe)
                  /\ ~Gestures!Suspended /\ currentPage # -1
  /\ ~isSwiping => overlayOpacity = "none"
  /\ turn.by = "swipe" => turn.shown = "full" /\ turn.own

GesturesInv == Gestures!TypeOK /\ Gestures!TooltipsCounted /\ (~meddled => Followed)

LEMMA SwipeIs ==
  ASSUME NEW data, NEW f
  PROVE  /\ Gestures!Swipe(data, f).dir \in {"none", "Left", "Right"}
         /\ Gestures!Swipe(data, f).fromRight = Gestures!RightEdge(data[1].x)
BY DEF Gestures!Swipe

LEMMA GesturesHold ==
  ASSUME GesturesInv
  PROVE  Gestures!TypeOK /\ Gestures!GesturesFit
BY DEF GesturesInv, Followed, Gestures!GesturesFit, Gestures!FeedbackEnds, Gestures!TurnsAreSwiped

LEMMA InitGestures ==
  ASSUME Gestures!ConstantsFit, Gestures!Init
  PROVE  GesturesInv
<1> USE DEF Gestures!Init
<1>1. Gestures!TypeOK
  <2>1. currentPage \in -1 .. LastPage
    BY DEF Gestures!ConstantsFit
  <2> QED
    BY <2>1 DEF Gestures!TypeOK, Gestures!Directions
<1>2. Gestures!TooltipsCounted
  BY DEF Gestures!TooltipsCounted
<1>3. Followed
  BY DEF Followed, Gestures!NoTurn
<1> QED
  BY <1>1, <1>2, <1>3 DEF GesturesInv

\* Another page closes the tooltips of the last one.
LEMMA PageTurns ==
  ASSUME Gestures!ConstantsFit, GesturesInv, NEW dir, Gestures!IncrementPage(dir),
         Gestures!TooltipsOfPage
  PROVE  /\ currentPage' \in 0 .. LastPage
         /\ openTooltips' \subseteq DOMAIN TooltipKey /\ Gestures!TooltipsCounted'
         /\ hasTooltip' \in {{}, hasTooltip}
<1>1. LastPage \in Nat /\ currentPage \in -1 .. LastPage /\ openTooltips \subseteq DOMAIN TooltipKey
      /\ Gestures!TooltipsCounted
  BY DEF Gestures!ConstantsFit, GesturesInv, Gestures!TypeOK
<1>2. currentPage' \in 0 .. LastPage
  BY <1>1 DEF Gestures!IncrementPage
<1>3. CASE openTooltips' = {} /\ hasTooltip' = {}
  BY <1>2, <1>3 DEF Gestures!TooltipsCounted
<1>4. CASE UNCHANGED <<openTooltips, hasTooltip>>
  BY <1>1, <1>2, <1>4 DEF Gestures!TooltipsCounted
<1> QED
  BY <1>3, <1>4 DEF Gestures!TooltipsOfPage, Gestures!tooltipVars

LEMMA MoveKeeps ==
  ASSUME Gestures!ConstantsFit, GesturesInv, NEW p \in Points, NEW f \in BOOLEAN,
         Gestures!TouchMove(p, f)
  PROVE  GesturesInv'
<1> DEFINE swipe == Gestures!Swipe(touchData', f)
<1>1. /\ finger' = <<IF finger = <<>> THEN p ELSE finger[1], p>>
      /\ touchData' = <<IF touchData = <<>> THEN p ELSE touchData[1], p>>
      /\ fast' = f /\ turn' = (IF finger = <<>> THEN Gestures!NoTurn ELSE turn)
      /\ UNCHANGED <<loadState, currentPage, openTooltips, hasTooltip, swipeNavigation, tapNavigation,
                     menuVisible>>
  BY DEF Gestures!TouchMove, Gestures!pageVars, Gestures!tooltipVars, Gestures!navVars
<1>2. Gestures!TypeOK /\ Gestures!TooltipsCounted /\ (~meddled => Followed)
  BY DEF GesturesInv
<1>3. swipe.dir \in {"none", "Left", "Right"} /\ swipe.fromRight = Gestures!RightEdge(touchData'[1].x)
  BY SwipeIs
<1>4. CASE swipe.dir # "none"
  <2>1. /\ isSwiping' = TRUE /\ meddled' = (meddled \/ Gestures!Suspended \/ currentPage = -1)
        /\ Gestures!OnSwipeProgress(swipe)
    BY <1>1, <1>4 DEF Gestures!TouchMove
  <2>2. overlayOpacity' \in {"none", "part", "full"} /\ swipeDir' \in Gestures!Directions
    BY <1>2, <1>3, <1>4, <2>1
    DEF Gestures!OnSwipeProgress, Gestures!overlayVars, Gestures!TypeOK, Gestures!Directions
  <2>3. ASSUME ~meddled'
        PROVE  Followed'
    <3> DEFINE feedback == FeedbackOf(LastSwipe)'
    <3>1. ~meddled /\ ~Gestures!Suspended /\ currentPage # -1 /\ Followed
      BY <1>2, <2>1, <2>3
    <3>2. touchData' = finger' /\ finger' # <<>>
      BY <1>1, <3>1 DEF Followed
    <3>3. ~Gestures!Suspended'
      BY <1>1, <3>1 DEF Gestures!Suspended
    <3>4. ASSUME swipeNavigation /\ ~swipe.fromRight
          PROVE  feedback
      <4>1. swipeDir' = swipe.dir /\ overlayOpacity' = (IF swipe.square >= 4 THEN "full" ELSE "part")
        BY <2>1, <3>1, <3>4 DEF Gestures!OnSwipeProgress
      <4> QED
        BY <1>1, <3>4, <4>1 DEF FeedbackOf, LastSwipe
    <3>5. ASSUME ~(swipeNavigation /\ ~swipe.fromRight)
          PROVE  feedback
      <4>1. UNCHANGED <<overlayOpacity, swipeDir>>
        BY <2>1, <3>5 DEF Gestures!OnSwipeProgress, Gestures!overlayVars
      <4>2. CASE isSwiping
        <5>1. touchData'[1] = touchData[1]
          BY <1>1, <3>1, <4>2 DEF Followed
        <5>2. LastSwipe.fromRight = swipe.fromRight
          BY <1>3, <5>1, SwipeIs DEF LastSwipe
        <5>3. overlayOpacity = "none"
          BY <1>3, <3>1, <3>5, <4>2, <5>2 DEF Followed, FeedbackOf
        <5> QED
          BY <1>1, <3>5, <4>1, <5>3 DEF FeedbackOf, LastSwipe
      <4>3. CASE ~isSwiping
        BY <1>1, <3>1, <3>5, <4>1, <4>3 DEF Followed, FeedbackOf, LastSwipe
      <4> QED
        BY <4>2, <4>3
    <3>6. (LastSwipe.dir)' # "none"
      BY <1>1, <1>4 DEF LastSwipe
    <3>7. turn'.by = "swipe" => turn'.shown = "full" /\ turn'.own
      BY <1>1, <3>1 DEF Followed, Gestures!NoTurn
    <3> QED
      BY <1>1, <2>1, <3>1, <3>2, <3>3, <3>4, <3>5, <3>6, <3>7 DEF Followed
  <2> QED
    BY <1>1, <1>2, <2>1, <2>2, <2>3
    DEF GesturesInv, Gestures!TypeOK, Gestures!TooltipsCounted, Gestures!Directions
<1>5. CASE swipe.dir = "none"
  <2>1. /\ isSwiping' = FALSE /\ meddled' = meddled /\ swipeDir' = swipeDir
        /\ overlayOpacity' = IF isSwiping /\ swipeNavigation THEN "none" ELSE overlayOpacity
    BY <1>1, <1>5 DEF Gestures!TouchMove, Gestures!OnSwipeCancel, Gestures!overlayVars
  <2>2. ASSUME ~meddled
        PROVE  Followed'
    <3>1. Followed
      BY <1>2, <2>2
    <3>2. touchData' = finger' /\ finger' # <<>>
      BY <1>1, <3>1 DEF Followed
    <3>3. overlayOpacity' = "none"
      BY <2>1, <3>1 DEF Followed, FeedbackOf
    <3>4. turn'.by = "swipe" => turn'.shown = "full" /\ turn'.own
      BY <1>1, <3>1 DEF Followed, Gestures!NoTurn
    <3> QED
      BY <2>1, <3>2, <3>3, <3>4 DEF Followed
  <2>3. overlayOpacity' \in {"none", "part", "full"}
    BY <1>2, <2>1 DEF Gestures!TypeOK
  <2> QED
    BY <1>1, <1>2, <2>1, <2>2, <2>3 DEF GesturesInv, Gestures!TypeOK, Gestures!TooltipsCounted
<1> QED
  BY <1>3, <1>4, <1>5

\* A swipe, or a tap, that ends turns at most one page.
LEMMA SwipeEnds ==
  ASSUME Gestures!ConstantsFit, GesturesInv, NEW swipe, NEW by, NEW own,
         Gestures!OnSwipeEnd(swipe, by, own)
  PROVE  /\ swipeDir' = swipeDir /\ overlayOpacity' \in {"none", overlayOpacity}
         /\ ~Gestures!Suspended /\ currentPage # -1 /\ ~swipe.fromRight => overlayOpacity' = "none"
         /\ currentPage' \in -1 .. LastPage
         /\ openTooltips' \subseteq DOMAIN TooltipKey /\ Gestures!TooltipsCounted'
         /\ \/ turn' = turn
            \/ /\ turn' = [by |-> by, own |-> own,
                           shown |-> IF swipeDir = swipe.dir THEN overlayOpacity ELSE "none"]
               /\ swipe.square >= 4 /\ ~swipe.fromRight
<1>1. Gestures!TypeOK /\ Gestures!TooltipsCounted
  BY DEF GesturesInv
<1>2. CASE Gestures!Suspended \/ currentPage = -1 \/ swipe.fromRight
  BY <1>1, <1>2 DEF Gestures!OnSwipeEnd, Gestures!overlayVars, Gestures!tooltipVars, Gestures!TypeOK,
     Gestures!TooltipsCounted
<1>3. CASE ~(Gestures!Suspended \/ currentPage = -1 \/ swipe.fromRight)
  <2>1. overlayOpacity' = "none" /\ swipeDir' = swipeDir
    BY <1>3 DEF Gestures!OnSwipeEnd
  <2>2. CASE swipe.square >= 4
    <3>1. /\ Gestures!IncrementPage(swipe.dir) /\ Gestures!TooltipsOfPage
          /\ turn' = [by |-> by, own |-> own,
                      shown |-> IF swipeDir = swipe.dir THEN overlayOpacity ELSE "none"]
      BY <1>3, <2>2 DEF Gestures!OnSwipeEnd
    <3>2. /\ currentPage' \in 0 .. LastPage /\ openTooltips' \subseteq DOMAIN TooltipKey
          /\ Gestures!TooltipsCounted'
      BY <3>1, PageTurns
    <3>3. currentPage' \in -1 .. LastPage
      BY <3>2 DEF Gestures!ConstantsFit
    <3> QED
      BY <1>3, <2>1, <2>2, <3>1, <3>2, <3>3
  <2>3. CASE ~(swipe.square >= 4)
    BY <1>1, <1>3, <2>1, <2>3 DEF Gestures!OnSwipeEnd, Gestures!tooltipVars, Gestures!TypeOK,
       Gestures!TooltipsCounted
  <2> QED
    BY <2>2, <2>3
<1> QED
  BY <1>2, <1>3

LEMMA TouchEndKeeps ==
  ASSUME Gestures!ConstantsFit, GesturesInv, Gestures!HandleTouchEnd
  PROVE  GesturesInv'
<1> DEFINE own == touchData[1] = finger[1]
<1>1. /\ finger # <<>> /\ finger' = <<>> /\ isSwiping' = FALSE /\ fast' = FALSE /\ touchData' = <<>>
      /\ UNCHANGED <<loadState, swipeNavigation, tapNavigation, meddled>>
  BY DEF Gestures!HandleTouchEnd, Gestures!navVars
<1>2. Gestures!TypeOK /\ Gestures!TooltipsCounted /\ (~meddled => Followed)
  BY DEF GesturesInv
<1>3. menuVisible' \in BOOLEAN
  BY <1>2 DEF Gestures!HandleTouchEnd, Gestures!TypeOK, Gestures!OpensMenu
<1>4. CASE ~(isSwiping /\ swipeNavigation)
  <2>1. UNCHANGED <<overlayOpacity, swipeDir, currentPage, openTooltips, hasTooltip, turn>>
    BY <1>4 DEF Gestures!HandleTouchEnd, Gestures!overlayVars, Gestures!tooltipVars
  <2>2. ~meddled => Followed'
    BY <1>1, <1>2, <1>4, <2>1 DEF Followed, FeedbackOf
  <2> QED
    BY <1>1, <1>2, <1>3, <2>1, <2>2 DEF GesturesInv, Gestures!TypeOK, Gestures!TooltipsCounted
<1>5. CASE isSwiping /\ swipeNavigation
  <2>1. Gestures!OnSwipeEnd(LastSwipe, "swipe", own)
    BY <1>5 DEF Gestures!HandleTouchEnd, LastSwipe
  <2>2. /\ swipeDir' = swipeDir /\ overlayOpacity' \in {"none", overlayOpacity}
        /\ ~Gestures!Suspended /\ currentPage # -1 /\ ~LastSwipe.fromRight => overlayOpacity' = "none"
        /\ currentPage' \in -1 .. LastPage
        /\ openTooltips' \subseteq DOMAIN TooltipKey /\ Gestures!TooltipsCounted'
        /\ \/ turn' = turn
           \/ /\ turn' = [by |-> "swipe", own |-> own,
                          shown |-> IF swipeDir = LastSwipe.dir THEN overlayOpacity ELSE "none"]
              /\ LastSwipe.square >= 4 /\ ~LastSwipe.fromRight
    <3> HIDE DEF own
    <3> QED
      BY <2>1, SwipeEnds
  <2>3. ASSUME ~meddled
        PROVE  Followed'
    <3>1. /\ Followed /\ touchData = finger /\ FeedbackOf(LastSwipe) /\ ~Gestures!Suspended
          /\ currentPage # -1
      BY <1>1, <1>2, <1>5, <2>3 DEF Followed
    <3>2. overlayOpacity' = "none"
      BY <2>2, <3>1 DEF FeedbackOf
    <3>3. turn'.by = "swipe" => turn'.shown = "full" /\ turn'.own
      <4>1. CASE turn' = turn
        BY <3>1, <4>1 DEF Followed
      <4>2. CASE turn' # turn
        <5>1. swipeDir = LastSwipe.dir /\ overlayOpacity = "full"
          BY <1>5, <2>2, <3>1, <4>2 DEF FeedbackOf
        <5>2. own = TRUE
          BY <3>1
        <5> HIDE DEF own
        <5>3. turn' = [by |-> "swipe", own |-> TRUE, shown |-> "full"]
          BY <2>2, <4>2, <5>1, <5>2
        <5> QED
          BY <5>3
      <4> QED
        BY <4>1, <4>2
    <3> QED
      BY <1>1, <3>2, <3>3 DEF Followed
  <2> QED
    BY <1>1, <1>2, <1>3, <2>2, <2>3 DEF GesturesInv, Gestures!TypeOK
<1> QED
  BY <1>4, <1>5

\* What is done while no finger moves, and arrow keys at any time, does not
\* disturb a touch.
LEMMA ClicksKeep ==
  ASSUME GesturesInv, finger = <<>>, UNCHANGED <<finger, touchData, fast, isSwiping, meddled>>,
         overlayOpacity' \in {"none", overlayOpacity},
         turn' = turn \/ turn'.by \in {"none", "tap"}
  PROVE  ~meddled' => Followed'
BY DEF GesturesInv, Followed

LEMMA NextGestures ==
  ASSUME Gestures!ConstantsFit
  PROVE  GesturesInv /\ [Gestures!Next]_(Gestures!vars) => GesturesInv'
<1> SUFFICES ASSUME GesturesInv, [Gestures!Next]_(Gestures!vars)
             PROVE  GesturesInv'
  OBVIOUS
<1>1. Gestures!TypeOK /\ Gestures!TooltipsCounted /\ (~meddled => Followed) /\ LastPage \in Nat
  BY DEF GesturesInv, Gestures!ConstantsFit
<1>2. ASSUME NEW p \in Points, NEW f \in BOOLEAN, Gestures!TouchMove(p, f)
      PROVE  GesturesInv'
  BY <1>2, MoveKeeps
<1>3. ASSUME Gestures!HandleTouchEnd
      PROVE  GesturesInv'
  BY <1>3, TouchEndKeeps
<1>4. ASSUME Gestures!TouchCancel
      PROVE  GesturesInv'
  <2>1. /\ meddled' = TRUE
        /\ UNCHANGED <<fast, isSwiping, overlayOpacity, swipeDir, loadState, currentPage, openTooltips,
                       hasTooltip, swipeNavigation, tapNavigation, menuVisible>>
    BY <1>4 DEF Gestures!TouchCancel, Gestures!overlayVars, Gestures!pageVars, Gestures!tooltipVars,
       Gestures!navVars
  <2> QED
    BY <1>1, <2>1 DEF GesturesInv, Gestures!TypeOK, Gestures!TooltipsCounted
<1>5. ASSUME NEW dir \in Gestures!Directions, Gestures!HandleSideTap(dir)
      PROVE  GesturesInv'
  <2> DEFINE tap == [dir |-> dir, square |-> 100, fromRight |-> FALSE]
  <2>1. /\ finger = <<>> /\ UNCHANGED <<finger, touchData, fast, isSwiping, meddled>>
        /\ UNCHANGED <<loadState, swipeNavigation, tapNavigation, menuVisible>>
    BY <1>5 DEF Gestures!HandleSideTap, Gestures!Idle, Gestures!touchVars, Gestures!navVars
  <2>2. CASE Gestures!Suspended
    <3>1. openTooltips' = {} /\ hasTooltip' = {} /\ UNCHANGED <<overlayOpacity, swipeDir, currentPage, turn>>
      BY <1>5, <2>2 DEF Gestures!HandleSideTap, Gestures!overlayVars
    <3>2. ~meddled' => Followed'
      BY <2>1, <3>1, ClicksKeep
    <3> QED
      BY <1>1, <2>1, <3>1, <3>2 DEF GesturesInv, Gestures!TypeOK, Gestures!TooltipsCounted
  <2>3. CASE ~Gestures!Suspended
    <3>1. Gestures!OnSwipeEnd(tap, "tap", TRUE)
      BY <1>5, <2>3 DEF Gestures!HandleSideTap
    <3>2. /\ swipeDir' = swipeDir /\ overlayOpacity' \in {"none", overlayOpacity}
          /\ currentPage' \in -1 .. LastPage
          /\ openTooltips' \subseteq DOMAIN TooltipKey /\ Gestures!TooltipsCounted'
          /\ \/ turn' = turn
             \/ turn' = [by |-> "tap", own |-> TRUE,
                         shown |-> IF swipeDir = tap.dir THEN overlayOpacity ELSE "none"]
      <4> HIDE DEF tap
      <4> QED
        BY <3>1, SwipeEnds
    <3>3. ~meddled' => Followed'
      BY <2>1, <3>2, ClicksKeep
    <3> QED
      BY <1>1, <2>1, <3>2, <3>3 DEF GesturesInv, Gestures!TypeOK
  <2> QED
    BY <2>2, <2>3
<1>6. ASSUME NEW dir \in Gestures!Directions, Gestures!KeyUp(dir)
      PROVE  GesturesInv'
  <2>1. /\ loadState = "Loaded" /\ currentPage # -1
        /\ Gestures!IncrementPage(dir) /\ Gestures!TooltipsOfPage /\ turn' = Gestures!NoTurn
        /\ UNCHANGED <<finger, touchData, fast, isSwiping, overlayOpacity, swipeDir, loadState,
                       swipeNavigation, tapNavigation, menuVisible, meddled>>
    BY <1>6 DEF Gestures!KeyUp, Gestures!touchVars, Gestures!overlayVars, Gestures!navVars
  <2>2. /\ currentPage' \in 0 .. LastPage
        /\ openTooltips' \subseteq DOMAIN TooltipKey /\ Gestures!TooltipsCounted'
        /\ hasTooltip' \in {{}, hasTooltip}
    BY <2>1, PageTurns
  <2>3. currentPage' \in -1 .. LastPage /\ currentPage' # -1
    BY <1>1, <2>2
  <2>4. ASSUME ~meddled'
        PROVE  Followed'
    <3>1. Followed
      BY <1>1, <2>1, <2>4
    <3>2. isSwiping => ~Gestures!Suspended'
      BY <2>1, <2>2, <3>1 DEF Followed, Gestures!Suspended
    <3> QED
      BY <2>1, <2>3, <3>1, <3>2 DEF Followed, LastSwipe, FeedbackOf, Gestures!NoTurn
  <2> QED
    BY <1>1, <2>1, <2>2, <2>3, <2>4 DEF GesturesInv, Gestures!TypeOK
<1>7. ASSUME NEW t \in DOMAIN TooltipKey, Gestures!ClickTooltip(t)
      PROVE  GesturesInv'
  <2>1. /\ finger = <<>> /\ UNCHANGED <<finger, touchData, fast, isSwiping, meddled>>
        /\ UNCHANGED <<overlayOpacity, swipeDir, loadState, currentPage, swipeNavigation, tapNavigation,
                       menuVisible, turn>>
        /\ \/ openTooltips' = {}
           \/ /\ openTooltips' = {t}
              /\ hasTooltip' = {TooltipKey[t]} \ {TooltipKey[o] : o \in DOMAIN TooltipKey \ {t}}
    BY <1>7 DEF Gestures!ClickTooltip, Gestures!Idle, Gestures!touchVars, Gestures!overlayVars,
       Gestures!pageVars, Gestures!navVars
  <2>2. ~meddled' => Followed'
    BY <2>1, ClicksKeep
  <2>3. Gestures!TooltipsCounted' /\ openTooltips' \subseteq DOMAIN TooltipKey
    BY <2>1 DEF Gestures!TooltipsCounted
  <2> QED
    BY <1>1, <2>1, <2>2, <2>3 DEF GesturesInv, Gestures!TypeOK
<1>8. ASSUME Gestures!ClickAway \/ \E swipes, taps \in BOOLEAN : Gestures!SetNavigation(swipes, taps)
      PROVE  GesturesInv'
  <2>1. /\ finger = <<>> /\ UNCHANGED <<finger, touchData, fast, isSwiping, meddled>>
        /\ UNCHANGED <<overlayOpacity, swipeDir, loadState, currentPage, turn>>
        /\ openTooltips' = {} /\ hasTooltip' = {}
        /\ swipeNavigation' \in BOOLEAN /\ tapNavigation' \in BOOLEAN /\ menuVisible' \in BOOLEAN
    BY <1>1, <1>8 DEF Gestures!ClickAway, Gestures!SetNavigation, Gestures!Idle, Gestures!touchVars,
       Gestures!overlayVars, Gestures!pageVars, Gestures!navVars, Gestures!TypeOK
  <2>2. ~meddled' => Followed'
    BY <2>1, ClicksKeep
  <2> QED
    BY <1>1, <2>1, <2>2 DEF GesturesInv, Gestures!TypeOK, Gestures!TooltipsCounted
<1>9. ASSUME NEW ok \in BOOLEAN, NEW first \in -1 .. LastPage, Gestures!Loaded(ok, first)
      PROVE  GesturesInv'
  <2>1. /\ loadState = "Loading" /\ loadState' \in {"Loaded", "Error"} /\ currentPage' \in -1 .. LastPage
        /\ UNCHANGED <<finger, touchData, fast, isSwiping, overlayOpacity, swipeDir, openTooltips,
                       hasTooltip, swipeNavigation, tapNavigation, menuVisible, turn, meddled>>
    BY <1>1, <1>9 DEF Gestures!Loaded, Gestures!touchVars, Gestures!overlayVars, Gestures!tooltipVars,
       Gestures!navVars
  <2>2. ASSUME ~meddled'
        PROVE  Followed'
    <3>1. Followed /\ ~isSwiping
      BY <1>1, <2>1, <2>2 DEF Followed, Gestures!Suspended
    <3> QED
      BY <2>1, <3>1 DEF Followed
  <2> QED
    BY <1>1, <2>1, <2>2 DEF GesturesInv, Gestures!TypeOK, Gestures!TooltipsCounted
<1>10. ASSUME UNCHANGED Gestures!vars
       PROVE  GesturesInv'
  <2>1. UNCHANGED <<finger, touchData, fast, isSwiping, overlayOpacity, swipeDir, loadState, currentPage,
                    openTooltips, hasTooltip, swipeNavigation, tapNavigation, menuVisible, turn, meddled>>
    BY <1>10 DEF Gestures!vars, Gestures!touchVars, Gestures!overlayVars, Gestures!pageVars,
       Gestures!tooltipVars, Gestures!navVars
  <2>2. Followed => Followed'
    BY <2>1 DEF Followed, LastSwipe, FeedbackOf, Gestures!Suspended
  <2> QED
    BY <1>1, <2>1, <2>2 DEF GesturesInv, Gestures!TypeOK, Gestures!TooltipsCounted
<1> QED
  BY <1>2, <1>3, <1>4, <1>5, <1>6, <1>7, <1>8, <1>9, <1>10 DEF Gestures!Next

\* What the reader of a small screen keeps has its types, for any points,
\* pages, labels and notes.
THEOREM GesturesTypeCorrect ==
  ASSUME Gestures!ConstantsFit
  PROVE  Gestures!Spec => []Gestures!TypeOK
BY GesturesHold, InitGestures, NextGestures, PTL DEF Gestures!Spec

\* The feedback of a swipe goes with it, a swipe that turns a page has shown
\* that it would and was one touch, and the tooltips that suspend swipes are
\* counted (GesturesFit), for any moves, keys, clicks and number of touches.
THEOREM GesturesAlwaysFit ==
  ASSUME Gestures!ConstantsFit
  PROVE  Gestures!Spec => []Gestures!GesturesFit
BY GesturesHold, InitGestures, NextGestures, PTL DEF Gestures!Spec

-----------------------------------------------------------------------------
\* The panels of the reader.

Panels == {"drawer", "gutter", "leftGutter", "main"}
Drag == [of : Panels \cup {"none"}, dragStartLen : Int, dragStartPos : Nat \cup {Layout!Undefined},
         last : Nat]

\* What the sizes are outside of a drag, and the types that the arithmetic
\* needs.
Sizes ==
  /\ drawerHeight \in Nat /\ gutterSize \in Int /\ mainWidth \in Nat
  /\ 20 * screen.innerWidth <= 100 * mainWidth /\ 100 * mainWidth <= 80 * screen.innerWidth

\* A drag starts with the length of its panel, and not with a word selected.
Drags ==
  /\ drag \in Drag
  /\ drag.of = "none" => drag = Layout!NoDrag
  /\ drag.of # "none" => ~selecting
  /\ drag.of = "drawer" /\ drag.dragStartPos = Layout!Undefined => drawerHeight = drag.dragStartLen

Tabbed ==
  /\ screen \in Windows /\ sidebarTab \in Tabs /\ shownWord \in LatinWords \cup {"none"}
  /\ drawerMinimized \in BOOLEAN /\ selecting \in BOOLEAN

LayoutInv == Tabbed /\ Sizes /\ Drags /\ Layout!LayoutFits

LEMMA WindowSize ==
  ASSUME Layout!ConstantsFit, NEW w \in Windows
  PROVE  /\ w.innerWidth \in Nat \ {0} /\ w.innerHeight \in Nat \ {0}
         /\ w.innerWidth % 100 = 0 /\ w.innerHeight % 100 = 0
BY DEF Layout!ConstantsFit

LEMMA PercentOf ==
  ASSUME NEW n \in 0 .. 100, NEW t \in Nat, t % 100 = 0
  PROVE  Layout!Percent(n, t) \in Nat /\ 100 * Layout!Percent(n, t) = n * t
<1>1. PICK k \in Nat : t = 100 * k
  <2>1. t = 100 * (t \div 100) /\ t \div 100 \in Nat
    OBVIOUS
  <2> QED
    BY <2>1
<1>2. n * t = 100 * (n * k) /\ n * k \in Nat
  BY <1>1
<1> DEFINE p == n * k
<1>3. p \in Nat
  BY <1>2
<1>4. (100 * p) \div 100 = p
  <2> HIDE DEF p
  <2> QED
    BY <1>3
<1> QED
  BY <1>2, <1>3, <1>4 DEF Layout!Percent

LEMMA ScreenShares ==
  ASSUME Layout!ConstantsFit, screen \in Windows
  PROVE  /\ screen.innerWidth \in Nat \ {0} /\ screen.innerHeight \in Nat \ {0}
         /\ \A n \in {0, 15, 20, 30, 56, 60, 80} :
              /\ Layout!Percent(n, screen.innerWidth) \in Nat
              /\ 100 * Layout!Percent(n, screen.innerWidth) = n * screen.innerWidth
              /\ Layout!Percent(n, screen.innerHeight) \in Nat
              /\ 100 * Layout!Percent(n, screen.innerHeight) = n * screen.innerHeight
<1>1. /\ screen.innerWidth \in Nat \ {0} /\ screen.innerHeight \in Nat \ {0}
      /\ screen.innerWidth % 100 = 0 /\ screen.innerHeight % 100 = 0
  BY WindowSize
<1>2. ASSUME NEW n \in {0, 15, 20, 30, 56, 60, 80}
      PROVE  /\ Layout!Percent(n, screen.innerWidth) \in Nat
             /\ 100 * Layout!Percent(n, screen.innerWidth) = n * screen.innerWidth
             /\ Layout!Percent(n, screen.innerHeight) \in Nat
             /\ 100 * Layout!Percent(n, screen.innerHeight) = n * screen.innerHeight
  <2>1. n \in 0 .. 100
    OBVIOUS
  <2>2. screen.innerWidth \in Nat /\ screen.innerHeight \in Nat
    BY <1>1
  <2>3. ASSUME NEW t \in Nat, t % 100 = 0
        PROVE  Layout!Percent(n, t) \in Nat /\ 100 * Layout!Percent(n, t) = n * t
    BY <2>1, <2>3, PercentOf
  <2> QED
    BY <1>1, <2>2, <2>3
<1> QED
  BY <1>1, <1>2

LEMMA InitLayout ==
  ASSUME Layout!ConstantsFit, Layout!Init
  PROVE  LayoutInv
<1> USE DEF Layout!Init
<1>1. screen \in Windows
  OBVIOUS
<1>2. drawerHeight \in Nat /\ mainWidth \in Nat /\ 100 * mainWidth = 56 * screen.innerWidth
  BY <1>1, ScreenShares
<1>3. Tabbed
  BY <1>1 DEF Tabbed, Layout!ConstantsFit
<1>6. Layout!NoDrag \in Drag /\ Layout!NoDrag.of = "none"
  BY DEF Layout!NoDrag, Layout!Undefined, Drag, Panels
<1>7. Drags
  BY <1>6 DEF Drags
<1>4. Sizes
  BY <1>1, <1>2, ScreenShares DEF Sizes
<1>5. Layout!LayoutFits
  BY <1>1, <1>2, ScreenShares DEF Layout!LayoutFits, Layout!FollowsPointer, Layout!PanelsFit,
     Layout!SelectedIsVisible, Layout!NoDrag, Layout!Undefined
<1> QED
  BY <1>3, <1>4, <1>5, <1>7 DEF LayoutInv

\* The four panels: all but the drawer are of the large screen.
LEMMA PanelBounds ==
  ASSUME Layout!ConstantsFit, LayoutInv, NEW of \in Panels, NEW p, p = Layout!Panel(of),
         NEW min, min = Layout!Percent(p.min, p.total), NEW max, max = Layout!Percent(p.max, p.total)
  PROVE  /\ p.len \in Int /\ p.reverse \in BOOLEAN /\ min \in Nat /\ max \in Nat /\ min <= max
         /\ of = "drawer" => 100 * max = 60 * screen.innerHeight
         /\ of = "main" => 100 * min = 20 * screen.innerWidth /\ 100 * max = 80 * screen.innerWidth
<1>1. screen \in Windows /\ drawerHeight \in Int /\ gutterSize \in Int /\ mainWidth \in Int
  BY DEF LayoutInv, Tabbed, Sizes
<1>2. CASE of = "drawer"
  <2>1. /\ p.len = drawerHeight /\ p.reverse = FALSE
        /\ min = Layout!Percent(0, screen.innerHeight) /\ max = Layout!Percent(60, screen.innerHeight)
    BY <1>2 DEF Layout!Panel
  <2>2. /\ screen.innerHeight \in Nat
        /\ min \in Nat /\ 100 * min = 0 * screen.innerHeight
        /\ max \in Nat /\ 100 * max = 60 * screen.innerHeight
    BY <1>1, <2>1, ScreenShares
  <2>3. min <= max
    BY <2>2
  <2> QED
    BY <1>1, <1>2, <2>1, <2>2, <2>3
<1>3. CASE of \in {"gutter", "leftGutter"}
  <2>1. /\ p.len = gutterSize /\ p.reverse \in BOOLEAN
        /\ min = Layout!Percent(0, screen.innerWidth) /\ max = Layout!Percent(30, screen.innerWidth)
    BY <1>3 DEF Layout!Panel
  <2> QED
    BY <1>1, <1>3, <2>1, ScreenShares
<1>4. CASE of = "main"
  <2>1. /\ p.len = mainWidth /\ p.reverse = TRUE
        /\ min = Layout!Percent(20, screen.innerWidth) /\ max = Layout!Percent(80, screen.innerWidth)
    BY <1>4 DEF Layout!Panel
  <2>2. /\ screen.innerWidth \in Nat
        /\ min \in Nat /\ 100 * min = 20 * screen.innerWidth
        /\ max \in Nat /\ 100 * max = 80 * screen.innerWidth
    BY <1>1, <2>1, ScreenShares
  <2>3. min <= max
    BY <2>2
  <2> QED
    BY <1>1, <1>4, <2>1, <2>2, <2>3
<1> QED
  BY <1>2, <1>3, <1>4 DEF Panels

LEMMA DragMoves ==
  ASSUME Layout!ConstantsFit, LayoutInv, NEW pos \in Positions, Layout!OnDrag(pos)
  PROVE  LayoutInv'
<1> DEFINE of == drag.of
           panel == Layout!Panel(of)
           min == Layout!Percent(panel.min, panel.total)
           max == Layout!Percent(panel.max, panel.total)
           start == IF drag.dragStartPos = Layout!Undefined THEN pos ELSE drag.dragStartPos
           to == Layout!Proposed(start, pos, panel)
           clamped == Layout!Clamp(to, panel)
           new == Layout!NewLen(start, pos, panel)
<1>1. /\ of \in Panels /\ drag \in Drag /\ pos \in Nat /\ drag.dragStartLen \in Int /\ screen \in Windows
      /\ Tabbed /\ Sizes /\ ~selecting /\ Layout!PanelsFit /\ start \in Nat
  BY DEF LayoutInv, Drags, Drag, Layout!OnDrag, Layout!ConstantsFit, Tabbed, Layout!LayoutFits
<1>2. /\ drag' = [drag EXCEPT !.dragStartPos = start, !.last = pos]
      /\ drawerHeight' = IF of = "drawer" THEN new ELSE drawerHeight
      /\ gutterSize' = IF of \in {"gutter", "leftGutter"} THEN new ELSE gutterSize
      /\ mainWidth' = IF of = "main" THEN new ELSE mainWidth
      /\ UNCHANGED <<screen, drawerMinimized, sidebarTab, shownWord, selecting>>
  BY DEF Layout!OnDrag, Layout!tabVars
<1>3. /\ panel.len \in Int /\ panel.reverse \in BOOLEAN
      /\ min \in Nat /\ max \in Nat /\ min <= max
      /\ of = "drawer" => 100 * max = 60 * screen.innerHeight
      /\ of = "main" => 100 * min = 20 * screen.innerWidth /\ 100 * max = 80 * screen.innerWidth
  <2>1. /\ panel = Layout!Panel(of) /\ min = Layout!Percent(panel.min, panel.total)
        /\ max = Layout!Percent(panel.max, panel.total) /\ of \in Panels
    BY <1>1
  <2> HIDE DEF panel, of, min, max
  <2> QED
    BY <2>1, PanelBounds
<1>4. to \in Int
  BY <1>1, <1>3 DEF Layout!Proposed
<1>5. /\ clamped \in min .. max /\ new \in Int
      /\ new = clamped \/ new = panel.len
      /\ Layout!Abs(new - clamped) < 6
  <2> DEFINE len == panel.len
  <2>1. clamped = IF to > max THEN max ELSE IF to < min THEN min ELSE to
    BY DEF Layout!Clamp
  <2>2. new = IF clamped \in {min, max} \/ Layout!Abs(len - clamped) >= 6 THEN clamped ELSE len
    BY DEF Layout!NewLen, Layout!AtBound
  <2>3. len \in Int
    BY <1>3
  <2> HIDE DEF clamped, new, to, min, max, len, panel, start, of
  <2>4. clamped \in min .. max /\ new \in Int /\ (new = clamped \/ new = len) /\ Layout!Abs(new - clamped) < 6
    BY <1>3, <1>4, <2>1, <2>2, <2>3 DEF Layout!Abs
  <2> QED
    BY <2>4 DEF len
<1>6. /\ drag'.of = of /\ drag'.dragStartLen = drag.dragStartLen /\ drag'.dragStartPos = start
      /\ drag'.last = pos /\ drag' \in Drag
  BY <1>1, <1>2 DEF Drag
<1> HIDE DEF start, new, to, clamped, min, max
<1>7. Tabbed'
  BY <1>1, <1>2 DEF Tabbed
<1>8. Drags'
  BY <1>1, <1>2, <1>6 DEF Drags, Layout!Undefined, Panels
<1>9. Sizes' /\ Layout!PanelsFit'
  <2>4. screen.innerWidth \in Nat /\ screen.innerHeight \in Nat
    BY <1>1, ScreenShares
  <2> HIDE DEF panel, of
  <2>5. /\ of = "drawer" => panel.len = drawerHeight
        /\ of \in {"gutter", "leftGutter"} => panel.len = gutterSize
        /\ of = "main" => panel.len = mainWidth
    BY <1>1 DEF panel, Panels, Layout!Panel
  <2>1. CASE of = "drawer"
    <3>1. drawerHeight' = new /\ UNCHANGED <<screen, gutterSize, mainWidth>> /\ panel.len = drawerHeight
      BY <1>2, <2>1, <2>5
    <3>2. drawerHeight' \in Nat
      BY <1>1, <1>3, <1>5, <3>1 DEF Sizes
    <3>3. CASE new = clamped
      <4>1. 100 * drawerHeight' <= 60 * screen.innerHeight
        BY <1>3, <1>5, <2>1, <2>4, <3>1, <3>3
      <4> QED
        BY <1>1, <3>1, <3>2, <4>1 DEF Sizes, Layout!PanelsFit
    <3>4. CASE new = panel.len
      <4>1. \/ 100 * drawerHeight <= 60 * screen.innerHeight
            \/ drawerHeight = drag.dragStartLen
        BY <1>1, <2>1 DEF of, Layout!PanelsFit, LayoutInv, Drags
      <4> QED
        BY <1>1, <1>6, <3>1, <3>2, <3>4, <4>1 DEF Sizes, Layout!PanelsFit
    <3> QED
      BY <1>5, <3>3, <3>4
  <2>2. CASE of \in {"gutter", "leftGutter"}
    BY <1>1, <1>2, <1>3, <1>5, <1>6, <2>2, <2>4, <2>5 DEF Sizes, Layout!PanelsFit
  <2>3. CASE of = "main"
    BY <1>1, <1>2, <1>3, <1>5, <1>6, <2>3, <2>4, <2>5 DEF Sizes, Layout!PanelsFit
  <2> QED
    BY <1>1, <2>1, <2>2, <2>3 DEF Panels
<1>10. Layout!FollowsPointer'
  <2>1. CASE of = "drawer"
    <3>1. to = drag.dragStartLen + (start - pos) * 1
      BY <2>1 DEF to, panel, Layout!Proposed, Layout!Panel
    <3>2. clamped = LET lowest == Layout!Percent(0, screen.innerHeight)
                        highest == Layout!Percent(60, screen.innerHeight)
                    IN IF to > highest THEN highest ELSE IF to < lowest THEN lowest ELSE to
      BY <2>1 DEF clamped, panel, Layout!Clamp, Layout!Panel
    <3>3. drag'.of = "drawer" /\ drawerHeight' = new /\ screen' = screen
      BY <1>2, <1>6, <2>1
    <3> QED
      BY <1>1, <1>4, <1>5, <1>6, <3>1, <3>2, <3>3
      DEF Layout!FollowsPointer, Layout!Panel, Layout!Clamp, Layout!Abs
  <2>2. CASE of = "gutter"
    <3>1. to = drag.dragStartLen + (start - pos) * 1
      BY <2>2 DEF to, panel, Layout!Proposed, Layout!Panel
    <3>2. clamped = LET lowest == Layout!Percent(0, screen.innerWidth)
                        highest == Layout!Percent(30, screen.innerWidth)
                    IN IF to > highest THEN highest ELSE IF to < lowest THEN lowest ELSE to
      BY <2>2 DEF clamped, panel, Layout!Clamp, Layout!Panel
    <3>3. drag'.of = "gutter" /\ gutterSize' = new /\ screen' = screen
      BY <1>2, <1>6, <2>2
    <3> QED
      BY <1>1, <1>4, <1>5, <1>6, <3>1, <3>2, <3>3
      DEF Layout!FollowsPointer, Layout!Panel, Layout!Clamp, Layout!Abs
  <2>3. CASE of = "leftGutter"
    <3>1. to = drag.dragStartLen + (start - pos) * (-1)
      BY <2>3 DEF to, panel, Layout!Proposed, Layout!Panel
    <3>2. clamped = LET lowest == Layout!Percent(0, screen.innerWidth)
                        highest == Layout!Percent(30, screen.innerWidth)
                    IN IF to > highest THEN highest ELSE IF to < lowest THEN lowest ELSE to
      BY <2>3 DEF clamped, panel, Layout!Clamp, Layout!Panel
    <3>3. drag'.of = "leftGutter" /\ gutterSize' = new /\ screen' = screen
      BY <1>2, <1>6, <2>3
    <3> QED
      BY <1>1, <1>4, <1>5, <1>6, <3>1, <3>2, <3>3
      DEF Layout!FollowsPointer, Layout!Panel, Layout!Clamp, Layout!Abs
  <2>4. CASE of = "main"
    <3>1. to = drag.dragStartLen + (start - pos) * (-1)
      BY <2>4 DEF to, panel, Layout!Proposed, Layout!Panel
    <3>2. clamped = LET lowest == Layout!Percent(20, screen.innerWidth)
                        highest == Layout!Percent(80, screen.innerWidth)
                    IN IF to > highest THEN highest ELSE IF to < lowest THEN lowest ELSE to
      BY <2>4 DEF clamped, panel, Layout!Clamp, Layout!Panel
    <3>3. drag'.of = "main" /\ mainWidth' = new /\ screen' = screen
      BY <1>2, <1>6, <2>4
    <3> QED
      BY <1>1, <1>4, <1>5, <1>6, <3>1, <3>2, <3>3
      DEF Layout!FollowsPointer, Layout!Panel, Layout!Clamp, Layout!Abs
  <2> QED
    BY <1>1, <2>1, <2>2, <2>3, <2>4 DEF Panels
<1>11. Layout!SelectedIsVisible'
  BY <1>1, <1>2 DEF Layout!SelectedIsVisible
<1> QED
  BY <1>7, <1>8, <1>9, <1>10, <1>11 DEF LayoutInv, Layout!LayoutFits

\* A window of another size keeps the text's share of the width.
LEMMA ShareKept ==
  ASSUME NEW m \in Nat, NEW old \in Nat \ {0}, NEW new \in Nat \ {0}, new % 100 = 0,
         20 * old <= 100 * m, 100 * m <= 80 * old
  PROVE  /\ (m * new) \div old \in Nat
         /\ 20 * new <= 100 * ((m * new) \div old) /\ 100 * ((m * new) \div old) <= 80 * new
<1>1. PICK k \in Nat \ {0} : new = 100 * k
  <2>1. new = 100 * (new \div 100) /\ new \div 100 \in Nat \ {0}
    OBVIOUS
  <2> QED
    BY <2>1
<1>2. m * new \in Nat /\ (20 * k) * old <= m * new /\ m * new <= (80 * k) * old
  <2>1. k * (20 * old) <= k * (100 * m) /\ k * (100 * m) <= k * (80 * old)
    <3> DEFINE a == 20 * old
               b == 100 * m
               c == 80 * old
    <3>1. a \in Nat /\ b \in Nat /\ c \in Nat /\ a <= b /\ b <= c
      OBVIOUS
    <3> HIDE DEF a, b, c
    <3>2. k * a <= k * b /\ k * b <= k * c
      BY <3>1
    <3> QED
      BY <3>2 DEF a, b, c
  <2>2. k * (20 * old) = (20 * k) * old /\ k * (80 * old) = (80 * k) * old /\ k * (100 * m) = m * new
    BY <1>1
  <2>3. m * new \in Nat
    OBVIOUS
  <2> QED
    BY <2>1, <2>2, <2>3
<1> DEFINE n == m * new
           q == n \div old
<1>3. n \in Nat /\ q \in Nat /\ q * old <= n /\ n < (q + 1) * old
  <2>1. n \in Nat
    BY <1>2
  <2> HIDE DEF n
  <2> QED
    BY <2>1
<1>4. 20 * k <= q
  <2>1. CASE q + 1 <= 20 * k
    <3>1. (q + 1) * old <= (20 * k) * old
      BY <1>3, <2>1
    <3> QED
      BY <1>2, <1>3, <3>1 DEF n
  <2> HIDE DEF q
  <2> QED
    BY <1>3, <2>1
<1>5. q <= 80 * k
  <2>1. CASE 80 * k + 1 <= q
    <3>1. (80 * k + 1) * old <= q * old
      BY <1>3, <2>1
    <3>2. (80 * k + 1) * old = (80 * k) * old + old
      OBVIOUS
    <3> QED
      BY <1>2, <1>3, <3>1, <3>2 DEF n
  <2> HIDE DEF q
  <2> QED
    BY <1>3, <2>1
<1>6. 20 * new = 100 * (20 * k) /\ 80 * new = 100 * (80 * k)
  BY <1>1
<1> HIDE DEF q
<1> QED
  BY <1>3, <1>4, <1>5, <1>6 DEF q, n

LEMMA ScreenTurns ==
  ASSUME Layout!ConstantsFit, LayoutInv, NEW to \in Windows, Layout!Resize(to)
  PROVE  LayoutInv'
<1>1. /\ screen' = to /\ drag' = Layout!NoDrag /\ UNCHANGED <<drawerMinimized, sidebarTab, shownWord>>
      /\ gutterSize' = IF Layout!IsScreenSmall THEN 100
                       ELSE IF to.innerWidth - screen.innerWidth < 0
                            THEN gutterSize + ((to.innerWidth - screen.innerWidth) \div 2) ELSE gutterSize
      /\ mainWidth' = IF Layout!IsScreenSmall THEN Layout!Percent(56, to.innerWidth)
                      ELSE (mainWidth * to.innerWidth) \div screen.innerWidth
  BY DEF Layout!Resize, Layout!tabVars
<1>2. Tabbed /\ Sizes /\ Layout!SelectedIsVisible /\ screen \in Windows
  BY DEF LayoutInv, Layout!LayoutFits, Tabbed
<1>3. /\ screen.innerWidth \in Nat \ {0} /\ to.innerWidth \in Nat \ {0} /\ to.innerWidth % 100 = 0
      /\ to.innerHeight \in Nat
  BY <1>2, WindowSize
<1>4. Layout!Percent(56, to.innerWidth) \in Nat /\ 100 * Layout!Percent(56, to.innerWidth) = 56 * to.innerWidth
  <2> DEFINE new == to.innerWidth
  <2>1. new \in Nat /\ new % 100 = 0 /\ 56 \in 0 .. 100
    BY <1>3
  <2> HIDE DEF new
  <2>2. Layout!Percent(56, new) \in Nat /\ 100 * Layout!Percent(56, new) = 56 * new
    BY <2>1, PercentOf
  <2> QED
    BY <2>2 DEF new
<1>5. Layout!Percent(15, screen.innerWidth) \in Nat
      /\ 100 * Layout!Percent(15, screen.innerWidth) = 15 * screen.innerWidth
  BY <1>2, ScreenShares
<1>6. /\ mainWidth' \in Nat /\ 20 * to.innerWidth <= 100 * mainWidth'
      /\ 100 * mainWidth' <= 80 * to.innerWidth
  <2>1. CASE Layout!IsScreenSmall
    BY <1>1, <1>3, <1>4, <2>1
  <2>2. CASE ~Layout!IsScreenSmall
    <3> DEFINE m == mainWidth
               old == screen.innerWidth
               new == to.innerWidth
    <3>1. m \in Nat /\ 20 * old <= 100 * m /\ 100 * m <= 80 * old
      BY <1>2 DEF Sizes
    <3>2. old \in Nat \ {0} /\ new \in Nat \ {0} /\ new % 100 = 0
      BY <1>3
    <3>3. mainWidth' = (m * new) \div old
      BY <1>1, <2>2
    <3> HIDE DEF m, old, new
    <3>4. /\ (m * new) \div old \in Nat
          /\ 20 * new <= 100 * ((m * new) \div old) /\ 100 * ((m * new) \div old) <= 80 * new
      BY <3>1, <3>2, ShareKept
    <3> QED
      BY <3>3, <3>4 DEF new
  <2> QED
    BY <2>1, <2>2
<1>7. drawerHeight' \in Nat /\ gutterSize' \in Int
  BY <1>1, <1>2, <1>3, <1>5 DEF Layout!Resize, Sizes
<1>8. selecting' \in BOOLEAN
  BY DEF Layout!Resize
<1>9. Layout!NoDrag \in Drag /\ Layout!NoDrag.of = "none" /\ Layout!NoDrag.dragStartPos = Layout!Undefined
  BY DEF Layout!NoDrag, Layout!Undefined, Drag, Panels
<1>10. Tabbed'
  BY <1>1, <1>2, <1>8 DEF Tabbed
<1>11. Sizes'
  BY <1>1, <1>6, <1>7 DEF Sizes
<1>12. Drags'
  BY <1>1, <1>9 DEF Drags
<1>13. Layout!FollowsPointer'
  BY <1>1, <1>9 DEF Layout!FollowsPointer, Layout!Undefined
<1>14. Layout!PanelsFit'
  BY <1>1, <1>3, <1>6, <1>9 DEF Layout!PanelsFit
<1>15. Layout!SelectedIsVisible'
  <2>1. ASSUME selecting'
        PROVE  /\ selecting /\ to.innerHeight = screen.innerWidth /\ ~drawerMinimized
               /\ to.innerWidth < SmallWidth => drawerHeight' = Layout!Percent(15, screen.innerWidth)
    BY <2>1 DEF Layout!Resize, Layout!IsScreenSmall
  <2> QED
    BY <1>1, <1>2, <1>5, <2>1 DEF Layout!SelectedIsVisible, Layout!IsScreenSmall
<1> QED
  BY <1>10, <1>11, <1>12, <1>13, <1>14, <1>15 DEF LayoutInv, Layout!LayoutFits

\* The steps of which no panel is dragged, or stops being dragged, and no
\* window changes: they keep the columns and at most raise the drawer.
LEMMA UserActs ==
  ASSUME Layout!ConstantsFit, LayoutInv, NEW word \in LatinWords,
         Layout!OnWordSelected(word) \/ Layout!SetDictWord(word)
  PROVE  LayoutInv'
<1>1. /\ UNCHANGED <<screen, gutterSize, mainWidth, drag>> /\ drag = Layout!NoDrag
      /\ drawerHeight' = IF Layout!IsScreenSmall /\ drawerHeight < Layout!Percent(15, screen.innerHeight)
                         THEN Layout!Percent(15, screen.innerHeight) ELSE drawerHeight
      /\ sidebarTab' = "Dictionary" /\ shownWord' = word /\ drawerMinimized' = FALSE
      /\ selecting' \in BOOLEAN
  BY DEF Layout!OnWordSelected, Layout!SetDictWord, LayoutInv, Tabbed
<1>2. Tabbed /\ Sizes /\ Drags /\ screen \in Windows /\ Layout!PanelsFit
  BY DEF LayoutInv, Tabbed, Layout!LayoutFits
<1>3. /\ Layout!Percent(15, screen.innerHeight) \in Nat /\ screen.innerHeight \in Nat
      /\ 100 * Layout!Percent(15, screen.innerHeight) = 15 * screen.innerHeight
  BY <1>2, ScreenShares
<1>4. Layout!NoDrag.of = "none" /\ Layout!NoDrag.dragStartPos = Layout!Undefined
  BY DEF Layout!NoDrag
<1>5. /\ drawerHeight' \in Nat
      /\ Layout!IsScreenSmall => 100 * drawerHeight' >= 15 * screen.innerHeight
  BY <1>1, <1>2, <1>3 DEF Sizes
<1>6. Tabbed'
  BY <1>1, <1>2 DEF Tabbed, Layout!ConstantsFit
<1>7. Sizes'
  BY <1>1, <1>2, <1>5 DEF Sizes
<1>8. Drags'
  BY <1>1, <1>2, <1>4 DEF Drags
<1>9. Layout!FollowsPointer'
  BY <1>1, <1>4 DEF Layout!FollowsPointer
<1>10. Layout!PanelsFit'
  BY <1>1, <1>2, <1>4 DEF Layout!PanelsFit
<1>11. Layout!SelectedIsVisible'
  <2>1. word # "none"
    BY DEF Layout!ConstantsFit
  <2> QED
    BY <1>1, <1>5, <2>1 DEF Layout!SelectedIsVisible, Layout!IsScreenSmall
<1> QED
  BY <1>6, <1>7, <1>8, <1>9, <1>10, <1>11 DEF LayoutInv, Layout!LayoutFits

\* A step of the tabs that leaves the sizes alone keeps the rest if no word is
\* selected any more.
LEMMA SizesStay ==
  ASSUME Layout!ConstantsFit, LayoutInv, Tabbed', ~selecting',
         UNCHANGED <<screen, drawerHeight, gutterSize, mainWidth>>, Drags',
         drag'.dragStartPos = Layout!Undefined
  PROVE  LayoutInv'
<1>1. Sizes /\ Layout!PanelsFit
  BY DEF LayoutInv, Layout!LayoutFits
<1>2. Sizes'
  BY <1>1 DEF Sizes
<1>3. Layout!FollowsPointer'
  BY DEF Layout!FollowsPointer
<1>4. Layout!PanelsFit'
  BY <1>1 DEF Layout!PanelsFit
<1>5. Layout!SelectedIsVisible'
  BY DEF Layout!SelectedIsVisible
<1> QED
  BY <1>2, <1>3, <1>4, <1>5 DEF LayoutInv, Layout!LayoutFits

LEMMA NextLayout ==
  ASSUME Layout!ConstantsFit
  PROVE  LayoutInv /\ [Layout!Next]_(Layout!vars) => LayoutInv'
<1> SUFFICES ASSUME LayoutInv, [Layout!Next]_(Layout!vars)
             PROVE  LayoutInv'
  OBVIOUS
<1>1. Tabbed /\ Sizes /\ Drags /\ Layout!LayoutFits /\ screen \in Windows
  BY DEF LayoutInv, Tabbed
<1>2. /\ Layout!NoDrag \in Drag /\ Layout!NoDrag.of = "none"
      /\ Layout!NoDrag.dragStartPos = Layout!Undefined
  BY DEF Layout!NoDrag, Layout!Undefined, Drag, Panels
<1>3. ASSUME NEW of \in Panels, Layout!OnDragStart(of)
      PROVE  LayoutInv'
  <2>1. /\ drag' = [Layout!NoDrag EXCEPT !.of = of, !.dragStartLen = Layout!Panel(of).len] /\ ~selecting'
        /\ selecting' \in BOOLEAN
        /\ UNCHANGED <<screen, drawerHeight, gutterSize, mainWidth, drawerMinimized, sidebarTab, shownWord>>
    BY <1>3 DEF Layout!OnDragStart, Layout!sizeVars, Layout!tabVars
  <2>2. Layout!Panel(of).len \in Int /\ (of = "drawer" => Layout!Panel(of).len = drawerHeight)
    BY <1>1, <1>3 DEF Panels, Layout!Panel, Sizes
  <2> DEFINE len == Layout!Panel(of).len
  <2>3. /\ drag'.of = of /\ drag'.dragStartLen = len /\ drag'.dragStartPos = Layout!Undefined
        /\ drag' \in Drag
    <3> HIDE DEF len
    <3> QED
      BY <1>2, <1>3, <2>1, <2>2 DEF len, Drag, Layout!NoDrag
  <2>4. Drags'
    BY <1>3, <2>1, <2>2, <2>3 DEF Drags, Panels
  <2>5. Tabbed'
    BY <1>1, <2>1 DEF Tabbed
  <2> QED
    BY <2>1, <2>3, <2>4, <2>5, SizesStay
<1>4. ASSUME NEW pos \in Positions, Layout!OnDrag(pos)
      PROVE  LayoutInv'
  BY <1>4, DragMoves
<1>5. ASSUME Layout!OnDragEnd
      PROVE  LayoutInv'
  <2>1. drag.of # "none" /\ drag' = Layout!NoDrag /\ ~selecting
        /\ UNCHANGED <<screen, drawerHeight, gutterSize, mainWidth, drawerMinimized, sidebarTab, shownWord, selecting>>
    BY <1>1, <1>5 DEF Layout!OnDragEnd, Layout!sizeVars, Layout!tabVars, Drags
  <2>2. Drags' /\ Tabbed'
    BY <1>1, <1>2, <2>1 DEF Drags, Tabbed
  <2> QED
    BY <1>2, <2>1, <2>2, SizesStay
<1>6. ASSUME NEW to \in Windows, Layout!Resize(to)
      PROVE  LayoutInv'
  BY <1>6, ScreenTurns
<1>7. ASSUME NEW word \in LatinWords, Layout!OnWordSelected(word) \/ Layout!SetDictWord(word)
      PROVE  LayoutInv'
  BY <1>7, UserActs
<1>8. ASSUME \/ \E t \in Tabs : Layout!SetCurrentTab(t)
             \/ \E hidden \in BOOLEAN : Layout!SetDrawerMinimized(hidden)
      PROVE  LayoutInv'
  <2>1. /\ UNCHANGED <<screen, drawerHeight, gutterSize, mainWidth, drag, shownWord>>
        /\ drag = Layout!NoDrag /\ ~selecting' /\ selecting' \in BOOLEAN
        /\ sidebarTab' \in Tabs /\ drawerMinimized' \in BOOLEAN
    BY <1>1, <1>8 DEF Layout!SetCurrentTab, Layout!SetDrawerMinimized, Layout!sizeVars, Tabbed
  <2>2. Drags' /\ Tabbed'
    BY <1>1, <1>2, <2>1 DEF Drags, Tabbed
  <2> QED
    BY <1>2, <2>1, <2>2, SizesStay
<1>9. ASSUME UNCHANGED Layout!vars
      PROVE  LayoutInv'
  <2>1. UNCHANGED <<screen, drawerHeight, gutterSize, mainWidth, drawerMinimized, sidebarTab, shownWord,
                    drag, selecting>>
    BY <1>9 DEF Layout!vars, Layout!sizeVars, Layout!tabVars
  <2>2. Tabbed' /\ Sizes' /\ Drags'
    BY <1>1, <2>1 DEF Tabbed, Sizes, Drags
  <2>3. Layout!FollowsPointer'
    BY <1>1, <2>1 DEF Layout!LayoutFits, Layout!FollowsPointer, Layout!Panel
  <2>4. Layout!PanelsFit' /\ Layout!SelectedIsVisible'
    BY <1>1, <2>1 DEF Layout!LayoutFits, Layout!PanelsFit, Layout!SelectedIsVisible, Layout!IsScreenSmall
  <2> QED
    BY <2>2, <2>3, <2>4 DEF LayoutInv, Layout!LayoutFits
<1> QED
  BY <1>3, <1>4, <1>5, <1>6, <1>7, <1>8, <1>9 DEF Layout!Next, Panels

\* The reader's panels keep their types, for any windows, pointer positions,
\* tabs and words.
THEOREM LayoutTypeCorrect ==
  ASSUME Layout!ConstantsFit
  PROVE  Layout!Spec => []Layout!TypeOK
<1>1. LayoutInv => Layout!TypeOK
  BY DEF LayoutInv, Tabbed, Sizes, Layout!TypeOK
<1> QED
  BY <1>1, InitLayout, NextLayout, PTL DEF Layout!Spec

\* A dragged panel follows the pointer however it goes to and fro, no drag or
\* window leaves a column too narrow, and the entries of a selected word can be
\* seen (LayoutFits), for any windows and however long the reader is used.
THEOREM LayoutAlwaysFits ==
  ASSUME Layout!ConstantsFit
  PROVE  Layout!Spec => []Layout!LayoutFits
<1>1. LayoutInv => Layout!LayoutFits
  BY DEF LayoutInv
<1> QED
  BY <1>1, InitLayout, NextLayout, PTL DEF Layout!Spec

\* The four machines of the reader together: works and spots, imported texts,
\* gestures and panels fit (ReaderFits), whatever each of them does meanwhile;
\* history that leads from one work to another at once is excluded, and so is
\* what is shown of imported texts that are asked at once.
THEOREM ReaderAlwaysFits ==
  ASSUME Reader!ConstantsFit, DirectJumps = FALSE, External!ConstantsFit,
         Gestures!ConstantsFit, Layout!ConstantsFit
  PROVE  Reader!Spec /\ External!Spec /\ Gestures!Spec /\ Layout!Spec => []ReaderFits
<1>1. /\ Reader!WorksAndSpotsFit /\ External!ImportsFit /\ Gestures!GesturesFit /\ Layout!LayoutFits
      => ReaderFits
  BY DEF ReaderFits
<1> QED
  BY <1>1, WorksAndSpotsAlwaysFit, ImportsAlwaysFit, GesturesAlwaysFit, LayoutAlwaysFits, PTL

=============================================================================

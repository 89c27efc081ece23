----------------------------- MODULE CorpusPage -----------------------------
(***************************************************************************)
(* The corpus page, the router and the hook that calls an API: the URL     *)
(* holds the query, the settings and the tokens of the current and the     *)
(* next page; whenever they change the page asks the server, and an answer *)
(* writes the token of the next page into the URL.  React renders between  *)
(* any two events; so the route is the current entry of the history.       *)
(***************************************************************************)
EXTENDS Naturals, Sequences

CONSTANTS
  Queries,          \* queries a user may enter; "" is none
  Settings,         \* page size, context and mode
  Default,          \* the settings of a route that names none
  Pages,            \* pages of results of a query
  MaxEntries,       \* entries of the history that the user makes
  MaxCalls,         \* requests that the user causes
  LeaveWhileLoading \* the user may leave the page before the answer

ConstantsFit ==
  /\ "" \in Queries /\ Default \in Settings
  /\ Pages \in Nat /\ MaxEntries \in Nat /\ MaxCalls \in Nat /\ LeaveWhileLoading \in BOOLEAN

VARIABLES
  entries, at,  \* the history of the browser and the place in it
  calls,        \* requests: input, whether open, whether the current one of its
                \* component, and whether that is still mounted
  results,      \* what the page shows
  asked         \* the input of the last render

vars == <<entries, at, calls, results, asked>>

-----------------------------------------------------------------------------
\* The tokens of pages: absent, null (there is no such page), or a token that
\* the server made for a query.
NoPage == [query |-> "", page |-> 0]
NullPage == [query |-> "", page |-> 1]
Token(query, page) == [query |-> query, page |-> page]
IsToken(p) == p.query # ""

\* fromRoute of the route of another page, which may also have a "q".
OtherRoute(query) ==
  [path |-> "other", query |-> query, settings |-> Default, cp |-> NoPage, np |-> NoPage]

CorpusRoute(query, settings, cp, np) ==
  [path |-> "corpus", query |-> query, settings |-> settings, cp |-> cp, np |-> np]

\* apiRequest; the query "" stands for no request.
Input(query, settings, cp) == [query |-> query, settings |-> settings, cp |-> cp]
NoInput == Input("", Default, NoPage)
ApiRequest(route) ==
  IF route.query = "" \/ route.cp = NullPage THEN NoInput
  ELSE Input(route.query, route.settings, route.cp)

Result(kind, input) == [kind |-> kind, input |-> input]

Init ==
  /\ entries = <<CorpusRoute("", Default, NoPage, NoPage)>> /\ at = 1
  /\ calls = <<>> /\ results = Result("N/A", NoInput) /\ asked = NoInput

Route == entries[at]
Mounted == Route.path = "corpus"

\* pushRouteInfo: a link that is already there is not pushed again.
Push(route) ==
  IF route = Route THEN UNCHANGED <<entries, at>>
  ELSE entries' = Append(SubSeq(entries, 1, at), route) /\ at' = at + 1

Replaced(cs) == [c \in DOMAIN cs |-> [cs[c] EXCEPT !.current = @ /\ ~cs[c].mounted]]
Unmounted(cs) == [c \in DOMAIN cs |-> [cs[c] EXCEPT !.mounted = FALSE]]

\* The render that follows a new route, with useApiCall: a new input replaces
\* the current one and is sent. A component that is gone keeps its input.
Render(route, cs, res) ==
  LET input == ApiRequest(route)
      new == IF Mounted THEN asked ELSE NoInput
      shown == IF Mounted THEN res ELSE Result("N/A", NoInput)
  IN IF route.path # "corpus"
     THEN calls' = Unmounted(cs) /\ results' = Result("N/A", NoInput) /\ asked' = NoInput
     ELSE /\ asked' = input
          /\ IF input = new THEN calls' = cs /\ results' = shown
             ELSE IF input = NoInput THEN calls' = Replaced(cs) /\ results' = shown
             ELSE /\ calls' = Append(Replaced(cs), [input |-> input, open |-> TRUE,
                                                    current |-> TRUE, mounted |-> TRUE])
                  /\ results' = Result("Loading", input)

To(route) == Push(route) /\ Render(route, calls, results)

MayAct == Len(calls) < MaxCalls /\ at < MaxEntries

-----------------------------------------------------------------------------
\* Mutant: the page tokens of the old query are copied.
SetNewQueryKeeps(query) ==
  /\ Mounted /\ MayAct
  /\ To(CorpusRoute(query, Route.settings, Route.cp, Route.np))

SetNewQuery(query) ==
  /\ Mounted /\ MayAct
  /\ To(CorpusRoute(query, Route.settings, NoPage, NoPage))

\* CorpusSettingsDialog.onCloseDialog: whatever the dialog shows; the page
\* tokens stay.
CloseSettings(settings) ==
  /\ Mounted /\ MayAct
  /\ To([Route EXCEPT !.settings = settings])

\* toNextPage. The button is there when results are shown, and enabled when
\* the URL has a next page.
ToNextPage ==
  /\ Mounted /\ MayAct
  /\ Route.query # "" /\ results.kind = "Found" /\ Route.cp # NullPage /\ IsToken(Route.np)
  /\ To(CorpusRoute(Route.query, Route.settings, Route.np, NoPage))

\* The popstate listener: Back and Forward.
PopState(to) ==
  /\ Len(calls) < MaxCalls
  /\ to \in DOMAIN entries /\ to \in {at - 1, at + 1}
  /\ at' = to /\ UNCHANGED entries
  /\ (Mounted /\ entries[to].path # "corpus" /\ ~LeaveWhileLoading) =>
       \A c \in DOMAIN calls : ~calls[c].open
  /\ Render(entries[to], calls, results)

\* A link or a menu leads to another page, for example the dictionary.
Leave(query) ==
  /\ Mounted /\ MayAct
  /\ LeaveWhileLoading \/ \A c \in DOMAIN calls : ~calls[c].open
  /\ To(OtherRoute(query))

-----------------------------------------------------------------------------
\* The token that the server gives with a page of results.
NextPage(input) ==
  IF input.cp.page + 1 < Pages THEN Token(input.query, input.cp.page + 1) ELSE NullPage

Closed(c) == [calls EXCEPT ![c].open = FALSE]

\* setResults: nothing, if the component is gone.
Set(c, kind) ==
  IF calls[c].mounted THEN Result(kind, calls[c].input) ELSE results

\* The answer to a request, if that is still the current one of its component:
\* onResult shows it and adds its token to the route, whichever that is.
OnResult(c) ==
  /\ calls[c].open
  /\ IF ~calls[c].current THEN calls' = Closed(c) /\ UNCHANGED <<entries, at, results, asked>>
     ELSE LET next == CorpusRoute(Route.query, Route.settings, Route.cp,
                                  NextPage(calls[c].input))
          IN Push(next) /\ Render(next, Closed(c), Set(c, "Found"))

OnError(c) ==
  /\ calls[c].open /\ calls' = Closed(c)
  /\ results' = IF calls[c].current THEN Set(c, "Error") ELSE results
  /\ UNCHANGED <<entries, at, asked>>

Next ==
  \/ \E query \in Queries : SetNewQuery(query) \/ Leave(query)
  \/ \E settings \in Settings : CloseSettings(settings)
  \/ ToNextPage
  \/ \E to \in DOMAIN entries : PopState(to)
  \/ \E c \in DOMAIN calls : OnResult(c) \/ OnError(c)

Spec == Init /\ [][Next]_vars

-----------------------------------------------------------------------------
PageTokens == {NoPage, NullPage} \cup [query : Queries \ {""}, page : 1 .. Pages]
Inputs == [query : Queries, settings : Settings, cp : PageTokens]
Requests == {input \in Inputs : input.query # ""}

TypeOK ==
  /\ entries \in Seq([path : {"corpus", "other"}, query : Queries, settings : Settings,
                      cp : PageTokens, np : PageTokens])
  /\ at \in DOMAIN entries
  /\ calls \in Seq([input : Requests, open : BOOLEAN, current : BOOLEAN, mounted : BOOLEAN])
  /\ results \in [kind : {"N/A", "Loading", "Error", "Found"}, input : Inputs]
  /\ asked \in Inputs

Shows(kind) ==
  Mounted /\ Route.query # "" /\ Route.cp # NullPage /\ results.kind = kind

\* The results that are shown are those of the query, the settings and the
\* page in the URL, in whatever order answers arrive (use_api_call.ts:47).
ShownIsAsked == Shows("Found") => results.input = ApiRequest(Route)

\* A page that says it is loading still has a request that it will listen to.
LoadingIsAsked ==
  Shows("Loading") =>
    \E c \in DOMAIN calls :
      calls[c].open /\ calls[c].current /\ calls[c].input = ApiRequest(Route)

\* The page tokens in the URL are those of its query (corpus_view.tsx:191:
\* "Make sure we don't copy over the page tokens for the old query."), and the
\* next page follows the current one.
TokensFit(route) ==
  /\ \A p \in {route.cp, route.np} : IsToken(p) => p.query = route.query
  /\ IsToken(route.np) => route.np.page = route.cp.page + 1
PageTokensFit == Mounted => TokensFit(Route)

\* The three above together, for every order of answers, Back and Forward.
CorpusPageFits == ShownIsAsked /\ LoadingIsAsked /\ PageTokensFit

-----------------------------------------------------------------------------
\* The inductive invariant behind them, if nobody leaves while a page loads:
\* every entry that Back or Forward may reach has tokens that fit, the hook
\* asks for what the URL says, and whoever still listens asked for that too.
EntriesFit == \A i \in DOMAIN entries : entries[i].path = "corpus" => TokensFit(entries[i])
AskedFits == asked = IF Mounted THEN ApiRequest(Route) ELSE NoInput
CallsFit ==
  \A c \in DOMAIN calls :
    /\ calls[c].open => Mounted /\ calls[c].mounted
    /\ calls[c].open /\ calls[c].current => calls[c].input = asked

PageInv == TypeOK /\ EntriesFit /\ AskedFits /\ CallsFit /\ ShownIsAsked /\ LoadingIsAsked

=============================================================================

--------------------------- MODULE ExternalContent ---------------------------
(***************************************************************************)
(* The reader of texts that a user brings: typed in, saved before, or from *)
(* a URL, which is a parameter of the page.  A text from a URL is looked   *)
(* up among the saved ones and scraped by the server if it is not there.   *)
(* Nothing is cancelled: whatever is answered last is shown.               *)
(*                                                                         *)
(* A text is named by its title; the text of a URL is always the same.     *)
(***************************************************************************)
EXTENDS Integers, FiniteSets

CONSTANTS
  Urls, Titles,   \* where texts come from: URLs, and titles that are typed
  MaxActions      \* how much the user does, beside changing tabs

VARIABLES
  tab,            \* the tab that is shown
  text,           \* "null", "READER_LOADING", "READER_ERROR", or a text
  fromUrl,        \* the parameter, or "none"
  loading,        \* reads and scrapes whose answers are awaited
  rows,           \* titles in the store
  contentIndex,   \* the list, {"unread"} before it is read
  storing,        \* operations on the store and lists that are awaited
  linkImports, processState,
  lastAsked,      \* the text that was asked last (for the properties)
  overlapped,     \* it was asked while another answer was awaited
  actionsLeft

importVars == <<linkImports, processState>>
vars == <<tab, text, fromUrl, loading, rows, contentIndex, storing, importVars, lastAsked,
          overlapped, actionsLeft>>

Texts == Urls \cup Titles

\* A typed text has the time in its key, a text from a URL the URL.
ConstantsFit ==
  /\ Urls \cap Titles = {} /\ Texts \cap {"none", "null", "blank", "READER_LOADING", "READER_ERROR"} = {}
  /\ MaxActions \in Nat

Load(kind, title, id) == [kind |-> kind, title |-> title, id |-> id]

Init ==
  /\ tab = "Load text" /\ text = "null" /\ fromUrl = "none" /\ loading = {}
  /\ rows = {} /\ contentIndex = {"unread"} /\ storing = {[kind |-> "list", title |-> "none"]}
  /\ linkImports = {} /\ processState = "None"
  /\ lastAsked = "none" /\ overlapped = FALSE /\ actionsLeft = MaxActions

-----------------------------------------------------------------------------
(* The store: an operation, and the list that is read after it.            *)

StoreList ==
  /\ \E op \in storing : op.kind = "list" /\ storing' = storing \ {op}
  /\ contentIndex' = rows
  /\ UNCHANGED <<tab, text, fromUrl, loading, rows, importVars, lastAsked, overlapped, actionsLeft>>

ListRead(title) == [kind |-> "list", title |-> title]

\* deleteContent
StoreDelete(op) ==
  /\ op \in storing /\ op.kind = "delete"
  /\ rows' = rows \ {op.title}
  /\ storing' = (storing \ {op}) \cup {ListRead(op.title)}
  /\ UNCHANGED <<tab, text, fromUrl, loading, contentIndex, importVars, lastAsked, overlapped,
                 actionsLeft>>

\* saveContent of a text that is shown already: nobody waits for it, and a
\* title that is there is refused.  Typed texts have the time in their keys.
StoreAdd(op) ==
  /\ op \in storing /\ op.kind = "add"
  /\ rows' = rows \cup {op.title}
  /\ storing' = (storing \ {op}) \cup (IF op.title \in rows \cap Urls THEN {} ELSE {ListRead(op.title)})
  /\ UNCHANGED <<tab, text, fromUrl, loading, contentIndex, importVars, lastAsked, overlapped,
                 actionsLeft>>

-----------------------------------------------------------------------------
(* A text from the URL.                                                    *)

Do == actionsLeft > 0 /\ actionsLeft' = actionsLeft - 1
Asks(title) ==
  /\ lastAsked' = title
  /\ overlapped' = (overlapped \/ loading # {})

\* The effect on a parameter that is new (or on a screen of another size).
FetchFromUrl(url) ==
  /\ fromUrl' = url /\ tab' = "Text reader" /\ text' = "READER_LOADING"
  /\ loading' = loading \cup {Load("read", url, actionsLeft)}
  /\ Asks(url)

\* Back, Forward or a shared link lead to a URL.
OpenUrl(url) ==
  /\ Do /\ url # fromUrl
  /\ FetchFromUrl(url)
  /\ UNCHANGED <<rows, contentIndex, storing, importVars>>

\* Back to the route without the parameter: the effect returns at once, and what
\* is shown or awaited stays.
LeaveUrl ==
  /\ Do /\ fromUrl # "none" /\ fromUrl' = "none"
  /\ UNCHANGED <<tab, text, loading, rows, contentIndex, storing, importVars, lastAsked, overlapped>>

Resize ==
  /\ Do /\ fromUrl # "none"
  /\ FetchFromUrl(fromUrl)
  /\ UNCHANGED <<rows, contentIndex, storing, importVars>>

\* RenderTab compares the state with "Loading" and "Error", but it is 1 or 2
\* (READER_LOADING, READER_ERROR) then: neither message is ever displayed.
Shown == IF text \in Texts THEN text ELSE "blank"
LinkOffered == text \in Texts /\ fromUrl # "none"

\* onNewTextState
Show(title) == text' = title /\ tab' = "Text reader"

LoadContentAnswer(l) ==
  /\ l \in loading /\ l.kind = "read"
  /\ IF l.title \in rows
     THEN Show(l.title) /\ loading' = loading \ {l}
     ELSE /\ loading' = (loading \ {l}) \cup {[l EXCEPT !.kind = "scrape"]}
          /\ UNCHANGED <<tab, text>>
  /\ UNCHANGED <<fromUrl, rows, contentIndex, storing, importVars, lastAsked, overlapped, actionsLeft>>

ScrapeUrlAnswer(l, ok) ==
  /\ l \in loading /\ l.kind = "scrape"
  /\ loading' = loading \ {l}
  /\ IF ok
     THEN /\ Show(l.title)
          /\ storing' = storing \cup {[kind |-> "add", title |-> l.title]}
     ELSE text' = "READER_ERROR" /\ UNCHANGED <<tab, storing>>
  /\ UNCHANGED <<fromUrl, rows, contentIndex, importVars, lastAsked, overlapped, actionsLeft>>

-----------------------------------------------------------------------------
(* The tab "Load text".                                                    *)

\* The other tab is offered once there is a text, also one that is awaited.
\* The form for a link forgets its state when the tab is left.
SelectTab(other) ==
  /\ tab # other
  /\ other = "Text reader" => text # "null"
  /\ tab' = other
  /\ processState' = "None" /\ linkImports' = {[i EXCEPT !.mounted = FALSE] : i \in linkImports}
  /\ UNCHANGED <<text, fromUrl, loading, rows, contentIndex, storing, lastAsked, overlapped,
                 actionsLeft>>

AtLoadTab == tab = "Load text" /\ Do

\* A saved text: one from a URL changes the parameter, if it has not got it.
SelectSaved(title) ==
  /\ AtLoadTab /\ title \in contentIndex
  /\ IF title \in Urls
     THEN IF title # fromUrl THEN FetchFromUrl(title)
          ELSE tab' = "Text reader" /\ UNCHANGED <<text, fromUrl, loading, lastAsked, overlapped>>
     ELSE /\ loading' = loading \cup {Load("saved", title, actionsLeft)}
          /\ Asks(title)
          /\ UNCHANGED <<tab, text, fromUrl>>
  /\ UNCHANGED <<rows, contentIndex, storing, importVars>>

\* Mutant: the parameter stays when a saved text is opened.
SavedContentAnswerKeeping(l) ==
  /\ l \in loading /\ l.kind = "saved"
  /\ loading' = loading \ {l}
  /\ IF l.title \in rows THEN Show(l.title) ELSE UNCHANGED <<tab, text>>
  /\ UNCHANGED <<fromUrl, rows, contentIndex, storing, importVars, lastAsked, overlapped, actionsLeft>>

\* The text is shown and the parameter removed; nothing if it was deleted.
SavedContentAnswer(l) ==
  /\ l \in loading /\ l.kind = "saved"
  /\ loading' = loading \ {l}
  /\ IF l.title \in rows THEN Show(l.title) /\ fromUrl' = "none" ELSE UNCHANGED <<tab, text, fromUrl>>
  /\ UNCHANGED <<rows, contentIndex, storing, importVars, lastAsked, overlapped, actionsLeft>>

DeleteContent(title) ==
  /\ AtLoadTab /\ title \in contentIndex
  /\ storing' = storing \cup {[kind |-> "delete", title |-> title]}
  /\ UNCHANGED <<tab, text, fromUrl, loading, rows, contentIndex, importVars, lastAsked, overlapped>>

\* InputContentBox
ImportText(title) ==
  /\ AtLoadTab
  /\ Show(title) /\ fromUrl' = "none" /\ Asks(title)
  /\ storing' = storing \cup {[kind |-> "add", title |-> title]}
  /\ processState' = "None" /\ linkImports' = {[i EXCEPT !.mounted = FALSE] : i \in linkImports}
  /\ UNCHANGED <<loading, rows, contentIndex>>

\* LinkImportSection: a link may be imported again before the answer.
ImportLink(url) ==
  /\ AtLoadTab
  /\ processState' = "Processing"
  /\ linkImports' = linkImports \cup {[url |-> url, mounted |-> TRUE, id |-> actionsLeft, step |-> "scrape"]}
  /\ UNCHANGED <<tab, text, fromUrl, loading, rows, contentIndex, storing, lastAsked, overlapped>>

SetProcessState(i, state) == processState' = IF i.mounted THEN state ELSE processState

LinkScraped(i, ok) ==
  /\ i \in linkImports /\ i.step = "scrape"
  /\ IF ok
     THEN /\ linkImports' = (linkImports \ {i}) \cup {[i EXCEPT !.step = "save"]}
          /\ UNCHANGED processState
     ELSE linkImports' = linkImports \ {i} /\ SetProcessState(i, "Error")
  /\ UNCHANGED <<tab, text, fromUrl, loading, rows, contentIndex, storing, lastAsked, overlapped,
                 actionsLeft>>

\* The store refuses a URL that it has.
LinkSaved(i) ==
  /\ i \in linkImports /\ i.step = "save"
  /\ IF i.url \in rows
     THEN /\ linkImports' = linkImports \ {i} /\ SetProcessState(i, "Error")
          /\ UNCHANGED rows
     ELSE /\ rows' = rows \cup {i.url}
          /\ linkImports' = (linkImports \ {i}) \cup {[i EXCEPT !.step = "list"]}
          /\ UNCHANGED processState
  /\ UNCHANGED <<tab, text, fromUrl, loading, contentIndex, storing, lastAsked, overlapped, actionsLeft>>

\* The list is set, and then the parameter, which opens the text; the form
\* goes with its tab.
LinkListed(i) ==
  /\ i \in linkImports /\ i.step = "list"
  /\ contentIndex' = rows
  /\ IF i.url # fromUrl
     THEN /\ FetchFromUrl(i.url)
          /\ processState' = "None"
          /\ linkImports' = {[j EXCEPT !.mounted = FALSE] : j \in linkImports \ {i}}
     ELSE /\ linkImports' = linkImports \ {i} /\ SetProcessState(i, "None")
          /\ UNCHANGED <<tab, text, fromUrl, loading, lastAsked, overlapped>>
  /\ UNCHANGED <<rows, storing, actionsLeft>>

Next ==
  \/ StoreList
  \/ \E op \in storing : StoreDelete(op) \/ StoreAdd(op)
  \/ \E url \in Urls : OpenUrl(url) \/ ImportLink(url)
  \/ LeaveUrl \/ Resize
  \/ \E l \in loading : LoadContentAnswer(l) \/ SavedContentAnswer(l)
  \/ \E l \in loading, ok \in BOOLEAN : ScrapeUrlAnswer(l, ok)
  \/ \E other \in {"Load text", "Text reader"} : SelectTab(other)
  \/ \E title \in Texts : SelectSaved(title) \/ DeleteContent(title)
  \/ \E title \in Titles : ImportText(title)
  \/ \E i \in linkImports, ok \in BOOLEAN : LinkScraped(i, ok)
  \/ \E i \in linkImports : LinkSaved(i) \/ LinkListed(i)

Spec == Init /\ [][Next]_vars

-----------------------------------------------------------------------------

TypeOK ==
  /\ tab \in {"Load text", "Text reader"} /\ text \in {"null", "READER_LOADING", "READER_ERROR"} \cup Texts
  /\ fromUrl \in Urls \cup {"none"} /\ rows \subseteq Texts
  /\ processState \in {"None", "Processing", "Error"}
  /\ actionsLeft \in 0 .. MaxActions

\* When nothing is awaited the list is what the store has, although operations
\* and lists of several imports and deletions cross.
ListIsStored ==
  storing = {} /\ linkImports = {} => contentIndex = rows

\* If no text was asked while another was awaited, and nothing is awaited, the
\* reader shows the text of the URL that was asked last, or is blank because it
\* failed; and a link that it offers leads to the text that is shown.  A saved
\* text that was deleted meanwhile leaves the one before it, and so does Back to
\* the route without the parameter, which offers no link (:109-112).
ShownIsAsked ==
  ~ overlapped /\ loading = {} =>
    /\ lastAsked \in Urls => Shown = lastAsked \/ text = "READER_ERROR"
    /\ LinkOffered => fromUrl = Shown

\* The reader is never opened without a text that is there, awaited or failed,
\* and the state READER_LOADING (a blank reader) lasts no longer than its calls.
ReaderHasText ==
  /\ tab = "Text reader" => text # "null"
  /\ text = "READER_LOADING" => loading # {}
  /\ processState = "Processing" => \E i \in linkImports : i.mounted

ImportsFit == ListIsStored /\ ShownIsAsked /\ ReaderHasText
=============================================================================

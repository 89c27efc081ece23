----------------------------- MODULE ReaderPage -----------------------------
(***************************************************************************)
(* The library and the reader: a work is opened at the saved spot, or      *)
(* fetched and redirected to its first page; arrows, the outline and typed *)
(* sections move in it; the spot is saved by work.  The fetch of a reader  *)
(* that was left may be answered later.  Sections are sequences of         *)
(* numbers; a page is named by the first PageDepth of them.                *)
(***************************************************************************)
EXTENDS Integers, Sequences, FiniteSets, SequencesExt

CONSTANTS
  Works, Pages(_),  \* the works, and the names of the pages of each
  PageDepth,
  TypedIds,         \* what a user may type as a section
  MaxFetches,
  DirectJumps       \* the history may lead from one work to another at once

ConstantsFit ==
  /\ Works \cap {"library", "none", "Loading", "Error"} = {}
  /\ PageDepth \in Nat \ {0} /\ TypedIds \subseteq Seq(Nat) \ {<<>>}
  /\ \A w \in Works :
       /\ Pages(w) \in Seq(Seq(Nat)) \ {<<>>}
       /\ \A p \in DOMAIN Pages(w) : Len(Pages(w)[p]) = PageDepth

VARIABLES
  rRoute,       \* the path (a work or "library") and the section in the URL
  rVisited,     \* routes that the history may hold (their order is not kept, and
                \* neither is that a route was replaced)
  work, translation, \* "none", "Loading", "Error", or the work that is loaded
  fetches,      \* work, kind, and whether its reader is still there
  saved         \* LibrarySavedSpot

vars == <<rRoute, rVisited, work, translation, fetches, saved>>

NoId == <<>>
Library == [path |-> "library", id |-> NoId]
At(w, id) == [path |-> w, id |-> id]
Loaded(state) == state \in Works

Init ==
  /\ rRoute = Library /\ rVisited = {Library}
  /\ work = "none" /\ translation = "none"
  /\ fetches = {} /\ saved = [w \in Works |-> NoId]

-----------------------------------------------------------------------------
\* findMatchPage: -1 is an invalid section.
FindMatchPage(w, id) ==
  LET subset == SubSeq(id, 1, IF Len(id) < PageDepth THEN Len(id) ELSE PageDepth)
      found == {p \in DOMAIN Pages(w) : Pages(w)[p] = subset}
  IN IF found = {} THEN -1 ELSE CHOOSE p \in found : \A q \in found : p <= q

CurrentPage == IF Loaded(work) /\ rRoute.id # NoId THEN FindMatchPage(work, rRoute.id) ELSE 0

Visit(route) == rRoute' = route /\ rVisited' = rVisited \cup {route}

\* navigateToSection keeps the path and saves the spot of the work that is loaded.
NavigateToSection(id) ==
  /\ Visit(At(rRoute.path, id))
  /\ saved' = [saved EXCEPT ![work] = id]

Unmounted == {[f EXCEPT !.mounted = FALSE] : f \in fetches}
Fetch(w, kind) == [work |-> w, kind |-> kind, mounted |-> TRUE]

\* A route that leads to a work: in a new reader, or, from another work, in
\* the same one. The effect that redirects comes before the one that fetches.
EnterWork(route) ==
  /\ Cardinality(fetches) < MaxFetches
  /\ work' = "Loading"
  /\ IF rRoute.path = "library"
     THEN /\ rRoute' = route /\ UNCHANGED saved
          /\ translation' = "none" /\ fetches' = Unmounted \cup {Fetch(route.path, "work")}
     ELSE LET redirects == route.id = NoId /\ Loaded(work)
          IN /\ rRoute' = IF redirects THEN At(route.path, Pages(work)[1]) ELSE route
             /\ saved' = IF redirects THEN [saved EXCEPT ![work] = Pages(work)[1]] ELSE saved
             /\ UNCHANGED translation
             /\ fetches' = fetches \cup {Fetch(route.path, "work")}

\* onWorkSelected: the saved spot goes into the URL.
OnWorkSelected(w) ==
  /\ rRoute = Library
  /\ EnterWork(At(w, saved[w])) /\ rVisited' = rVisited \cup {rRoute'}

\* Back and Forward, within a work, to another one, or out of the reader.
PopState(route) ==
  /\ route \in rVisited
  /\ IF route.path = rRoute.path
     THEN /\ rRoute' = IF route.id = NoId /\ Loaded(work) THEN At(route.path, Pages(work)[1])
                       ELSE route
          /\ saved' = IF route.id = NoId /\ Loaded(work)
                      THEN [saved EXCEPT ![work] = Pages(work)[1]] ELSE saved
          /\ UNCHANGED <<rVisited, work, translation, fetches>>
     ELSE IF route = Library
     THEN /\ rRoute' = route /\ work' = "none" /\ translation' = "none" /\ fetches' = Unmounted
          /\ UNCHANGED <<rVisited, saved>>
     ELSE /\ rRoute = Library \/ DirectJumps
          /\ EnterWork(route) /\ rVisited' = rVisited \cup {rRoute'}

\* Mutant: the answer of a reader that was left is taken.
OnWorkStateOfAny(f, ok) ==
  /\ f \in fetches /\ fetches' = fetches \ {f}
  /\ LET state == IF ok THEN f.work ELSE "Error"
     IN /\ work' = IF f.kind = "work" THEN state ELSE work
        /\ translation' = IF f.kind = "translation" THEN state ELSE translation
  /\ UNCHANGED <<rRoute, rVisited, saved>>

\* The answer of fetchWork; a work without a section in the URL replaces the
\* route by that of its first page.
OnWorkState(f, ok) ==
  /\ f \in fetches /\ fetches' = fetches \ {f}
  /\ LET state == IF ok THEN f.work ELSE "Error"
         redirects == f.mounted /\ f.kind = "work" /\ ok /\ rRoute.id = NoId
     IN /\ work' = IF f.mounted /\ f.kind = "work" THEN state ELSE work
        /\ translation' = IF f.mounted /\ f.kind = "translation" THEN state ELSE translation
        /\ rRoute' = IF redirects THEN At(rRoute.path, Pages(f.work)[1]) ELSE rRoute
        /\ rVisited' = rVisited \cup {rRoute'}
        /\ saved' = IF redirects THEN [saved EXCEPT ![f.work] = Pages(f.work)[1]] ELSE saved

-----------------------------------------------------------------------------
\* incrementPage, by an arrow, a key or a swipe: never past an end.
IncrementPage(offset) ==
  /\ Loaded(work) /\ CurrentPage > 0
  /\ LET to == CurrentPage + offset
         last == Len(Pages(work))
         page == IF to < 1 THEN 1 ELSE IF to > last THEN last ELSE to
     IN NavigateToSection(Pages(work)[page])
  /\ UNCHANGED <<work, translation, fetches>>

\* The outline, also offered when the section in the URL is invalid.
Browse(page) ==
  /\ Loaded(work) /\ page \in DOMAIN Pages(work)
  /\ NavigateToSection(Pages(work)[page])
  /\ UNCHANGED <<work, translation, fetches>>

\* JumpToSection does not save the spot.
JumpToSection(id) ==
  /\ Loaded(work) /\ CurrentPage > 0
  /\ Visit(At(rRoute.path, id))
  /\ UNCHANGED <<work, translation, fetches, saved>>

LoadTranslation ==
  /\ Loaded(work) /\ translation = "none" /\ Cardinality(fetches) < MaxFetches
  /\ translation' = "Loading"
  /\ fetches' = fetches \cup {Fetch(work, "translation")}
  /\ UNCHANGED <<rRoute, rVisited, work, saved>>

Next ==
  \/ \E w \in Works : OnWorkSelected(w)
  \/ \E route \in rVisited : PopState(route)
  \/ \E f \in fetches, ok \in BOOLEAN : OnWorkState(f, ok)
  \/ \E offset \in {-1, 1} : IncrementPage(offset)
  \/ \E w \in Works : \E page \in DOMAIN Pages(w) : Browse(page)
  \/ \E id \in TypedIds : JumpToSection(id)
  \/ LoadTranslation

Spec == Init /\ [][Next]_vars

-----------------------------------------------------------------------------
States == {"none", "Loading", "Error"} \cup Works

TypeOK ==
  /\ rRoute \in rVisited
  /\ rVisited \subseteq [path : Works \cup {"library"}, id : Seq(Nat)]
  /\ {work, translation} \subseteq States
  /\ fetches \subseteq [work : Works, kind : {"work", "translation"}, mounted : BOOLEAN]
  /\ saved \in [Works -> Seq(Nat)]

\* The text and the translation that are shown are those of the work in the
\* URL, although answers to readers that were left come late, and a text that
\* was loaded has a section in the URL.
ShownIsOpened ==
  /\ \A state \in {work, translation} : Loaded(state) => state = rRoute.path
  /\ Loaded(work) => rRoute.id # NoId
  /\ work = "Loading" => Fetch(rRoute.path, "work") \in fetches
  /\ translation = "Loading" => Fetch(rRoute.path, "translation") \in fetches

\* The saved spot of a work is one of its pages, so that the library never
\* opens it at an invalid section, whatever was typed before.
SavedSpotsExist ==
  \A w \in Works : saved[w] # NoId => FindMatchPage(w, saved[w]) # -1

WorksAndSpotsFit == ShownIsOpened /\ SavedSpotsExist

=============================================================================

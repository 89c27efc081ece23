---------------------------- MODULE ReaderLayout ----------------------------
(***************************************************************************)
(* The layout of the reader: beside the text a drawer on a small screen, a *)
(* column on a large one.  Their sizes are dragged; a word of the text     *)
(* that is selected brings the dictionary up.                              *)
(***************************************************************************)
EXTENDS Integers, FiniteSets

CONSTANTS
  Windows,          \* [innerWidth, innerHeight] in pixels, multiples of 100
  SmallWidth,       \* below it the screen is small
  Positions,        \* where the pointer is seen
  Tabs, Words, MaxSteps

\* Sizes are whole percentages of a window; the pointer is never off the page.
ConstantsFit ==
  /\ Windows \subseteq [innerWidth : Nat \ {0}, innerHeight : Nat \ {0}]
  /\ \A w \in Windows : w.innerWidth % 100 = 0 /\ w.innerHeight % 100 = 0
  /\ Positions \subseteq Nat /\ "Dictionary" \in Tabs /\ "none" \notin Words

VARIABLES
  screen,           \* a member of Windows
  drawerHeight, drawerMinimized,
  sidebarTab, dictWord,
  gutterSize, mainWidth,  \* of the large screen, which is dragged in percent of the width
  drag,             \* what is dragged, and the references of its DragHelper
  pending,          \* a word was selected and nothing of the layout touched since
  stepsLeft

sizeVars == <<drawerHeight, gutterSize, mainWidth>>
tabVars == <<drawerMinimized, sidebarTab, dictWord>>
vars == <<screen, sizeVars, tabVars, drag, pending, stepsLeft>>

Undefined == -1
NoDrag == [of |-> "none", dragStartLen |-> 0, dragStartPos |-> Undefined, last |-> 0]
IsScreenSmall == screen.innerWidth < SmallWidth
Percent(n, total) == (n * total) \div 100

Init ==
  /\ screen \in Windows
  /\ drawerHeight = Percent(15, screen.innerHeight) /\ drawerMinimized = FALSE
  /\ sidebarTab = "Dictionary" /\ dictWord = "none"
  /\ gutterSize = 100 /\ mainWidth = Percent(56, screen.innerWidth)
  /\ drag = NoDrag /\ pending = FALSE /\ stepsLeft = MaxSteps

Do == stepsLeft > 0 /\ stepsLeft' = stepsLeft - 1

-----------------------------------------------------------------------------
(* Dragging.                                                               *)

\* What DragHelper is given for each of the panels: the length, its bounds,
\* and whether it grows with the position.
Panel(of) ==
  CASE of = "drawer" -> [len |-> drawerHeight, total |-> screen.innerHeight, min |-> 0, max |-> 60,
                         reverse |-> FALSE]
    [] of = "gutter" -> [len |-> gutterSize, total |-> screen.innerWidth, min |-> 0, max |-> 30,
                         reverse |-> FALSE]
    [] of = "leftGutter" -> [len |-> gutterSize, total |-> screen.innerWidth, min |-> 0, max |-> 30,
                             reverse |-> TRUE]
    [] of = "main" -> [len |-> mainWidth, total |-> screen.innerWidth, min |-> 20, max |-> 80,
                       reverse |-> TRUE]

Shown(of) == of = "drawer" <=> IsScreenSmall

OnDragStart(of) ==
  /\ Do /\ drag = NoDrag /\ Shown(of) /\ (of = "drawer" => ~ drawerMinimized)
  /\ drag' = [NoDrag EXCEPT !.of = of, !.dragStartLen = Panel(of).len]
  /\ pending' = FALSE
  /\ UNCHANGED <<screen, sizeVars, tabVars>>

Clamp(n, panel) ==
  LET min == Percent(panel.min, panel.total)
      max == Percent(panel.max, panel.total)
  IN IF n > max THEN max ELSE IF n < min THEN min ELSE n

AtBound(n, panel) == n \in {Percent(panel.min, panel.total), Percent(panel.max, panel.total)}
Abs(n) == IF n < 0 THEN -n ELSE n

\* Mutant: offsets are added to the length that is there.
ProposedFromLast(start, pos, panel) ==
  panel.len + (start - pos) * (IF panel.reverse THEN -1 ELSE 1)

Proposed(start, pos, panel) ==
  drag.dragStartLen + (start - pos) * (IF panel.reverse THEN -1 ELSE 1)

\* makeOnDrag: the first position is the one that offsets are taken from, and
\* small changes are ignored.
NewLen(start, pos, panel) ==
  LET newLen == Clamp(Proposed(start, pos, panel), panel)
  IN IF AtBound(newLen, panel) \/ Abs(panel.len - newLen) >= 6 THEN newLen ELSE panel.len

OnDrag(pos) ==
  /\ Do /\ drag.of # "none"
  /\ LET start == IF drag.dragStartPos = Undefined THEN pos ELSE drag.dragStartPos
         len == NewLen(start, pos, Panel(drag.of))
     IN /\ drag' = [drag EXCEPT !.dragStartPos = start, !.last = pos]
        /\ drawerHeight' = IF drag.of = "drawer" THEN len ELSE drawerHeight
        /\ gutterSize' = IF drag.of \in {"gutter", "leftGutter"} THEN len ELSE gutterSize
        /\ mainWidth' = IF drag.of = "main" THEN len ELSE mainWidth
  /\ UNCHANGED <<screen, tabVars, pending>>

OnDragEnd ==
  /\ drag.of # "none" /\ drag' = NoDrag
  /\ UNCHANGED <<screen, sizeVars, tabVars, pending, stepsLeft>>

-----------------------------------------------------------------------------
(* The window, the drawer and the tabs.                                    *)

\* The width of the text is kept in percent; a layout that goes takes its
\* sizes with it, the drawer's stay.  A small screen that is turned resets the
\* drawer, from the width, because the window has not got its new size yet; one
\* that was large has no drawer to reset, and finds the old height.
Resize(to) ==
  /\ Do /\ to # screen /\ screen' = to /\ drag' = NoDrag
  /\ LET turned == to.innerWidth = screen.innerHeight /\ to.innerHeight = screen.innerWidth
         wasSmall == IsScreenSmall
         diff == to.innerWidth - screen.innerWidth
     IN /\ drawerHeight' = IF turned /\ wasSmall
                           THEN Percent(15, screen.innerWidth) ELSE drawerHeight
        /\ gutterSize' = IF wasSmall THEN 100 ELSE IF diff < 0 THEN gutterSize + (diff \div 2) ELSE gutterSize
        /\ mainWidth' = IF wasSmall THEN Percent(56, to.innerWidth)
                        ELSE (mainWidth * to.innerWidth) \div screen.innerWidth
        /\ pending' = (pending /\ turned /\ ~ drawerMinimized /\ (to.innerWidth < SmallWidth => wasSmall))
  /\ UNCHANGED tabVars

\* onWordSelected, by a click in the text.
OnWordSelected(word) ==
  /\ Do /\ drag = NoDrag
  /\ sidebarTab' = "Dictionary" /\ dictWord' = word /\ drawerMinimized' = FALSE
  /\ drawerHeight' = LET minHeight == Percent(15, screen.innerHeight)
                     IN IF IsScreenSmall /\ drawerHeight < minHeight THEN minHeight ELSE drawerHeight
  /\ pending' = TRUE
  /\ UNCHANGED <<screen, gutterSize, mainWidth, drag>>

\* A link within the dictionary: its tab comes up, and the drawer may grow.
SetDictWord(word) ==
  /\ Do /\ drag = NoDrag /\ dictWord # "none" /\ sidebarTab = "Dictionary" /\ ~ drawerMinimized
  /\ dictWord' = word
  /\ drawerHeight' = LET minHeight == Percent(15, screen.innerHeight)
                     IN IF IsScreenSmall /\ drawerHeight < minHeight THEN minHeight ELSE drawerHeight
  /\ UNCHANGED <<screen, gutterSize, mainWidth, drag, drawerMinimized, sidebarTab, pending>>

SetCurrentTab(tab) ==
  /\ Do /\ drag = NoDrag /\ sidebarTab' = tab /\ pending' = FALSE
  /\ UNCHANGED <<screen, sizeVars, drag, drawerMinimized, dictWord>>

\* "Hide drawer" is on the part that is dragged; "Show drawer" replaces it.
SetDrawerMinimized(hidden) ==
  /\ Do /\ drag = NoDrag /\ IsScreenSmall /\ drawerMinimized' = hidden /\ pending' = FALSE
  /\ UNCHANGED <<screen, sizeVars, drag, sidebarTab, dictWord>>

Next ==
  \/ \E of \in {"drawer", "gutter", "leftGutter", "main"} : OnDragStart(of)
  \/ \E pos \in Positions : OnDrag(pos)
  \/ OnDragEnd
  \/ \E to \in Windows : Resize(to)
  \/ \E word \in Words : OnWordSelected(word) \/ SetDictWord(word)
  \/ \E tab \in Tabs : SetCurrentTab(tab)
  \/ \E hidden \in BOOLEAN : SetDrawerMinimized(hidden)

Spec == Init /\ [][Next]_vars

-----------------------------------------------------------------------------

TypeOK ==
  /\ screen \in Windows /\ sidebarTab \in Tabs /\ dictWord \in Words \cup {"none"}
  /\ {drawerMinimized, pending} \subseteq BOOLEAN /\ drawerHeight \in Nat /\ mainWidth \in Nat

\* A length that is dragged follows the pointer, less than 6 pixels behind:
\* it does not drift, however the pointer went to and fro.
FollowsPointer ==
  drag.dragStartPos # Undefined =>
    \E panel \in {Panel(drag.of)} :
      LET offset == (drag.dragStartPos - drag.last) * (IF panel.reverse THEN -1 ELSE 1)
      IN Abs(panel.len - Clamp(drag.dragStartLen + offset, panel)) < 6

\* Both columns keep a fifth of the width, and the drawer leaves two fifths of
\* the height to the text, as long as the window keeps its size.
PanelsFit ==
  /\ 100 * mainWidth >= 20 * screen.innerWidth - 100
  /\ 100 * mainWidth <= 80 * screen.innerWidth + 100
  /\ drag.of = "drawer" /\ drag.dragStartPos # Undefined =>
       \/ 100 * drawerHeight <= 60 * screen.innerHeight
       \/ drawerHeight = drag.dragStartLen

\* The entries of a word that was selected can be seen, also when the screen
\* was turned since, unless that made a large screen small.
SelectedIsVisible ==
  pending => /\ sidebarTab = "Dictionary" /\ dictWord # "none" /\ ~ drawerMinimized
             /\ IsScreenSmall => 100 * drawerHeight >= 15 * screen.innerHeight

LayoutFits == FollowsPointer /\ PanelsFit /\ SelectedIsVisible
=============================================================================

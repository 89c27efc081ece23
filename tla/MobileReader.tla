---------------------------- MODULE MobileReader ----------------------------
(***************************************************************************)
(* Touches and clicks on the reader of a small screen.  Swipes are         *)
(* recognized from moves of a finger, with feedback, and turn pages; so do *)
(* taps at the sides and arrow keys.  Tooltips suspend them.  A touch that *)
(* the system takes over ends without touchend: no handler hears of it.    *)
(* After such a touch, and after a swipe over a text that is not there or  *)
(* under a tooltip, no other touch is followed.                            *)
(*                                                                         *)
(* Points are in tenths of the screen, which is square here.               *)
(***************************************************************************)
EXTENDS Integers, Sequences, FiniteSets

CONSTANTS
  Points,           \* [x, y] where a finger is seen
  LastPage,         \* pages are 0 .. LastPage
  TooltipKey,       \* of each label and note of the page
  MaxTouches

ConstantsFit == LastPage \in Nat

VARIABLES
  finger,           \* <<>>, or where the first and the last move of a touch were
  touchData,        \* <<>>, or <<first, last>>
  fast,             \* the last move was far enough in its time
  isSwiping,
  overlayOpacity,   \* "none", "part" or "full"
  swipeDir,
  work,             \* "Loading", "Error" or "Loaded"
  currentPage,      \* -1 for a section that does not exist
  openTooltips, hasTooltip,
  swipeNavigation, tapNavigation,
  menuVisible,      \* the drawer of the app bar
  turn,             \* how the last page was turned (for the properties)
  disturbed,        \* a swipe met a text that was missing or a tooltip
  touchesLeft

touchVars == <<finger, touchData, fast, isSwiping>>
overlayVars == <<overlayOpacity, swipeDir>>
pageVars == <<work, currentPage>>
tooltipVars == <<openTooltips, hasTooltip>>
navVars == <<swipeNavigation, tapNavigation>>
vars == <<touchVars, overlayVars, pageVars, tooltipVars, navVars, menuVisible, turn, disturbed,
          touchesLeft>>

NoTurn == [by |-> "none", shown |-> "none", own |-> TRUE]

Init ==
  /\ finger = <<>> /\ touchData = <<>> /\ fast = FALSE /\ isSwiping = FALSE
  /\ overlayOpacity = "none" /\ swipeDir = "Left"
  /\ work = "Loading" /\ currentPage = -1
  /\ openTooltips = {} /\ hasTooltip = {}
  /\ swipeNavigation = TRUE /\ tapNavigation = FALSE
  /\ menuVisible = FALSE /\ turn = NoTurn /\ disturbed = FALSE /\ touchesLeft = MaxTouches

-----------------------------------------------------------------------------
(* What a swipe is.                                                        *)

Abs(n) == IF n < 0 THEN -n ELSE n
RightEdge(x) == 100 * x > 85 * 10

Swipe(data, isFastEnough) ==
  LET dx == data[2].x - data[1].x
      dy == data[1].y - data[2].y
      isHorizontal == 4 * Abs(dx) > 5 * Abs(dy)
      isLongEnough == dx * dx + dy * dy > 0
  IN [dir |-> IF isFastEnough /\ isHorizontal /\ isLongEnough
              THEN (IF dx > 0 THEN "Right" ELSE "Left") ELSE "none",
      square |-> dx * dx + dy * dy,     \* of the length, which is compared with 0.2
      fromRight |-> RightEdge(data[1].x)]

Suspended == work # "Loaded" \/ hasTooltip # {}

IncrementPage(dir) ==
  LET proposed == currentPage + (IF dir = "Right" THEN -1 ELSE 1)
  IN currentPage' = IF proposed < 0 THEN 0 ELSE IF proposed > LastPage THEN LastPage ELSE proposed

\* A page that is new forgets which tooltips are open, and they go with it.
TooltipsOfPage ==
  IF currentPage' # currentPage THEN openTooltips' = {} /\ hasTooltip' = {}
  ELSE UNCHANGED tooltipVars

\* The listener of the reader, which is registered if swipes are on.
OnSwipeProgress(swipe) ==
  IF ~ swipeNavigation \/ Suspended \/ swipe.fromRight THEN UNCHANGED overlayVars
  ELSE /\ swipeDir' = swipe.dir
       /\ overlayOpacity' = IF swipe.square >= 4 THEN "full" ELSE "part"

OnSwipeCancel ==
  /\ overlayOpacity' = IF swipeNavigation THEN "none" ELSE overlayOpacity
  /\ UNCHANGED swipeDir

\* onSwipeEnd, for a swipe or a tap at a side: nothing is reset on a page that
\* does not exist, or under a tooltip.
OnSwipeEnd(swipe, by, own) ==
  IF Suspended \/ currentPage = -1 \/ swipe.fromRight
  THEN UNCHANGED <<overlayVars, currentPage, tooltipVars, turn>>
  ELSE /\ overlayOpacity' = "none" /\ UNCHANGED swipeDir
       /\ IF swipe.square >= 4
          THEN /\ IncrementPage(swipe.dir) /\ TooltipsOfPage
               /\ turn' = [by |-> by, own |-> own,
                           shown |-> IF swipeDir = swipe.dir THEN overlayOpacity ELSE "none"]
          ELSE UNCHANGED <<currentPage, tooltipVars, turn>>

-----------------------------------------------------------------------------
(* Touches.                                                                *)

TouchMove(p, isFastEnough) ==
  /\ finger = <<>> => touchesLeft > 0
  /\ finger' = <<IF finger = <<>> THEN p ELSE finger[1], p>>
  /\ touchData' = <<IF touchData = <<>> THEN p ELSE touchData[1], p>>
  /\ fast' = isFastEnough
  /\ LET swipe == Swipe(touchData', isFastEnough)
     IN IF swipe.dir # "none" THEN /\ isSwiping' = TRUE
                                   /\ OnSwipeProgress(swipe)
                                   /\ disturbed' = (disturbed \/ Suspended \/ currentPage = -1)
        ELSE /\ isSwiping' = FALSE
             /\ IF isSwiping THEN OnSwipeCancel ELSE UNCHANGED overlayVars
             /\ UNCHANGED disturbed
  /\ touchesLeft' = IF disturbed' THEN 0 ELSE touchesLeft - (IF finger = <<>> THEN 1 ELSE 0)
  /\ turn' = IF finger = <<>> THEN NoTurn ELSE turn
  /\ UNCHANGED <<pageVars, tooltipVars, navVars, menuVisible>>

\* The app bar has a listener of its own.
OpensMenu(swipe) == swipe.dir = "Left" /\ swipe.fromRight

\* Mutant: the first point is kept for the next touch.
HandleTouchEndKeeping ==
  /\ finger # <<>> /\ finger' = <<>>
  /\ isSwiping' = FALSE /\ fast' = FALSE /\ touchData' = touchData
  /\ LET swipe == Swipe(touchData, fast)
     IN IF ~ isSwiping THEN UNCHANGED <<overlayVars, currentPage, tooltipVars, turn, menuVisible>>
        ELSE /\ menuVisible' = (menuVisible \/ OpensMenu(swipe))
             /\ IF swipeNavigation THEN OnSwipeEnd(swipe, "swipe", touchData[1] = finger[1])
                ELSE UNCHANGED <<overlayVars, currentPage, tooltipVars, turn>>
  /\ UNCHANGED <<work, navVars, disturbed, touchesLeft>>

\* handleTouchEnd sees what the last move saw, so a swipe is still one.
HandleTouchEnd ==
  /\ finger # <<>> /\ finger' = <<>>
  /\ isSwiping' = FALSE /\ fast' = FALSE /\ touchData' = <<>>
  /\ LET swipe == Swipe(touchData, fast)
     IN IF ~ isSwiping THEN UNCHANGED <<overlayVars, currentPage, tooltipVars, turn, menuVisible>>
        ELSE /\ menuVisible' = (menuVisible \/ OpensMenu(swipe))
             /\ IF swipeNavigation THEN OnSwipeEnd(swipe, "swipe", touchData[1] = finger[1])
                ELSE UNCHANGED <<overlayVars, currentPage, tooltipVars, turn>>
  /\ UNCHANGED <<work, navVars, disturbed, touchesLeft>>

\* The finger is gone; the next touch would go on from the old first point.
TouchCancel ==
  /\ finger # <<>> /\ finger' = <<>> /\ disturbed' = TRUE
  /\ touchesLeft' = 0
  /\ UNCHANGED <<touchData, fast, isSwiping, overlayVars, pageVars, tooltipVars, navVars, menuVisible,
                 turn>>

-----------------------------------------------------------------------------
(* Clicks and keys, while no finger moves.                                 *)

Idle == finger = <<>> /\ UNCHANGED <<touchVars, touchesLeft, disturbed>>

\* A click at a side comes to the reader before it closes the tooltips.
HandleSideTap(dir) ==
  /\ Idle /\ tapNavigation
  /\ IF Suspended
     THEN openTooltips' = {} /\ hasTooltip' = {} /\ UNCHANGED <<overlayVars, currentPage, turn>>
     ELSE OnSwipeEnd([dir |-> dir, square |-> 100, fromRight |-> FALSE], "tap", TRUE)
  /\ UNCHANGED <<work, navVars, menuVisible>>

\* A click on a label or a note toggles its tooltip; every other one is told
\* that it is closed, also one that has the same key.
ClickTooltip(t) ==
  /\ Idle /\ work = "Loaded" /\ currentPage # -1
  /\ LET others == DOMAIN TooltipKey \ {t}
     IN IF t \in openTooltips THEN openTooltips' = {} /\ hasTooltip' = {}
        ELSE /\ openTooltips' = {t}
             /\ hasTooltip' = {TooltipKey[t]} \ {TooltipKey[o] : o \in others}
  /\ UNCHANGED <<overlayVars, pageVars, navVars, menuVisible, turn>>

ClickAway ==
  /\ Idle /\ openTooltips # {}
  /\ openTooltips' = {} /\ hasTooltip' = {} /\ menuVisible' = FALSE
  /\ UNCHANGED <<overlayVars, pageVars, navVars, turn>>

\* ArrowLeft and ArrowRight, which WorkNavigationBar hears while it is shown.
KeyUp(dir) ==
  /\ work = "Loaded" /\ currentPage # -1
  /\ IncrementPage(dir) /\ TooltipsOfPage
  /\ turn' = NoTurn
  /\ UNCHANGED <<touchVars, overlayVars, work, navVars, menuVisible, disturbed, touchesLeft>>

\* The checkboxes of the settings; listeners are registered anew.
SetNavigation(swipes, taps) ==
  /\ Idle /\ swipeNavigation' = swipes /\ tapNavigation' = taps
  /\ openTooltips' = {} /\ hasTooltip' = {}
  /\ UNCHANGED <<overlayVars, pageVars, menuVisible, turn>>

\* The answer, for a URL with or without a section that exists.
Loaded(ok, page) ==
  /\ work = "Loading"
  /\ work' = (IF ok THEN "Loaded" ELSE "Error") /\ currentPage' = IF ok THEN page ELSE -1
  /\ UNCHANGED <<touchVars, overlayVars, tooltipVars, navVars, menuVisible, turn, disturbed, touchesLeft>>

Directions == {"Left", "Right"}

Next ==
  \/ \E p \in Points, isFastEnough \in BOOLEAN : TouchMove(p, isFastEnough)
  \/ HandleTouchEnd \/ TouchCancel \/ ClickAway
  \/ \E dir \in Directions : HandleSideTap(dir) \/ KeyUp(dir)
  \/ \E t \in DOMAIN TooltipKey : ClickTooltip(t)
  \/ \E swipes, taps \in BOOLEAN : SetNavigation(swipes, taps)
  \/ \E ok \in BOOLEAN, page \in -1 .. LastPage : Loaded(ok, page)

Spec == Init /\ [][Next]_vars

-----------------------------------------------------------------------------

TypeOK ==
  /\ overlayOpacity \in {"none", "part", "full"} /\ swipeDir \in Directions
  /\ work \in {"Loading", "Error", "Loaded"} /\ currentPage \in -1 .. LastPage
  /\ openTooltips \subseteq DOMAIN TooltipKey
  /\ {fast, isSwiping, swipeNavigation, tapNavigation, menuVisible, disturbed} \subseteq BOOLEAN

\* The feedback goes when the swipe ends, unless a swipe met a tooltip or a
\* text that was not there, or the system took the touch.
FeedbackEnds == ~ disturbed /\ overlayOpacity # "none" => isSwiping /\ finger # <<>>

\* A swipe that turned a page had shown that it would when the finger is
\* lifted, in its direction, and was made by this one touch.
TurnsAreSwiped ==
  ~ disturbed /\ turn.by = "swipe" => turn.shown = "full" /\ turn.own

\* No page is turned under a tooltip that has a key of its own.
TooltipsCounted ==
  \A t \in openTooltips :
    (\A o \in DOMAIN TooltipKey \ {t} : TooltipKey[o] # TooltipKey[t]) => TooltipKey[t] \in hasTooltip

GesturesFit == FeedbackEnds /\ TurnsAreSwiped /\ TooltipsCounted
=============================================================================

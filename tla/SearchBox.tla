----------------------------- MODULE SearchBox -----------------------------
(***************************************************************************)
(* The search box of the dictionary and corpus pages: the text, the        *)
(* options that are fetched for it and arrive in any order or not at all,  *)
(* and the cursor that moves over them.  Options are known by the text     *)
(* they were fetched for and by their number.                              *)
(***************************************************************************)
EXTENDS Integers, Sequences

CONSTANTS
  Texts, Empty, Blank,  \* what can be in the box: no text, spaces only, and others
  EmptyHasOptions,      \* hasOptionsForEmptyInput (the corpus page)
  MaxOptions,           \* options found for a text
  MaxFetches            \* fetches in the life of the box

\* What the proofs assume of the constants.
ConstantsFit ==
  /\ {Empty, Blank} \subseteq Texts
  /\ EmptyHasOptions \in BOOLEAN
  /\ MaxOptions \in Nat

VARIABLES
  input,          \* the text
  options,        \* the options shown: the text they are for, their number
  loading,
  cursor,         \* the index of the selected option, or -1
  focused, interacting,
  fetches,        \* every fetch: its text, and whether it is pending
  effectDue       \* the effect for an empty input has not run yet

vars == <<input, options, loading, cursor, focused, interacting, fetches, effectDue>>

Init ==
  /\ input = Empty /\ options = [of |-> Empty, count |-> 0]
  /\ loading = FALSE /\ cursor = -1
  /\ focused = FALSE /\ interacting = FALSE
  /\ fetches = <<>> /\ effectDue = EmptyHasOptions

PopperOpen == (focused \/ interacting) /\ (options.count > 0 \/ loading)

-----------------------------------------------------------------------------
\* refreshOptions, up to its await.
Refresh(text) ==
  /\ Len(fetches) < MaxFetches
  /\ loading' = TRUE
  /\ fetches' = Append(fetches, [text |-> text, state |-> "pending"])

\* onInputInternal: a new text, typed or set by the code.
SetInput(text) ==
  /\ input' = text
  /\ effectDue' = (EmptyHasOptions /\ text \in {Empty, Blank} /\ (text # input \/ effectDue))
  /\ Refresh(text)

Type(text) ==
  /\ focused /\ text # input
  /\ SetInput(text)
  /\ UNCHANGED <<options, cursor, focused, interacting>>

\* The effect for an empty input; it also removes spaces.
EmptyInputEffect ==
  /\ effectDue
  /\ input' = Empty /\ effectDue' = (input # Empty)
  /\ Refresh(Empty)
  /\ UNCHANGED <<options, cursor, focused, interacting>>

\* optionsForInput is another function, for other dictionaries or suggestions.
SourceChanges ==
  /\ EmptyHasOptions /\ input \in {Empty, Blank} /\ ~effectDue
  /\ effectDue' = TRUE
  /\ UNCHANGED <<input, options, loading, cursor, focused, interacting, fetches>>

\* A click into the text, or a key that moves inside it.
MoveInText ==
  /\ focused /\ Refresh(input)
  /\ UNCHANGED <<input, options, cursor, focused, interacting, effectDue>>

\* The clear button has no effect on the focus of the text.
Clear ==
  /\ focused' = TRUE
  /\ SetInput(Empty)
  /\ cursor' = IF focused THEN -1 ELSE cursor
  /\ UNCHANGED <<options, interacting>>

-----------------------------------------------------------------------------
Settle(i, state) ==
  /\ fetches[i].state = "pending"
  /\ fetches' = [fetches EXCEPT ![i].state = state]

\* Mutant: the text is not looked at again after the await.
ArriveUnchecked(i, count) ==
  /\ Settle(i, "done")
  /\ options' = [of |-> fetches[i].text, count |-> count]
  /\ cursor' = -1 /\ loading' = FALSE
  /\ UNCHANGED <<input, focused, interacting, effectDue>>

\* refreshOptions, after its await: options for another text are dropped.
Arrive(i, count) ==
  /\ Settle(i, "done")
  /\ IF fetches[i].text = input
     THEN /\ options' = [of |-> fetches[i].text, count |-> count]
          /\ cursor' = -1
          /\ loading' = FALSE
     ELSE UNCHANGED <<options, cursor, loading>>
  /\ UNCHANGED <<input, focused, interacting, effectDue>>

\* Nobody catches a rejection: the box goes on loading.
Reject(i) ==
  /\ Settle(i, "failed")
  /\ UNCHANGED <<input, options, loading, cursor, focused, interacting, effectDue>>

\* Mutant: the cursor is not wrapped around.
ArrowUnwrapped(step) ==
  /\ focused /\ ~loading /\ options.count > 0
  /\ cursor' = cursor + step
  /\ UNCHANGED <<input, options, loading, focused, interacting, fetches, effectDue>>

-----------------------------------------------------------------------------
\* The second setCursor wins: upwards from the text the cursor goes to the
\* last option but one.
Arrow(step) ==
  /\ focused /\ ~loading /\ options.count > 0
  /\ cursor' = (cursor + step) % options.count
  /\ UNCHANGED <<input, options, loading, focused, interacting, fetches, effectDue>>

Hover(i) ==
  /\ PopperOpen /\ i < options.count
  /\ interacting' = TRUE /\ cursor' = i
  /\ UNCHANGED <<input, options, loading, focused, fetches, effectDue>>

LeavePopup ==
  /\ interacting /\ interacting' = FALSE
  /\ UNCHANGED <<input, options, loading, cursor, focused, fetches, effectDue>>

\* An option is chosen, by a click or by Enter. It may be chained: its text
\* is put into the box, for the next option.
Choose(text) ==
  /\ cursor > -1 /\ (focused \/ interacting)
  /\ cursor' = -1 /\ interacting' = FALSE
  /\ \/ focused' = FALSE /\ UNCHANGED <<input, loading, fetches, effectDue>>
     \/ focused' = TRUE /\ SetInput(text)
  /\ UNCHANGED options

EnterText ==
  /\ focused /\ cursor = -1 /\ input \notin {Empty, Blank}
  /\ focused' = FALSE /\ interacting' = FALSE
  /\ UNCHANGED <<input, options, loading, cursor, fetches, effectDue>>

Focus ==
  /\ ~focused /\ focused' = TRUE
  /\ UNCHANGED <<input, options, loading, cursor, interacting, fetches, effectDue>>

Blur ==
  /\ focused /\ focused' = FALSE /\ cursor' = -1
  /\ UNCHANGED <<input, options, loading, interacting, fetches, effectDue>>

-----------------------------------------------------------------------------
Next ==
  \/ \E text \in Texts : Type(text) \/ Choose(text)
  \/ EmptyInputEffect \/ SourceChanges \/ MoveInText \/ Clear
  \/ \E i \in DOMAIN fetches : Reject(i) \/ \E count \in 0 .. MaxOptions : Arrive(i, count)
  \/ \E step \in {1, -1} : Arrow(step)
  \/ \E i \in 0 .. MaxOptions - 1 : Hover(i)
  \/ LeavePopup \/ EnterText \/ Focus \/ Blur

Spec == Init /\ [][Next]_vars

-----------------------------------------------------------------------------
TypeOK ==
  /\ input \in Texts
  /\ options \in [of : Texts, count : 0 .. MaxOptions]
  /\ cursor \in -1 .. MaxOptions - 1
  /\ {loading, focused, interacting, effectDue} \subseteq BOOLEAN
  /\ fetches \in Seq([text : Texts, state : {"pending", "done", "failed"}])

\* The cursor is always on an option that exists: Enter and the effect that
\* scrolls use options[cursor] unchecked (search.tsx:91, 271).
CursorOnOption == cursor < options.count

\* When nothing is loading, the options are those of the text in the box, in
\* whatever order answers arrive (search.tsx:108-115).
OptionsFitInput == ~loading /\ options.count > 0 => options.of = input

\* The box is loading only as long as a fetch for its text is pending, unless
\* one failed: the arrow keys are not dead for ever (search.tsx:105, 150).
LoadingHasReason ==
  loading => \E i \in DOMAIN fetches :
    fetches[i].text = input /\ fetches[i].state \in {"pending", "failed"}

\* The box never shows or chooses anything that is not for its text, and waits
\* only while there is, or was, a reason: after a failure perhaps for ever.
BoxFitsInput == CursorOnOption /\ OptionsFitInput /\ LoadingHasReason

=============================================================================

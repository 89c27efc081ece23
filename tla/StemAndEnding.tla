-------------------------- MODULE StemAndEnding ---------------------------
(***************************************************************************)
(* A line of an inflection table and a line of a stem file, read one       *)
(* abbreviation after another, and what the two make together in           *)
(* TypeScript and in the Rust port.                                        *)
(***************************************************************************)
EXTENDS Inflections

CONSTANTS
  Codes,     \* the abbreviations of the lines
  MaxCodes   \* bound: abbreviations per line

VARIABLES ending, stem, read
inflectionVars == <<ending, stem, read>>

TypeOK == read \in 0 .. 2 * MaxCodes

Init == ending = EmptyContext /\ stem = EmptyContext /\ read = 0

ReadEnding ==
  \E code \in Codes :
    /\ read < MaxCodes /\ ending # Throws
    /\ ending' = ReadCode(ending, code)
    /\ read' = read + 1
    /\ UNCHANGED stem

ReadStem ==
  \E code \in Codes :
    /\ read < 2 * MaxCodes /\ ending # Throws /\ stem # Throws
    /\ stem' = ReadCode(stem, code)
    /\ read' = IF read < MaxCodes THEN MaxCodes + 1 ELSE read + 1
    /\ UNCHANGED ending

Next == ReadEnding \/ ReadStem
Spec == Init /\ [][Next]_inflectionVars

-----------------------------------------------------------------------------
BothRead == ending # Throws /\ stem # Throws

\* What was read survives the way through the packed number, in both languages.
SurvivesPacking(data) ==
  LET packed == PackWordInflectionData(data)
  IN /\ Packable(data)
     /\ UnpackWordInflectionData(packed) = data
     /\ ExpandInflectionData(packed) = data

\* The port merges two numbers into the number of what TypeScript merges,
\* with two exceptions.  Of two degrees that differ TypeScript makes none,
\* and a stem of adverbs fits an ending without gender in the port only.
PortMergesAlike ==
  BothRead =>
    LET portIrregular == MergedContextForIrregs(Packed(stem), Packed(ending))
        portRegular == MergeContextForRegulars(Packed(stem), Packed(ending))
        adverbial == ~ (stem.data.gender \subseteq AnyGender) /\ ending.data.gender = {}
    IN /\ SurvivesPacking(ending.data) /\ SurvivesPacking(stem.data)
       /\ IF Clashes(ending.data.degree, stem.data.degree)
          THEN portIrregular = PackedIncompatible
          ELSE portIrregular = Packed(ExpandSingleEnding(stem, ending))
       /\ portRegular = Packed(MergeIfCompatible(stem, ending)) \/ adverbial

\* A regular stem that an ending admits reads the same merged as an irregular
\* one, so that giving a stem its code takes readings away and adds none.
RegularsAreStricter ==
  BothRead =>
    LET regular == MergeIfCompatible(stem, ending)
    IN regular # Incompatible =>
         \/ regular = ExpandSingleEnding(stem, ending)
         \/ stem.data.degree = Positive

=============================================================================

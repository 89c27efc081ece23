----------------------------- MODULE Spellings -----------------------------
(***************************************************************************)
(* Letters, their case, and the letters i and u that may be written j and  *)
(* v where they are consonants.                                            *)
(***************************************************************************)
EXTENDS Integers, Sequences, SequencesExt

CONSTANT Capital  \* the capital letter of each small one

Small == [c \in {Capital[l] : l \in DOMAIN Capital} |->
            CHOOSE l \in DOMAIN Capital : Capital[l] = c]
ToLower(c) == IF c \in DOMAIN Small THEN Small[c] ELSE c
ToUpper(c) == IF c \in DOMAIN Capital THEN Capital[c] ELSE c
LowerCase(s) == [i \in DOMAIN s |-> ToLower(s[i])]

Vowels == {"a", "e", "i", "o", "u", "y"}

\* findAmbiguousIandU and find_ambiguous_i_and_u
FindAmbiguousIandU(text, tryI, tryU) ==
  LET clean == LowerCase(text)
      markI == tryI /\ \A i \in DOMAIN text : clean[i] # "j"
      markU == tryU /\ \A i \in DOMAIN text : text[i] # "v"
      NextToVowel(i) == \E j \in {i - 1, i + 1} \cap DOMAIN text : clean[j] \in Vowels
  IN {i \in DOMAIN text :
        /\ NextToVowel(i)
        /\ \/ markI /\ clean[i] = "i"
           \/ markU /\ clean[i] = "u" /\ (i > 1 => clean[i - 1] # "q")}

ConsonantOf == [c \in {"i", "I", "u", "U"} |->
  CASE c = "i" -> "j" [] c = "I" -> "J" [] c = "u" -> "v" [] c = "U" -> "V"]

\* alternatesWithIorU and alternates_with_i_or_u: they count in binary, the
\* first ambiguous letter being the lowest digit.
AlternatesWithIorU(text, relaxIandJ, relaxUandV) ==
  LET ambiguous == SetToSortSeq(FindAmbiguousIandU(text, relaxIandJ, relaxUandV), <)
      Chosen(mask) == {ambiguous[k] : k \in {j \in DOMAIN ambiguous :
                         (mask \div 2 ^ (j - 1)) % 2 = 1}}
  IN [mask \in 1 .. 2 ^ Len(ambiguous) - 1 |->
       [i \in DOMAIN text |-> IF i \in Chosen(mask) THEN ConsonantOf[text[i]] ELSE text[i]]]

=============================================================================

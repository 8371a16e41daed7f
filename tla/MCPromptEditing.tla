--------------------------- MODULE MCPromptEditing ---------------------------
(***************************************************************************)
(* PromptScreen over a letter, a wide rune and a combining mark, drawn at  *)
(* every small size; PromptEditing over a Hangul consonant, its vowel and  *)
(* a letter that may stand between them.                                   *)
(***************************************************************************)
EXTENDS PromptScreen

CONSTANTS a, mark, wide, consonant, vowel, blank, sign

(* Every rune is kept together with the mark that follows it. *)
MarkRunes == {a, mark, wide}
MarkGlued == MarkRunes \X {mark}
MarkTyped == {<<a>>, <<mark>>, <<wide>>, <<a, mark>>}

(* A consonant is kept together with the vowel that follows it (GB6). *)
HangulRunes == {a, consonant, vowel}
HangulGlued == {<<consonant, vowel>>}
HangulTyped == {<<r>> : r \in HangulRunes}

(* A view with more body than the terminal has room for. *)
Widths == [r \in {a, mark, wide, consonant, vowel, blank, sign} |->
             IF r = mark THEN 0 ELSE IF r = wide THEN 2 ELSE 1]
Prompt == <<sign, blank>>
Mark   == <<sign>>
Line   == <<a, wide, wide, mark>>
Parts  == <<[title |-> <<a>>, body |-> <<Line, << >>>>]>>
Items  == <<<<Line>>, <<<<wide>>>>>>
=============================================================================

---------------------------- MODULE PromptEditor ----------------------------
(***************************************************************************)
(* The immutable prompt editor of editor.go: a text and a cursor that is   *)
(* meant to sit between two user-perceived characters.                     *)
(*                                                                         *)
(* A text is a sequence of runes of one byte each.  Where the grapheme     *)
(* library puts no boundary is given by the pairs of neighbours it keeps   *)
(* together, Glued: a letter and a combining mark, a Hangul consonant and  *)
(* its vowel.  Runes the code refuses (control characters, invalid UTF-8)  *)
(* are not members of Rune: a key that carries one changes nothing.        *)
(***************************************************************************)
EXTENDS Integers, Sequences

CONSTANTS
  Rune,        \* the printable runes a prompt is made of
  Glued,       \* pairs of adjacent runes with no grapheme boundary between
  MaxPrompt    \* MaximumPromptBytes

ASSUME PromptEditorAssumption ==
  /\ Glued \subseteq Rune \X Rune
  /\ MaxPrompt \in Nat

Text   == Seq(Rune)
Editor == [value : Text, cursor : Nat]

(* The editor value of Go's EditorState{}. *)
ZeroEditor == [value |-> << >>, cursor |-> 0]

NewEditor(text) == [value |-> text, cursor |-> Len(text)]

-----------------------------------------------------------------------------
(* Boundaries *)

(* graphemeBoundaries: both ends, and every place two runes are not glued. *)
Boundaries(text) ==
  {0, Len(text)} \cup {i \in 1..(Len(text) - 1) : <<text[i], text[i + 1]>> \notin Glued}

(* The first boundary at or after an offset, the end when there is none. *)
NextBoundary(text, desired) ==
  LET after == {b \in Boundaries(text) : b >= desired}
  IN  IF after = {} THEN Len(text) ELSE CHOOSE b \in after : \A c \in after : b <= c

(* The last boundary before an offset, the offset 0 when there is none.    *)
PreviousBoundary(text, offset) ==
  LET before == {b \in Boundaries(text) : b < offset}
  IN  IF before = {} THEN 0 ELSE CHOOSE b \in before : \A c \in before : c <= b

ValidPrompt(text) == Len(text) <= MaxPrompt

OnBoundary(editor) == editor.cursor \in Boundaries(editor.value)

ValidEditor(editor) == ValidPrompt(editor.value) /\ OnBoundary(editor)

-----------------------------------------------------------------------------
(* Operations *)

(* The text with one inserted at an offset. *)
Splice(text, offset, inserted) ==
  SubSeq(text, 1, offset) \o inserted \o SubSeq(text, offset + 1, Len(text))

(* A seeded defect: the bound is checked for each text, not for the sum. *)
CanInsertEach(editor, text) == ValidEditor(editor) /\ ValidPrompt(text)

CanInsert(editor, text) ==
  /\ ValidEditor(editor)
  /\ ValidPrompt(text)
  /\ Len(editor.value) + Len(text) <= MaxPrompt

(* A seeded defect: the cursor lands after the inserted runes even when    *)
(* they are glued to what follows.                                         *)
InsertWithoutSnap(editor, text) ==
  [value |-> Splice(editor.value, editor.cursor, text), cursor |-> editor.cursor + Len(text)]

Insert(editor, text) ==
  LET value == Splice(editor.value, editor.cursor, text)
  IN  [value |-> value, cursor |-> NextBoundary(value, editor.cursor + Len(text))]

Moves == {"left", "right", "start", "end"}

(* A seeded defect: left steps over one rune instead of one character.     *)
MoveByRune(editor, direction) ==
  [editor EXCEPT !.cursor =
     CASE direction = "left"  -> IF editor.cursor = 0 THEN 0 ELSE editor.cursor - 1
       [] direction = "right" -> NextBoundary(editor.value, editor.cursor + 1)
       [] direction = "start" -> 0
       [] direction = "end"   -> Len(editor.value)]

Move(editor, direction) ==
  IF ~ValidEditor(editor) THEN ZeroEditor
  ELSE [value |-> editor.value,
        cursor |-> CASE direction = "left"  -> PreviousBoundary(editor.value, editor.cursor)
                     [] direction = "right" -> NextBoundary(editor.value, editor.cursor + 1)
                     [] direction = "start" -> 0
                     [] direction = "end"   -> Len(editor.value)]

(* The text without the runes after offset from and up to offset to. *)
Cut(text, from, to) == SubSeq(text, 1, from) \o SubSeq(text, to + 1, Len(text))

(* A seeded defect: only the last rune of the character is removed. *)
BackspaceRune(editor) ==
  IF editor.cursor = 0 THEN editor
  ELSE [value  |-> Cut(editor.value, editor.cursor - 1, editor.cursor),
        cursor |-> editor.cursor - 1]

Backspace(editor) ==
  IF ~ValidEditor(editor) THEN ZeroEditor
  ELSE IF editor.cursor = 0 THEN editor
  ELSE LET start == PreviousBoundary(editor.value, editor.cursor)
       IN  [value |-> Cut(editor.value, start, editor.cursor), cursor |-> start]

=============================================================================

---------------------------- MODULE PromptEditing ----------------------------
(***************************************************************************)
(* One prompt under every sequence of editing keys, by itself: what        *)
(* Model.updateKey does to the editor, without the rest of the model.      *)
(***************************************************************************)
EXTENDS PromptEditor, FiniteSets

CONSTANT Typed         \* the texts a key press may insert

ASSUME TypedAssumption == Typed \subseteq Text

VARIABLE editor

Init == editor = ZeroEditor

TypeText(text) ==
  /\ CanInsert(editor, text)
  /\ editor' = Insert(editor, text)

MoveCursor(direction) == editor' = Move(editor, direction)

DeleteBack == editor' = Backspace(editor)

(* A prompt recalled from the history. *)
Recall(text) ==
  /\ ValidPrompt(text)
  /\ editor' = NewEditor(text)

Next ==
  \/ \E text \in Typed : TypeText(text)
  \/ \E direction \in Moves : MoveCursor(direction)
  \/ DeleteBack
  \/ \E text \in Typed : Recall(text)

Spec == Init /\ [][Next]_editor

-----------------------------------------------------------------------------
(* Properties *)

TypeOK == editor \in Editor

(* The cursor never rests inside a user-perceived character and the text   *)
(* stays within its bound.  An editor that fails this rejects every further *)
(* insertion, is erased by the next cursor key and makes the whole view     *)
(* unrenderable (editor.go:47, 59, 81; values.go:420).                      *)
CursorOnBoundary == ValidEditor(editor)

(* How many user-perceived characters a text has. *)
Characters(text) == IF text = << >> THEN 0 ELSE Cardinality(Boundaries(text)) - 1

(* Backspace takes away exactly the one character before the cursor and     *)
(* nothing at the start of the prompt, whatever marks the character carries *)
(* (editor.go:175: "removes the previous user-perceived character"; the     *)
(* comment at editor.go:99 speaks of a rune, see below).                    *)
BackspaceTakesOneCharacter ==
  [][DeleteBack =>
       IF editor.cursor = 0 THEN editor' = editor
       ELSE /\ Characters(editor'.value) = Characters(editor.value) - 1
            /\ Len(editor'.value) - editor'.cursor = Len(editor.value) - editor.cursor]_editor

(* editor.go:99: "Backspace removes the rune immediately before the cursor." *)
BackspaceRemovesOneRune ==
  [][DeleteBack /\ editor.cursor > 0 =>
       editor'.value = Cut(editor.value, editor.cursor - 1, editor.cursor)]_editor

(* Moving over a character and back returns to the same place in the same   *)
(* text, from every cursor the keys can reach (editor.go:79-97).            *)
MovesAreInverse ==
  /\ editor.cursor < Len(editor.value) => Move(Move(editor, "right"), "left") = editor
  /\ editor.cursor > 0 => Move(Move(editor, "left"), "right") = editor

=============================================================================

---------------------------- MODULE PromptScreen ----------------------------
(***************************************************************************)
(* The prompt on the screen: every prompt that editing can reach, drawn at *)
(* every size up to a bound.                                               *)
(***************************************************************************)
EXTENDS PromptEditing, Renderer

CONSTANTS Width, Height   \* bounds: the largest terminal

ASSUME ScreenAssumption == Width \in Nat /\ Height \in Nat

(* Whatever the prompt and however small the terminal, a frame has the      *)
(* lines and the cells of the terminal, wide runes that do not fit and      *)
(* marks without a cell included, and its cursor is inside it               *)
(* (renderer.go:54-61, 174-177; values.go:386).                             *)
FrameIsExact ==
  \A width \in 1..Width, height \in 1..Height :
    LET frame == Render(editor, width, height)
    IN  /\ \A y \in 0..(height - 1) : Cells(frame.lines[y]) = width
        /\ ValidFrame(frame, width, height)

(* What is shown of a long prompt is one stretch of it that reaches the     *)
(* cursor and wastes no cell before it, and the cursor stands in the cell   *)
(* after the text before it; only on a wide rune that had to be kept whole  *)
(* at the left edge does it stand one cell short (renderer.go:129-142).     *)
CursorIsAtText ==
  \A width \in 3..Width :
    LET prompt == renderPrompt(editor, width)
        shown  == SubSeq(prompt.line, Len(Label) + 1, Len(prompt.line))
    IN  \E first \in 0..editor.cursor :
          LET before == Cells(SubSeq(editor.value, first + 1, editor.cursor))
          IN  /\ first + Len(shown) \in editor.cursor..Len(editor.value)
              /\ shown = SubSeq(editor.value, first + 1, first + Len(shown))
              /\ first > 0 => before >= Available(width) - 1
              /\ \/ prompt.cursorX = Cells(Label) + before
                 \/ /\ before = Available(width) /\ prompt.cursorX = width - 1
                    /\ CellWidth[editor.value[first + 1]] = 2
=============================================================================

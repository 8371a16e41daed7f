------------------------------ MODULE Renderer ------------------------------
(***************************************************************************)
(* The fixed renderer (internal/presentation/renderer.go): a view is told  *)
(* as exactly as many lines, of exactly as many cells, as the terminal has,*)
(* with the cursor where the next rune of the prompt is typed.             *)
(*                                                                         *)
(* A line is a sequence of runes; a rune takes 0 (a combining mark), 1 or  *)
(* 2 (a wide rune) cells.  Colours and bold are left out: they take none.  *)
(***************************************************************************)
EXTENDS PromptEditor, SequencesExt

CONSTANTS
  CellWidth,     \* [runes -> cells], the runes below included
  Blank,         \* the rune lines are filled with
  Label,         \* what is before the prompt, two cells
  Indent, Bullet, Colon, Heading,   \* of the body
  Title, Status, \* of the view: two lines
  Sections,      \* sequence of [title : line, body : lines]
  Activity       \* sequence of items, each some lines

Cells(line) == FoldLeft(LAMBDA sum, rune : sum + CellWidth[rune], 0, line)

(* The runes that can be drawn. *)
Drawn == DOMAIN CellWidth

(* A body that is split into lines has at least one. *)
ASSUME RendererAssumption ==
  /\ CellWidth \in [Drawn -> 0..2]
  /\ Rune \subseteq Drawn /\ Blank \in Drawn
  /\ {Label, Indent, Bullet, Colon, Heading, Title, Status} \subseteq Seq(Drawn)
  /\ Sections \in Seq([title : Seq(Drawn), body : Seq(Seq(Drawn)) \ {<< >>}])
  /\ Activity \in Seq(Seq(Seq(Drawn)))
  /\ Cells(Label) = 2 /\ CellWidth[Blank] = 1

AtLeast0(n) == IF n > 0 THEN n ELSE 0

-----------------------------------------------------------------------------
(* ansi.Truncate and ansi.TruncateLeft *)

(* How many runes of a line fit into some cells. *)
Fitting(line, cells) ==
  CHOOSE k \in 0..Len(line) :
    /\ Cells(SubSeq(line, 1, k)) <= cells
    /\ k < Len(line) => Cells(SubSeq(line, 1, k + 1)) > cells

Truncate(line, cells) == SubSeq(line, 1, Fitting(line, cells))

(* A wide rune that starts in the cells taken away and ends after them is   *)
(* kept whole.                                                              *)
TruncateLeft(line, cells) ==
  IF cells <= 0 THEN line ELSE SubSeq(line, Fitting(line, cells) + 1, Len(line))

-----------------------------------------------------------------------------
(* A seeded defect: a line is padded to its runes. *)
fitLineByRunes(line, width) ==
  LET cut == Truncate(line, width)
  IN  cut \o [i \in 1..AtLeast0(width - Len(cut)) |-> Blank]

fitLine(line, width) ==
  LET cut == Truncate(line, width)
  IN  cut \o [i \in 1..AtLeast0(width - Cells(cut)) |-> Blank]

semanticBody ==
  LET section(s) == <<s.title \o Colon \o Head(s.body)>>
                      \o [i \in 1..(Len(s.body) - 1) |-> Indent \o s.body[i + 1]]
      item(lines) == [i \in DOMAIN lines |-> Bullet \o lines[i]]
  IN  FlattenSeq([i \in DOMAIN Sections |-> section(Sections[i])])
        \o (IF Activity = << >> THEN << >> ELSE <<Heading>>)
        \o FlattenSeq([i \in DOMAIN Activity |-> item(Activity[i])])

Available(width) == AtLeast0(width - Cells(Label))

(* What is shown of the text before the cursor. *)
visiblePrefix(editor, width) ==
  LET prefix == SubSeq(editor.value, 1, editor.cursor)
  IN  IF Cells(prefix) < Available(width) THEN prefix
      ELSE TruncateLeft(prefix, Cells(prefix) - AtLeast0(Available(width) - 1))

(* A seeded defect: the text is shown from its start wherever the cursor is. *)
renderPromptFromStart(editor, width) ==
  [line    |-> Label \o Truncate(editor.value, Available(width)),
   cursorX |-> LET end == Cells(Label) + Cells(SubSeq(editor.value, 1, editor.cursor))
               IN  IF end < width THEN end ELSE width - 1]

renderPrompt(editor, width) ==
  IF Available(width) = 0 THEN [line |-> Label, cursorX |-> AtLeast0(width - 1)]
  ELSE LET prefix == visiblePrefix(editor, width)
           suffix == SubSeq(editor.value, editor.cursor + 1, Len(editor.value))
           end    == Cells(Label) + Cells(prefix)
       IN  [line    |-> Label \o Truncate(prefix \o suffix, Available(width)),
            cursorX |-> IF end < width THEN end ELSE width - 1]

-----------------------------------------------------------------------------
(* Render: the title first, the status last, the prompt above it, and what  *)
(* fits of the body between.  Lines and columns are counted from 0.         *)
Render(editor, width, height) ==
  LET prompt  == renderPrompt(editor, width)
      bodyEnd == IF height >= 3 THEN height - 2 ELSE 1
      line(y) == IF y = 0 THEN Title
                 ELSE IF y < bodyEnd THEN (IF y <= Len(semanticBody) THEN semanticBody[y] ELSE << >>)
                 ELSE IF y = height - 1 THEN Status ELSE prompt.line
  IN  [lines   |-> [y \in 0..(height - 1) |-> fitLine(line(y), width)],
       visible |-> height >= 3,
       cursorX |-> IF height >= 3 THEN prompt.cursorX ELSE 0,
       cursorY |-> IF height >= 3 THEN bodyEnd ELSE 0]

(* Frame.Validate. *)
ValidFrame(frame, width, height) ==
  frame.visible => frame.cursorX \in 0..(width - 1) /\ frame.cursorY \in 0..(height - 1)
=============================================================================

------------------------- MODULE PromptEditingProofs -------------------------
(***************************************************************************)
(* The prompt of PromptEditing, for every set of runes and every bound,    *)
(* and the frames it is drawn in, for every width of the runes, every view *)
(* and every size.                                                         *)
(***************************************************************************)
EXTENDS PromptScreen, PromptEditorTheorems, FiniteSetTheorems

(* Every key leaves an editor (editor.go:30-116). *)
THEOREM EditingTypeCorrect == Spec => []TypeOK
<1>1. Init => TypeOK
  BY ZeroEditorSound DEF Init, TypeOK
<1>2. TypeOK /\ [Next]_editor => TypeOK'
  <2> SUFFICES ASSUME TypeOK, [Next]_editor
               PROVE  TypeOK'
    OBVIOUS
  <2>1. ASSUME NEW text \in Typed, TypeText(text)
        PROVE  TypeOK'
    BY <2>1, TypedAssumption, InsertSound DEF TypeText, TypeOK
  <2>2. ASSUME NEW direction \in Moves, MoveCursor(direction)
        PROVE  TypeOK'
    BY <2>2, MoveSound DEF MoveCursor, TypeOK
  <2>3. CASE DeleteBack
    BY <2>3, BackspaceSound DEF DeleteBack, TypeOK
  <2>4. ASSUME NEW text \in Typed, Recall(text)
        PROVE  TypeOK'
    BY <2>4, TypedAssumption, NewEditorSound DEF Recall, TypeOK
  <2>5. CASE UNCHANGED editor
    BY <2>5 DEF TypeOK
  <2> QED
    BY <2>1, <2>2, <2>3, <2>4, <2>5 DEF Next
<1> QED
  BY <1>1, <1>2, PTL DEF Spec

(* With runes that join the one before them because of what they are, the   *)
(* cursor never rests inside a character, and the prompt stays bounded: no   *)
(* sequence of keys makes the view unrenderable (editor.go:44, 47).         *)
THEOREM CursorStaysOnBoundary == GluedByRight => (Spec => []CursorOnBoundary)
<1> SUFFICES ASSUME GluedByRight
             PROVE  Spec => []CursorOnBoundary
  OBVIOUS
<1>1. Init => CursorOnBoundary
  BY ZeroEditorSound DEF Init, CursorOnBoundary
<1>2. TypeOK /\ CursorOnBoundary /\ [Next]_editor => CursorOnBoundary'
  <2> SUFFICES ASSUME TypeOK, CursorOnBoundary, [Next]_editor
               PROVE  CursorOnBoundary'
    OBVIOUS
  <2>1. ASSUME NEW text \in Typed, TypeText(text)
        PROVE  CursorOnBoundary'
    BY <2>1, TypedAssumption, InsertSound DEF TypeText, TypeOK, CursorOnBoundary
  <2>2. ASSUME NEW direction \in Moves, MoveCursor(direction)
        PROVE  CursorOnBoundary'
    BY <2>2, MoveSound DEF MoveCursor, TypeOK, CursorOnBoundary
  <2>3. CASE DeleteBack
    BY <2>3, BackspaceSound DEF DeleteBack, TypeOK, CursorOnBoundary
  <2>4. ASSUME NEW text \in Typed, Recall(text)
        PROVE  CursorOnBoundary'
    BY <2>4, TypedAssumption, NewEditorSound DEF Recall, TypeOK, CursorOnBoundary
  <2>5. CASE UNCHANGED editor
    BY <2>5 DEF CursorOnBoundary
  <2> QED
    BY <2>1, <2>2, <2>3, <2>4, <2>5 DEF Next
<1> QED
  BY <1>1, <1>2, EditingTypeCorrect, PTL DEF Spec

(* Moving over a character and back returns to the same place in the same   *)
(* text, from every cursor the keys can reach (editor.go:79-97).            *)
THEOREM MovesReturn == GluedByRight => (Spec => []MovesAreInverse)
<1>1. TypeOK /\ CursorOnBoundary => MovesAreInverse
  BY RightThenLeft, LeftThenRight DEF TypeOK, CursorOnBoundary, MovesAreInverse
<1> QED
  BY <1>1, EditingTypeCorrect, CursorStaysOnBoundary, PTL

-----------------------------------------------------------------------------
(* Backspace and the characters of the prompt *)

(* The characters of a text are the gaps between its boundaries. *)
LEMMA CharactersAreGaps ==
  ASSUME NEW text \in Text
  PROVE  /\ IsFiniteSet(Boundaries(text))
         /\ Cardinality(Boundaries(text)) \in Nat
         /\ Characters(text) = Cardinality(Boundaries(text)) - 1
<1>1. Boundaries(text) \in SUBSET (0..Len(text)) /\ Len(text) \in Nat
  BY BoundariesAreOffsets
<1>2. IsFiniteSet(Boundaries(text))
  <2>1. IsFiniteSet(0..Len(text))
    BY <1>1, FS_Interval
  <2> QED
    BY <1>1, <2>1, FS_Subset
<1>3. Cardinality(Boundaries(text)) \in Nat
  BY <1>2, FS_CardinalityType
<1>4. CASE text = << >>
  <2>1. Boundaries(text) = {0}
    BY <1>4 DEF Boundaries
  <2>2. Cardinality(Boundaries(text)) = 1
    BY <2>1, FS_Singleton
  <2> QED
    BY <1>2, <1>3, <1>4, <2>2 DEF Characters
<1> QED
  BY <1>2, <1>3, <1>4 DEF Characters

(* What is cut between two neighbouring boundaries, when the place where    *)
(* the ends meet is one too, takes one boundary away and shifts those after *)
(* it.                                                                      *)
LEMMA CutTakesOneBoundary ==
  ASSUME NEW text \in Text,
         NEW from \in Boundaries(text),
         NEW to \in Boundaries(text),
         from < to,
         \A b \in Boundaries(text) : b < to => b <= from,
         from \in Boundaries(Cut(text, from, to))
  PROVE  Cardinality(Boundaries(Cut(text, from, to))) = Cardinality(Boundaries(text)) - 1
<1> DEFINE value == Cut(text, from, to)
           width == to - from
           kept  == Boundaries(text) \ {to}
           Back(b) == IF b <= from THEN b ELSE b + width
<1>1. /\ Boundaries(text) \subseteq 0..Len(text) /\ Len(text) \in Nat
      /\ from \in Nat /\ to \in 0..Len(text) /\ from \in 0..to
      /\ 0 \in Boundaries(text) /\ Len(text) \in Boundaries(text)
  BY BoundariesAreOffsets
<1>2. /\ value \in Text /\ Len(value) = Len(text) - width
      /\ \A i \in 1..from : value[i] = text[i]
      /\ \A i \in (from + 1)..(Len(text) - width) : value[i] = text[i + width]
  BY <1>1, CutProperties
<1>3. from \in Boundaries(value)
  OBVIOUS
<1> HIDE DEF value
<1>4. /\ Boundaries(value) \subseteq 0..Len(value) /\ Len(value) \in Nat
      /\ 0 \in Boundaries(value) /\ Len(value) \in Boundaries(value)
  BY <1>2, BoundariesAreOffsets
<1>5. width \in Nat /\ width > 0 /\ to = from + width
  BY <1>1
<1> HIDE DEF width
<1>6. \A b \in Boundaries(text) : b < to => b <= from
  OBVIOUS
(* Before the cut the two texts agree, and after it with the shift. *)
<1>7. ASSUME NEW b \in 1..(from - 1)
      PROVE  b \in Boundaries(value) <=> b \in Boundaries(text)
  <2>1. b \in 1..(Len(value) - 1) /\ b \in 1..(Len(text) - 1)
    BY <1>1, <1>2, <1>5
  <2>2. value[b] = text[b] /\ value[b + 1] = text[b + 1]
    BY <1>1, <1>2
  <2>3. b # 0 /\ b # Len(value) /\ b # Len(text)
    BY <1>1, <1>4, <2>1
  <2> QED
    BY <2>1, <2>2, <2>3 DEF Boundaries
<1>8. ASSUME NEW b \in (from + 1)..(Len(value) - 1)
      PROVE  b \in Boundaries(value) <=> b + width \in Boundaries(text)
  <2>1. b \in 1..(Len(value) - 1) /\ b + width \in 1..(Len(text) - 1)
    BY <1>1, <1>2, <1>5
  <2>2. value[b] = text[b + width] /\ value[b + 1] = text[(b + 1) + width]
    BY <1>1, <1>2, <1>4, <1>5
  <2>3. (b + 1) + width = (b + width) + 1
    BY <1>1, <1>5
  <2>4. b # 0 /\ b # Len(value) /\ b + width # 0 /\ b + width # Len(text)
    BY <1>1, <1>4, <2>1
  <2> QED
    BY <2>1, <2>2, <2>3, <2>4 DEF Boundaries
<1>9. ASSUME NEW b \in Boundaries(value)
      PROVE  Back(b) \in kept
  <2>1. CASE b <= from
    <3>1. b = 0 \/ b = from \/ b \in 1..(from - 1)
      BY <1>1, <1>4, <2>1
    <3>2. b \in Boundaries(text)
      BY <1>1, <1>7, <3>1
    <3>3. b # to
      BY <1>1, <1>4, <1>5, <2>1
    <3> QED
      BY <2>1, <3>2, <3>3
  <2>2. CASE ~(b <= from)
    <3>1. b = Len(value) \/ b \in (from + 1)..(Len(value) - 1)
      BY <1>1, <1>4, <2>2
    <3>2. b + width \in Boundaries(text)
      <4>1. CASE b = Len(value)
        <5>1. b + width = Len(text)
          BY <1>1, <1>2, <1>5, <4>1
        <5> QED
          BY <1>1, <5>1
      <4>2. CASE b \in (from + 1)..(Len(value) - 1)
        BY <1>8, <4>2
      <4> QED
        BY <3>1, <4>1, <4>2
    <3>3. b + width # to
      BY <1>1, <1>4, <1>5, <2>2
    <3> QED
      BY <2>2, <3>2, <3>3
  <2> QED
    BY <2>1, <2>2
<1>10. ASSUME NEW a \in Boundaries(value), NEW b \in Boundaries(value), Back(a) = Back(b)
       PROVE  a = b
  <2>1. a \in Nat /\ b \in Nat /\ from \in Nat /\ width \in Nat
    BY <1>1, <1>4, <1>5
  <2> QED
    BY <1>10, <2>1
<1>11. ASSUME NEW e \in kept
       PROVE  \E b \in Boundaries(value) : Back(b) = e
  <2>1. e \in Boundaries(text) /\ e # to /\ e \in 0..Len(text)
    BY <1>1
  <2>2. CASE e < to
    <3>1. e <= from
      BY <1>6, <2>1, <2>2
    <3>2. e = 0 \/ e = from \/ e \in 1..(from - 1)
      BY <1>1, <2>1, <3>1
    <3>3. e \in Boundaries(value)
      BY <1>3, <1>4, <1>7, <2>1, <3>2
    <3> QED
      BY <3>1, <3>3
  <2>3. CASE ~(e < to)
    <3> DEFINE b == e - width
    <3>1. b \in Nat /\ b > from /\ b + width = e
      BY <1>1, <1>5, <2>1, <2>3
    <3> HIDE DEF b
    <3>2. b = Len(value) \/ b \in (from + 1)..(Len(value) - 1)
      <4>1. e <= Len(text) /\ Len(text) \in Nat /\ from \in Nat /\ width \in Nat
        BY <1>1, <1>5, <2>1
      <4>2. b <= Len(value) /\ Len(value) \in Nat
        BY <1>2, <1>4, <3>1, <4>1
      <4> QED
        BY <3>1, <4>1, <4>2
    <3>3. b \in Boundaries(value)
      BY <1>4, <1>8, <2>1, <3>1, <3>2
    <3>4. ~(b <= from)
      BY <1>1, <3>1
    <3> QED
      BY <3>1, <3>3, <3>4
  <2> QED
    BY <2>2, <2>3
<1>12. ExistsBijection(Boundaries(value), kept)
  <2> DEFINE back == [b \in Boundaries(value) |-> Back(b)]
  <2>0. \A b \in Boundaries(value) : back[b] = Back(b)
    OBVIOUS
  <2>1. back \in [Boundaries(value) -> kept]
    BY <1>9
  <2> HIDE DEF Back, kept
  <2>2. \A a, b \in DOMAIN back : back[a] = back[b] => a = b
    BY <1>10
  <2>3. \A e \in kept : \E b \in Boundaries(value) : back[b] = e
    BY <1>11
  <2> HIDE DEF back
  <2> QED
    BY <2>1, <2>2, <2>3
    DEF ExistsBijection, Bijection, Injection, Surjection, IsInjective
<1>13. /\ IsFiniteSet(Boundaries(text)) /\ IsFiniteSet(Boundaries(value))
       /\ Cardinality(Boundaries(text)) \in Nat
  BY <1>2, CharactersAreGaps
<1>14. Cardinality(kept) = Cardinality(Boundaries(value))
  BY <1>12, <1>13, FS_Bijection
<1>15. Cardinality(kept) = Cardinality(Boundaries(text)) - 1
  BY <1>13, FS_RemoveElement
<1> QED
  BY <1>14, <1>15 DEF value

(* Backspace takes away exactly the one character before the cursor and     *)
(* nothing at the start of the prompt (editor.go:99-116), when whether a     *)
(* rune joins the one before it depends on that rune alone.                 *)
THEOREM BackspaceIsExact == GluedByRight => (Spec => BackspaceTakesOneCharacter)
<1> DEFINE Exact ==
      IF editor.cursor = 0 THEN editor' = editor
      ELSE /\ Characters(editor'.value) = Characters(editor.value) - 1
           /\ Len(editor'.value) - editor'.cursor = Len(editor.value) - editor.cursor
<1> SUFFICES ASSUME GluedByRight
             PROVE  Spec => BackspaceTakesOneCharacter
  OBVIOUS
<1>1. ASSUME TypeOK, CursorOnBoundary, DeleteBack
      PROVE  Exact
  <2> USE <1>1
  <2>1. editor \in Editor /\ ValidEditor(editor) /\ editor' = Backspace(editor)
    BY DEF TypeOK, CursorOnBoundary, DeleteBack
  <2>2. CASE editor.cursor = 0
    BY <2>1, <2>2 DEF Backspace
  <2>3. CASE editor.cursor # 0
    <3> DEFINE text   == editor.value
               cursor == editor.cursor
               start  == PreviousBoundary(text, cursor)
               value  == Cut(text, start, cursor)
    <3>1. /\ text \in Text /\ Len(text) \in Nat
          /\ cursor \in 1..Len(text) /\ cursor \in Boundaries(text)
      BY <2>1, <2>3, BoundariesAreOffsets DEF Editor, ValidEditor, OnBoundary
    <3>2. editor' = [value |-> value, cursor |-> start]
      BY <2>1, <2>3 DEF Backspace
    <3>3. ValidEditor(editor')
      BY <2>1, BackspaceSound
    <3> HIDE DEF text, cursor
    <3>4. /\ start \in Boundaries(text) /\ start \in 0..(cursor - 1)
          /\ \A b \in Boundaries(text) : b < cursor => b <= start
      BY <3>1, PreviousBoundaryIsBoundary, PreviousBoundaryIsGreatest
    <3> HIDE DEF start
    <3>5. value \in Text /\ Len(value) = Len(text) - (cursor - start)
      <4>1. cursor \in 0..Len(text) /\ start \in 0..cursor
        BY <3>1, <3>4
      <4> QED
        BY <3>1, <4>1, CutProperties
    <3>6. start \in Boundaries(value)
      BY <3>2, <3>3 DEF ValidEditor, OnBoundary
    <3>7. Cardinality(Boundaries(value)) = Cardinality(Boundaries(text)) - 1
      <4>1. start < cursor
        BY <3>1, <3>4
      <4> QED
        BY <3>1, <3>4, <3>6, <4>1, CutTakesOneBoundary
    <3> HIDE DEF value
    <3>8. Characters(value) = Characters(text) - 1
      BY <3>1, <3>5, <3>7, CharactersAreGaps
    <3>9. Len(value) - start = Len(text) - cursor
      BY <3>1, <3>4, <3>5
    <3> QED
      BY <2>3, <3>2, <3>8, <3>9 DEF text, cursor
  <2> QED
    BY <2>2, <2>3
<1>2. TypeOK /\ CursorOnBoundary /\ [Next]_editor => [DeleteBack => Exact]_editor
  BY <1>1
<1>3. Spec => []TypeOK /\ []CursorOnBoundary
  BY EditingTypeCorrect, CursorStaysOnBoundary
<1> QED
  BY <1>2, <1>3, PTL DEF Spec, BackspaceTakesOneCharacter

-----------------------------------------------------------------------------
(* The cells of a line *)

LEMMA Drawing ==
  /\ CellWidth \in [Drawn -> Nat] /\ CellWidth \in [Drawn -> 0..2]
  /\ Text \subseteq Seq(Drawn) /\ Blank \in Drawn
<1>1. CellWidth \in [Drawn -> 0..2] /\ Rune \subseteq Drawn /\ Blank \in Drawn
  BY RendererAssumption
<1>2. CellWidth \in [Drawn -> Nat]
  BY <1>1
<1>3. Seq(Rune) \subseteq Seq(Drawn)
  BY <1>1, SeqMonotonic
<1> QED
  BY <1>1, <1>2, <1>3 DEF Text

LEMMA CellsAreSum ==
  ASSUME NEW line
  PROVE  Cells(line) = FoldSum(CellWidth, line)
BY DEF Cells, FoldSum

LEMMA CellsAreNatural ==
  ASSUME NEW line \in Seq(Drawn)
  PROVE  Cells(line) \in Nat /\ (line = << >> => Cells(line) = 0)
BY Drawing, CellsAreSum, FoldSumIsNatural

LEMMA CellsOfConcat ==
  ASSUME NEW line \in Seq(Drawn), NEW rest \in Seq(Drawn)
  PROVE  line \o rest \in Seq(Drawn) /\ Cells(line \o rest) = Cells(line) + Cells(rest)
<1>1. FoldSum(CellWidth, line \o rest) = FoldSum(CellWidth, line) + FoldSum(CellWidth, rest)
  BY Drawing, FoldSumOfConcat
<1> QED
  BY <1>1, CellsAreSum, ConcatProperties

LEMMA CellsOfAppend ==
  ASSUME NEW line \in Seq(Drawn), NEW rune \in Drawn
  PROVE  Append(line, rune) \in Seq(Drawn) /\ Cells(Append(line, rune)) = Cells(line) + CellWidth[rune]
<1>1. FoldSum(CellWidth, Append(line, rune)) = FoldSum(CellWidth, line) + CellWidth[rune]
  BY Drawing, FoldSumOfAppend
<1> QED
  BY <1>1, CellsAreSum, AppendProperties

(* A stretch of a line is a line of its own. *)
LEMMA StretchOfLine ==
  ASSUME NEW line \in Seq(Drawn), NEW m \in 1..(Len(line) + 1), NEW n \in (m - 1)..Len(line)
  PROVE  SubSeq(line, m, n) \in Seq(Drawn) /\ Len(SubSeq(line, m, n)) = n - m + 1
<1>1. Len(line) \in Nat
  OBVIOUS
<1>2. m \in Int /\ n \in Int /\ \A i \in m..n : line[i] \in Drawn
  BY <1>1, ElementOfSeq
<1>3. /\ SubSeq(line, m, n) \in Seq(Drawn)
      /\ Len(SubSeq(line, m, n)) = IF m <= n THEN n - m + 1 ELSE 0
  BY <1>2, SubSeqProperties
<1> QED
  BY <1>1, <1>3

(* The cells of a front are those of a shorter one and of what is between. *)
LEMMA CellsOfFront ==
  ASSUME NEW line \in Seq(Drawn), NEW n \in 0..Len(line), NEW k \in 0..n
  PROVE  /\ SubSeq(line, 1, k) \in Seq(Drawn) /\ SubSeq(line, k + 1, n) \in Seq(Drawn)
         /\ Cells(SubSeq(line, 1, n)) = Cells(SubSeq(line, 1, k)) + Cells(SubSeq(line, k + 1, n))
         /\ Cells(SubSeq(line, 1, k)) <= Cells(SubSeq(line, 1, n))
<1>1. Len(line) \in Nat /\ 1 \in 1..(Len(line) + 1) /\ k \in (1 - 1)..Len(line) /\ n \in k..Len(line)
  OBVIOUS
<1>2. SubSeq(line, 1, k) \in Seq(Drawn)
  BY <1>1, StretchOfLine
<1>3. SubSeq(line, k + 1, n) \in Seq(Drawn)
  <2>1. k + 1 \in 1..(Len(line) + 1) /\ n \in ((k + 1) - 1)..Len(line)
    BY <1>1
  <2> QED
    BY <2>1, StretchOfLine
<1>4. SubSeq(line, 1, k) \o SubSeq(line, k + 1, n) = SubSeq(line, 1, n)
  BY <1>1, ConcatAdjacentSubSeq
<1>5. Cells(SubSeq(line, 1, n)) = Cells(SubSeq(line, 1, k)) + Cells(SubSeq(line, k + 1, n))
  BY <1>2, <1>3, <1>4, CellsOfConcat
<1>6. Cells(SubSeq(line, 1, k)) \in Nat /\ Cells(SubSeq(line, k + 1, n)) \in Nat
  BY <1>2, <1>3, CellsAreNatural
<1> QED
  BY <1>2, <1>3, <1>5, <1>6

LEMMA CellsOfNextRune ==
  ASSUME NEW line \in Seq(Drawn), NEW k \in 0..(Len(line) - 1)
  PROVE  /\ line[k + 1] \in Drawn /\ CellWidth[line[k + 1]] \in 0..2
         /\ Cells(SubSeq(line, 1, k + 1)) = Cells(SubSeq(line, 1, k)) + CellWidth[line[k + 1]]
<1>1. Len(line) \in Nat /\ 1 \in 1..Len(line) /\ k + 1 \in 1..Len(line) /\ k \in 0..Len(line)
  OBVIOUS
<1>2. line[k + 1] \in Drawn
  BY <1>1, ElementOfSeq
<1>3. SubSeq(line, 1, k) \in Seq(Drawn)
  <2>1. 1 \in 1..(Len(line) + 1) /\ k \in (1 - 1)..Len(line)
    BY <1>1
  <2> QED
    BY <2>1, StretchOfLine
<1>4. SubSeq(line, 1, k + 1) = Append(SubSeq(line, 1, k), line[k + 1])
  <2>1. SubSeq(line, 1, k + 1) = SubSeq(line, 1, (k + 1) - 1) \o <<line[k + 1]>>
    BY <1>1, SubSeqRecursiveSecond
  <2>2. Append(SubSeq(line, 1, k), line[k + 1]) = SubSeq(line, 1, k) \o <<line[k + 1]>>
    BY <1>2, <1>3, AppendIsConcat
  <2>3. (k + 1) - 1 = k
    OBVIOUS
  <2> QED
    BY <2>1, <2>2, <2>3
<1> QED
  BY <1>2, <1>3, <1>4, CellsOfAppend, Drawing

(* What fits is as much as fits. *)
LEMMA FittingIsGreatest ==
  ASSUME NEW line \in Seq(Drawn), NEW cells \in Nat
  PROVE  /\ Fitting(line, cells) \in 0..Len(line)
         /\ Cells(SubSeq(line, 1, Fitting(line, cells))) <= cells
         /\ Fitting(line, cells) < Len(line)
              => Cells(SubSeq(line, 1, Fitting(line, cells) + 1)) > cells
<1> DEFINE fits(k) == Cells(SubSeq(line, 1, k)) <= cells
           K == {k \in 0..Len(line) : fits(k)}
<1>0. Len(line) \in Nat
  OBVIOUS
<1>1. 0 \in K
  <2>1. SubSeq(line, 1, 0) = << >>
    BY SubSeqEmpty
  <2>2. Cells(<< >>) = 0
    BY CellsAreNatural, EmptySeq
  <2>3. fits(0)
    <3>1. 0 <= cells
      OBVIOUS
    <3> QED
      BY <2>1, <2>2, <3>1
  <2>4. 0 \in 0..Len(line)
    BY <1>0
  <2> HIDE DEF fits
  <2> QED
    BY <2>3, <2>4
<1>2. PICK k \in K : \A j \in K : j <= k
  <2>1. K \in SUBSET (0..Len(line)) /\ K # {}
    BY <1>1
  <2> HIDE DEF K
  <2> QED
    BY <1>0, <2>1, GreatestNatural
<1>3. ASSUME k < Len(line) PROVE Cells(SubSeq(line, 1, k + 1)) > cells
  <2>1. k + 1 \in 0..Len(line) /\ k + 1 \notin K
    BY <1>0, <1>2, <1>3
  <2>2. Cells(SubSeq(line, 1, k + 1)) \in Nat
    <3>1. 1 \in 1..(Len(line) + 1) /\ k + 1 \in (1 - 1)..Len(line)
      BY <1>0, <2>1
    <3> QED
      BY <3>1, StretchOfLine, CellsAreNatural
  <2> QED
    BY <2>1, <2>2
<1>4. \E j \in 0..Len(line) :
        /\ Cells(SubSeq(line, 1, j)) <= cells
        /\ j < Len(line) => Cells(SubSeq(line, 1, j + 1)) > cells
  BY <1>2, <1>3
<1> QED
  BY <1>4 DEF Fitting

LEMMA TruncatedLine ==
  ASSUME NEW line \in Seq(Drawn), NEW cells \in Nat
  PROVE  Truncate(line, cells) \in Seq(Drawn) /\ Cells(Truncate(line, cells)) <= cells
<1>1. /\ Fitting(line, cells) \in 0..Len(line)
      /\ Cells(SubSeq(line, 1, Fitting(line, cells))) <= cells
  BY FittingIsGreatest
<1>2. 1 \in 1..(Len(line) + 1) /\ Fitting(line, cells) \in (1 - 1)..Len(line)
  <2>1. Len(line) \in Nat
    OBVIOUS
  <2> QED
    BY <1>1, <2>1
<1> QED
  BY <1>1, <1>2, StretchOfLine DEF Truncate

LEMMA BlanksAreCells ==
  ASSUME NEW n \in Nat
  PROVE  [i \in 1..n |-> Blank] \in Seq(Drawn) /\ Cells([i \in 1..n |-> Blank]) = n
<1> DEFINE blanks(m) == [i \in 1..m |-> Blank]
           Bad == {m \in 0..n : Cells(blanks(m)) # m}
<1>1. ASSUME NEW m \in Nat PROVE blanks(m) \in Seq(Drawn) /\ Len(blanks(m)) = m
  BY Drawing
<1>2. ASSUME Bad # {} PROVE FALSE
  <2>1. PICK m \in Bad : \A k \in Bad : m <= k
    <3>1. Bad \in SUBSET Nat
      OBVIOUS
    <3> QED
      BY <1>2, <3>1, LeastNatural
  <2>2. m # 0
    <3>1. blanks(0) = << >>
      BY <1>1
    <3>2. Cells(blanks(0)) = 0
      BY <3>1, CellsAreNatural, EmptySeq
    <3> QED
      BY <2>1, <3>2
  <2>3. m - 1 \in Nat /\ m \in Nat /\ Cells(blanks(m - 1)) = m - 1
    BY <2>1, <2>2
  <2>4. blanks(m) = Append(blanks(m - 1), Blank)
    <3>1. blanks(m - 1) \in Seq(Drawn) /\ Len(blanks(m - 1)) = m - 1
      BY <1>1, <2>3
    <3>2. blanks(m) \in Seq(Drawn) /\ Len(blanks(m)) = m
      BY <1>1, <2>3
    <3> DEFINE more == Append(blanks(m - 1), Blank)
    <3>3. /\ more \in Seq(Drawn) /\ Len(more) = m /\ more[m] = Blank
          /\ \A i \in 1..(m - 1) : more[i] = blanks(m - 1)[i]
      BY <2>3, <3>1, Drawing, AppendProperties
    <3>4. \A i \in 1..m : more[i] = blanks(m)[i]
      BY <2>3, <3>3
    <3> HIDE DEF more, blanks
    <3>5. blanks(m) = more
      BY <3>2, <3>3, <3>4, SeqEqual
    <3> QED
      BY <3>5 DEF more
  <2>5. blanks(m - 1) \in Seq(Drawn)
    BY <1>1, <2>3
  <2> HIDE DEF blanks
  <2>6. Cells(blanks(m)) = (m - 1) + CellWidth[Blank]
    BY <2>3, <2>4, <2>5, CellsOfAppend, Drawing
  <2> QED
    BY <2>1, <2>3, <2>6, RendererAssumption
<1>3. Cells(blanks(n)) = n
  BY <1>2
<1> QED
  BY <1>1, <1>3

(* A line is cut to the cells of the terminal, or filled up to them. *)
LEMMA FittedLine ==
  ASSUME NEW line \in Seq(Drawn), NEW width \in Nat
  PROVE  Cells(fitLine(line, width)) = width
<1> DEFINE cut == Truncate(line, width)
           n == AtLeast0(width - Cells(cut))
           fill == [i \in 1..n |-> Blank]
<1>1. cut \in Seq(Drawn) /\ Cells(cut) <= width
  BY TruncatedLine
<1>2. Cells(cut) \in Nat
  BY <1>1, CellsAreNatural
<1>3. fitLine(line, width) = cut \o fill
  BY DEF fitLine
<1> HIDE DEF cut
<1>4. n \in Nat /\ Cells(cut) + n = width
  BY <1>1, <1>2 DEF AtLeast0
<1> HIDE DEF n
<1>5. fill \in Seq(Drawn) /\ Cells(fill) = n
  BY <1>4, BlanksAreCells
<1> HIDE DEF fill
<1> QED
  BY <1>1, <1>3, <1>4, <1>5, CellsOfConcat

-----------------------------------------------------------------------------
(* The lines of a frame *)

(* One more step of the function that FlattenSeq goes by. *)
Flattens(seqs, n, f) ==
  [i \in 1..n |-> IF i = 1 THEN seqs[i] ELSE f[i - 1] \o seqs[i]]

LEMMA FlatteningExists ==
  ASSUME NEW seqs, NEW n \in Nat
  PROVE  \E f : f = Flattens(seqs, n, f)
<1> DEFINE Bad == {m \in 0..n : ~\E f : f = Flattens(seqs, m, f)}
<1>1. ASSUME Bad # {} PROVE FALSE
  <2>1. PICK m \in Bad : \A k \in Bad : m <= k
    <3>1. Bad \in SUBSET Nat
      OBVIOUS
    <3> QED
      BY <1>1, <3>1, LeastNatural
  <2>2. m # 0
    <3> DEFINE f == [i \in 1..0 |-> 0]
    <3>1. f = Flattens(seqs, 0, f)
      BY DEF Flattens
    <3> QED
      BY <2>1, <3>1
  <2>3. m \in Nat \ {0} /\ m - 1 \in 0..n /\ m - 1 \notin Bad
    BY <2>1, <2>2
  <2>4. PICK f : f = Flattens(seqs, m - 1, f)
    BY <2>3
  <2> DEFINE last == IF m = 1 THEN seqs[m] ELSE f[m - 1] \o seqs[m]
             g    == [i \in 1..m |-> IF i = m THEN last ELSE f[i]]
             v(i) == IF i = 1 THEN seqs[i] ELSE g[i - 1] \o seqs[i]
  <2>5. \A i \in 1..(m - 1) : f[i] = IF i = 1 THEN seqs[i] ELSE f[i - 1] \o seqs[i]
    BY <2>4, Zenon DEF Flattens
  <2>6. ASSUME NEW i \in 1..m PROVE g[i] = v(i)
    <3>1. CASE i = 1
      <4>1. m = 1 => g[1] = seqs[1]
        BY <2>3
      <4>2. m # 1 => 1 \in 1..(m - 1) /\ g[1] = f[1]
        BY <2>3
      <4> QED
        BY <2>5, <3>1, <4>1, <4>2
    <3>2. CASE i # 1 /\ i = m
      <4>1. i - 1 \in 1..m /\ i - 1 # m
        BY <2>3, <3>2
      <4>2. g[i - 1] = f[i - 1]
        BY <4>1
      <4> QED
        BY <3>2, <4>2
    <3>3. CASE i # 1 /\ i # m
      <4>1. i - 1 \in 1..m /\ i - 1 # m /\ i \in 1..(m - 1)
        BY <2>3, <3>3
      <4>2. g[i - 1] = f[i - 1] /\ g[i] = f[i]
        BY <3>3, <4>1
      <4> QED
        BY <2>5, <3>3, <4>1, <4>2
    <3> QED
      BY <3>1, <3>2, <3>3
  <2>7. g = Flattens(seqs, m, g)
    <3>1. Flattens(seqs, m, g) = [i \in 1..m |-> v(i)]
      BY DEF Flattens
    <3>2. \A i \in 1..m : g[i] = v(i)
      BY <2>6
    <3>3. g = [i \in 1..m |-> g[i]]
      OBVIOUS
    <3> HIDE DEF g, v
    <3> QED
      BY <3>1, <3>2, <3>3
  <2> HIDE DEF g
  <2> QED
    BY <2>1, <2>7
<1> QED
  BY <1>1

LEMMA FlattenedSequence ==
  ASSUME NEW S, NEW seqs \in Seq(Seq(S))
  PROVE  FlattenSeq(seqs) \in Seq(S)
<1>0. Len(seqs) \in Nat
  OBVIOUS
<1>1. CASE Len(seqs) = 0
  BY <1>1 DEF FlattenSeq
<1>2. CASE Len(seqs) # 0
  <2> DEFINE n == Len(seqs)
             f == CHOOSE g : g = Flattens(seqs, n, g)
             Bad == {m \in 1..n : f[m] \notin Seq(S)}
  <2>1. FlattenSeq(seqs) = f[n]
    BY <1>2 DEF FlattenSeq, Flattens
  <2>2. f = Flattens(seqs, n, f)
    BY <1>0, FlatteningExists
  <2> HIDE DEF f
  <2>3. \A i \in 1..n : f[i] = IF i = 1 THEN seqs[i] ELSE f[i - 1] \o seqs[i]
    BY <2>2, Zenon DEF Flattens
  <2>4. ASSUME Bad # {} PROVE FALSE
    <3>1. PICK m \in Bad : \A k \in Bad : m <= k
      <4>1. Bad \in SUBSET Nat
        BY <1>0
      <4> QED
        BY <2>4, <4>1, LeastNatural
    <3>2. seqs[m] \in Seq(S)
      BY <3>1, ElementOfSeq
    <3>3. m # 1
      BY <2>3, <3>1, <3>2
    <3>4. m \in 1..n /\ m - 1 \in 1..n /\ m - 1 \notin Bad
      BY <1>0, <3>1, <3>3
    <3>5. f[m] = f[m - 1] \o seqs[m]
      BY <2>3, <3>3, <3>4
    <3>6. f[m - 1] \o seqs[m] \in Seq(S)
      BY <3>2, <3>4, ConcatProperties
    <3> QED
      BY <3>1, <3>5, <3>6
  <2>5. n \in 1..n
    BY <1>0, <1>2
  <2> QED
    BY <2>1, <2>4, <2>5
<1> QED
  BY <1>1, <1>2

LEMMA BodyIsDrawn == semanticBody \in Seq(Seq(Drawn))
<1> DEFINE Lines == Seq(Drawn)
           section(s) == <<s.title \o Colon \o Head(s.body)>>
                           \o [i \in 1..(Len(s.body) - 1) |-> Indent \o s.body[i + 1]]
           item(lines) == [i \in DOMAIN lines |-> Bullet \o lines[i]]
           sections == [i \in DOMAIN Sections |-> section(Sections[i])]
           items == [i \in DOMAIN Activity |-> item(Activity[i])]
<1>1. /\ Colon \in Lines /\ Indent \in Lines /\ Bullet \in Lines /\ Heading \in Lines
      /\ Sections \in Seq([title : Lines, body : Seq(Lines) \ {<< >>}])
      /\ Activity \in Seq(Seq(Lines))
  BY RendererAssumption
<1>2. \A s, t \in Lines : s \o t \in Lines
  BY ConcatProperties
<1> HIDE DEF Lines
<1>3. ASSUME NEW s \in [title : Lines, body : Seq(Lines) \ {<< >>}] PROVE section(s) \in Seq(Lines)
  <2>1. s.title \in Lines /\ s.body \in Seq(Lines) /\ s.body # << >>
    OBVIOUS
  <2>2. Head(s.body) \in Lines /\ Len(s.body) \in Nat \ {0}
    BY <2>1, HeadTailProperties, EmptySeq
  <2>3. <<s.title \o Colon \o Head(s.body)>> \in Seq(Lines)
    BY <1>1, <1>2, <2>1, <2>2
  <2> DEFINE n == Len(s.body) - 1
             rest == [i \in 1..n |-> Indent \o s.body[i + 1]]
  <2>4. n \in Nat /\ \A i \in 1..n : i + 1 \in 1..Len(s.body)
    BY <2>2
  <2>5. \A i \in 1..n : Indent \o s.body[i + 1] \in Lines
    BY <1>1, <1>2, <2>1, <2>4, ElementOfSeq
  <2>6. rest \in Seq(Lines)
    <3> HIDE DEF n
    <3> QED
      BY <2>4, <2>5
  <2> QED
    BY <2>3, <2>6, ConcatProperties
<1>4. ASSUME NEW lines \in Seq(Lines) PROVE item(lines) \in Seq(Lines)
  <2>1. DOMAIN lines = 1..Len(lines) /\ Len(lines) \in Nat
    OBVIOUS
  <2>2. \A i \in 1..Len(lines) : Bullet \o lines[i] \in Lines
    BY <1>1, <1>2, ElementOfSeq
  <2> QED
    BY <2>1, <2>2
<1> HIDE DEF section, item
<1>5. sections \in Seq(Seq(Lines))
  <2>1. DOMAIN Sections = 1..Len(Sections) /\ Len(Sections) \in Nat
    BY <1>1, LenProperties
  <2>2. \A i \in 1..Len(Sections) : section(Sections[i]) \in Seq(Lines)
    BY <1>1, <1>3, ElementOfSeq
  <2> QED
    BY <2>1, <2>2
<1>6. items \in Seq(Seq(Lines))
  <2>1. DOMAIN Activity = 1..Len(Activity) /\ Len(Activity) \in Nat
    BY <1>1, LenProperties
  <2>2. \A i \in 1..Len(Activity) : item(Activity[i]) \in Seq(Lines)
    BY <1>1, <1>4, ElementOfSeq
  <2> QED
    BY <2>1, <2>2
<1>7. semanticBody = FlattenSeq(sections)
                       \o (IF Activity = << >> THEN << >> ELSE <<Heading>>)
                       \o FlattenSeq(items)
  BY DEF semanticBody, section, item
<1> HIDE DEF sections, items
<1>8. FlattenSeq(sections) \in Seq(Lines) /\ FlattenSeq(items) \in Seq(Lines)
  BY <1>5, <1>6, FlattenedSequence
<1>9. (IF Activity = << >> THEN << >> ELSE <<Heading>>) \in Seq(Lines)
  BY <1>1
<1>10. semanticBody \in Seq(Lines)
  BY <1>7, <1>8, <1>9, ConcatProperties
<1> QED
  BY <1>10 DEF Lines

-----------------------------------------------------------------------------
(* The line of the prompt *)

(* The cursor is within the text, on a boundary or not. *)
CursorInText == editor.cursor \in 0..Len(editor.value)

LEMMA CursorStaysInText == Spec => []CursorInText
<1>1. Init => CursorInText
  BY DEF Init, CursorInText, ZeroEditor
<1>2. TypeOK /\ CursorInText /\ [Next]_editor => CursorInText'
  <2> SUFFICES ASSUME TypeOK, CursorInText, [Next]_editor
               PROVE  CursorInText'
    OBVIOUS
  <2>1. ASSUME NEW ed \in Editor, ValidEditor(ed) PROVE ed.cursor \in 0..Len(ed.value)
    BY <2>1, BoundariesAreOffsets DEF Editor, ValidEditor, OnBoundary
  <2>2. ASSUME NEW text \in Typed, TypeText(text)
        PROVE  CursorInText'
    <3>1. editor' \in Editor /\ ValidEditor(editor')
      BY <2>2, TypedAssumption, InsertSound DEF TypeText, TypeOK
    <3> QED
      BY <2>1, <3>1 DEF CursorInText
  <2>3. ASSUME NEW direction \in Moves, MoveCursor(direction)
        PROVE  CursorInText'
    <3>1. editor' \in Editor /\ ValidEditor(editor')
      BY <2>3, MoveSound DEF MoveCursor, TypeOK
    <3> QED
      BY <2>1, <3>1 DEF CursorInText
  <2>4. CASE DeleteBack
    <3>1. CASE ~ValidEditor(editor)
      BY <2>4, <3>1 DEF DeleteBack, Backspace, ZeroEditor, CursorInText
    <3>2. CASE ValidEditor(editor) /\ editor.cursor = 0
      BY <2>4, <3>2 DEF DeleteBack, Backspace, CursorInText
    <3>3. CASE ValidEditor(editor) /\ editor.cursor # 0
      <4> DEFINE text   == editor.value
                 cursor == editor.cursor
                 start  == PreviousBoundary(text, cursor)
      <4>1. text \in Text /\ Len(text) \in Nat /\ cursor \in 1..Len(text) /\ cursor \in Boundaries(text)
        BY <3>3 DEF TypeOK, Editor, Text, CursorInText, ValidEditor, OnBoundary
      <4>2. editor' = [value |-> Cut(text, start, cursor), cursor |-> start]
        BY <2>4, <3>3 DEF DeleteBack, Backspace
      <4> HIDE DEF text, cursor
      <4>3. start \in 0..(cursor - 1)
        BY <4>1, PreviousBoundaryIsBoundary
      <4> HIDE DEF start
      <4>4. start \in 0..cursor /\ cursor \in 0..Len(text)
        BY <4>1, <4>3
      <4>5. Len(Cut(text, start, cursor)) = Len(text) - (cursor - start)
        BY <4>1, <4>4, CutProperties
      <4> QED
        BY <4>1, <4>2, <4>3, <4>5 DEF CursorInText
    <3> QED
      BY <3>1, <3>2, <3>3
  <2>5. ASSUME NEW text \in Typed, Recall(text)
        PROVE  CursorInText'
    <3>1. Len(text) \in Nat
      BY TypedAssumption DEF Text
    <3> QED
      BY <2>5, <3>1 DEF Recall, NewEditor, CursorInText
  <2>6. CASE UNCHANGED editor
    BY <2>6 DEF CursorInText
  <2> QED
    BY <2>2, <2>3, <2>4, <2>5, <2>6 DEF Next
<1> QED
  BY <1>1, <1>2, EditingTypeCorrect, PTL DEF Spec

LEMMA StretchOfStretch ==
  ASSUME NEW line \in Seq(Drawn), NEW m \in 1..(Len(line) + 1), NEW n \in (m - 1)..Len(line),
         NEW j \in 1..(n - m + 2), NEW k \in (j - 1)..(n - m + 1)
  PROVE  SubSeq(SubSeq(line, m, n), j, k) = SubSeq(line, m + j - 1, m + k - 1)
<1>0. Len(line) \in Nat /\ m \in Nat /\ n \in Nat /\ j \in Nat /\ k \in Nat
  OBVIOUS
<1>1. CASE k < j
  <2>1. m + j - 1 \in Int /\ m + k - 1 \in Int /\ m + k - 1 < m + j - 1
    BY <1>0, <1>1
  <2>2. SubSeq(SubSeq(line, m, n), j, k) = << >>
    BY <1>0, <1>1, SubSeqEmpty
  <2>3. SubSeq(line, m + j - 1, m + k - 1) = << >>
    BY <2>1, SubSeqEmpty
  <2> QED
    BY <2>2, <2>3
<1>2. CASE ~(k < j)
  <2>1. m \in 1..Len(line) /\ n \in 1..Len(line) /\ j \in 1..(n - m + 1) /\ k \in 1..(n - m + 1)
    BY <1>0, <1>2
  <2> QED
    BY <2>1, SubSeqOfSubSeq
<1> QED
  BY <1>1, <1>2

LEMMA RestOfConcat ==
  ASSUME NEW line \in Seq(Drawn), NEW rest \in Seq(Drawn)
  PROVE  SubSeq(line \o rest, Len(line) + 1, Len(line \o rest)) = rest
<1>1. /\ Len(line) \in Nat /\ Len(rest) \in Nat
      /\ line \o rest \in Seq(Drawn) /\ Len(line \o rest) = Len(line) + Len(rest)
  BY ConcatProperties
<1>2. CASE Len(rest) = 0
  <2>1. Len(line) + 1 \in Int /\ Len(line \o rest) \in Int /\ Len(line \o rest) < Len(line) + 1
    BY <1>1, <1>2
  <2>2. rest = << >>
    BY <1>2, EmptySeq
  <2> QED
    BY <2>1, <2>2, SubSeqEmpty
<1>3. CASE Len(rest) # 0
  <2>1. /\ Len(line) + 1 \in (Len(line) + 1)..(Len(line) + Len(rest))
        /\ Len(line) + Len(rest) \in (Len(line) + 1)..(Len(line) + Len(rest))
    BY <1>1, <1>3
  <2>2. SubSeq(line \o rest, Len(line) + 1, Len(line) + Len(rest))
          = SubSeq(rest, (Len(line) + 1) - Len(line), (Len(line) + Len(rest)) - Len(line))
    BY <2>1, SubSeqOfConcat2
  <2>3. (Len(line) + 1) - Len(line) = 1 /\ (Len(line) + Len(rest)) - Len(line) = Len(rest)
    BY <1>1
  <2> QED
    BY <1>1, <2>2, <2>3, SubSeqFull
<1> QED
  BY <1>2, <1>3

LEMMA LabelIsDrawn ==
  ASSUME NEW width \in Nat
  PROVE  /\ Label \in Seq(Drawn) /\ Cells(Label) = 2
         /\ Available(width) = IF width > 2 THEN width - 2 ELSE 0
BY RendererAssumption DEF Available, AtLeast0

(* The text before the cursor is shown from a place on: all of it, or as    *)
(* much as leaves one cell, or one cell more if the first rune is wide.     *)
LEMMA VisiblePrefix ==
  ASSUME NEW ed \in Editor, ed.cursor \in 0..Len(ed.value),
         NEW width \in Nat, width > 2
  PROVE  \E first \in 0..ed.cursor :
           /\ visiblePrefix(ed, width) = SubSeq(ed.value, first + 1, ed.cursor)
           /\ Cells(SubSeq(ed.value, first + 1, ed.cursor)) <= width - 2
           /\ first > 0 => Cells(SubSeq(ed.value, first + 1, ed.cursor)) >= width - 3
           /\ Cells(SubSeq(ed.value, first + 1, ed.cursor)) = width - 2
                => CellWidth[ed.value[first + 1]] = 2
<1> DEFINE text == ed.value
           cursor == ed.cursor
           prefix == SubSeq(text, 1, cursor)
           cells == Cells(prefix) - (width - 3)
           shown(k) == SubSeq(text, k + 1, cursor)
<1>1. text \in Seq(Drawn) /\ Len(text) \in Nat /\ cursor \in 0..Len(text)
  BY Drawing DEF Editor
<1>2. Available(width) = width - 2 /\ AtLeast0(Available(width) - 1) = width - 3
  BY LabelIsDrawn DEF AtLeast0
<1>3. visiblePrefix(ed, width) = IF Cells(prefix) < width - 2 THEN prefix ELSE TruncateLeft(prefix, cells)
  BY <1>2 DEF visiblePrefix
<1> SUFFICES \E first \in 0..cursor :
               /\ visiblePrefix(ed, width) = shown(first)
               /\ Cells(shown(first)) <= width - 2
               /\ first > 0 => Cells(shown(first)) >= width - 3
               /\ Cells(shown(first)) = width - 2 => CellWidth[text[first + 1]] = 2
  OBVIOUS
<1> HIDE DEF text, cursor
<1>4. /\ prefix \in Seq(Drawn) /\ Len(prefix) = cursor
      /\ \A k \in 1..cursor : prefix[k] = text[k]
  <2>1. 1 \in Int /\ cursor \in Int /\ \A k \in 1..cursor : text[k] \in Drawn
    BY <1>1, ElementOfSeq
  <2>2. /\ prefix \in Seq(Drawn)
        /\ Len(prefix) = IF 1 <= cursor THEN cursor - 1 + 1 ELSE 0
        /\ \A k \in 1..(cursor - 1 + 1) : prefix[k] = text[1 + k - 1]
    BY <2>1, SubSeqProperties
  <2> QED
    BY <1>1, <2>2
<1>5. Cells(prefix) \in Nat /\ SubSeq(prefix, 1, cursor) = prefix
  BY <1>4, CellsAreNatural, SubSeqFull
<1>6. CASE Cells(prefix) < width - 2
  <2>1. visiblePrefix(ed, width) = prefix
    BY <1>3, <1>6
  <2>2. 0 \in 0..cursor /\ shown(0) = prefix
    BY <1>1
  <2> HIDE DEF shown, prefix
  <2> QED
    BY <1>5, <1>6, <2>1, <2>2
<1>7. CASE ~(Cells(prefix) < width - 2)
  <2> DEFINE first == Fitting(prefix, cells)
  <2>1. cells \in Nat /\ cells > 0 /\ Cells(prefix) = cells + (width - 3)
    BY <1>5, <1>7
  <2> HIDE DEF cells
  <2>2. visiblePrefix(ed, width) = SubSeq(prefix, first + 1, Len(prefix))
    <3>1. visiblePrefix(ed, width) = TruncateLeft(prefix, cells)
      BY <1>3, <1>7
    <3>2. ~(cells <= 0)
      BY <2>1
    <3> HIDE DEF prefix
    <3> QED
      BY <3>1, <3>2 DEF TruncateLeft
  <2>3. /\ first \in 0..cursor
        /\ Cells(SubSeq(prefix, 1, first)) <= cells
        /\ first < cursor => Cells(SubSeq(prefix, 1, first + 1)) > cells
    BY <1>4, <2>1, FittingIsGreatest
  <2> HIDE DEF first
  <2>4. SubSeq(prefix, first + 1, Len(prefix)) = shown(first)
    <3>1. /\ 1 \in 1..(Len(text) + 1) /\ cursor \in (1 - 1)..Len(text)
          /\ first + 1 \in 1..(cursor - 1 + 2) /\ cursor \in ((first + 1) - 1)..(cursor - 1 + 1)
      BY <1>1, <2>3
    <3>2. SubSeq(prefix, first + 1, cursor) = SubSeq(text, 1 + (first + 1) - 1, 1 + cursor - 1)
      BY <1>1, <3>1, StretchOfStretch
    <3>3. 1 + (first + 1) - 1 = first + 1 /\ 1 + cursor - 1 = cursor
      BY <1>1, <2>3
    <3> QED
      BY <1>4, <3>2, <3>3
  <2> DEFINE before == Cells(shown(first))
             skipped == Cells(SubSeq(prefix, 1, first))
  <2>5. before \in Nat /\ skipped \in Nat /\ skipped + before = cells + (width - 3)
    <3>1. cursor \in 0..Len(prefix)
      BY <1>1, <1>4
    <3>2. /\ SubSeq(prefix, 1, first) \in Seq(Drawn) /\ SubSeq(prefix, first + 1, cursor) \in Seq(Drawn)
          /\ Cells(SubSeq(prefix, 1, cursor))
               = Cells(SubSeq(prefix, 1, first)) + Cells(SubSeq(prefix, first + 1, cursor))
      BY <1>4, <2>3, <3>1, CellsOfFront
    <3>3. SubSeq(prefix, first + 1, cursor) = shown(first)
      BY <1>4, <2>4
    <3>4. skipped \in Nat /\ before \in Nat
      BY <3>2, <3>3, CellsAreNatural
    <3> QED
      BY <1>5, <2>1, <3>2, <3>3, <3>4
  <2>6. ASSUME first < cursor
        PROVE  CellWidth[text[first + 1]] \in 0..2 /\ skipped + CellWidth[text[first + 1]] > cells
    <3>1. first \in 0..(Len(prefix) - 1) /\ first + 1 \in 1..cursor
      BY <1>1, <1>4, <2>3, <2>6
    <3>2. /\ CellWidth[prefix[first + 1]] \in 0..2
          /\ Cells(SubSeq(prefix, 1, first + 1)) = skipped + CellWidth[prefix[first + 1]]
      BY <1>4, <3>1, CellsOfNextRune
    <3>3. prefix[first + 1] = text[first + 1]
      BY <1>4, <3>1
    <3> QED
      BY <2>3, <2>6, <3>2, <3>3
  <2>7. ASSUME ~(first < cursor) PROVE before = 0
    <3>1. first = cursor
      BY <1>1, <2>3, <2>7
    <3>2. shown(first) = << >>
      BY <1>1, <3>1, SubSeqEmpty
    <3> QED
      BY <3>2, CellsAreNatural, EmptySeq
  <2>8. skipped <= cells
    BY <2>3
  <2>9. visiblePrefix(ed, width) = shown(first)
    BY <2>2, <2>4
  <2> SUFFICES before <= width - 2 /\ before >= width - 3
                 /\ (before = width - 2 => CellWidth[text[first + 1]] = 2)
    BY <2>3, <2>9
  <2> HIDE DEF before, skipped
  <2>10. before >= width - 3
    BY <2>1, <2>5, <2>8
  <2>11. CASE first < cursor
    <3> DEFINE w == CellWidth[text[first + 1]]
    <3>1. w \in 0..2 /\ skipped + w > cells
      BY <2>6, <2>11
    <3> HIDE DEF w
    <3>2. before <= width - 2 /\ (before = width - 2 => w = 2)
      BY <2>1, <2>5, <3>1
    <3> QED
      BY <2>10, <3>2 DEF w
  <2>12. CASE ~(first < cursor)
    BY <2>7, <2>10, <2>12
  <2> QED
    BY <2>11, <2>12
<1> QED
  BY <1>6, <1>7

(* The line of the prompt can be drawn and the cursor is on the terminal. *)
LEMMA PromptIsDrawn ==
  ASSUME NEW ed \in Editor, ed.cursor \in 0..Len(ed.value), NEW width \in Nat \ {0}
  PROVE  renderPrompt(ed, width).line \in Seq(Drawn) /\ renderPrompt(ed, width).cursorX \in 0..(width - 1)
<1>1. CASE width <= 2
  <2>1. Available(width) = 0 /\ AtLeast0(width - 1) = width - 1
    BY <1>1, LabelIsDrawn DEF AtLeast0
  <2>2. renderPrompt(ed, width) = [line |-> Label, cursorX |-> width - 1]
    BY <2>1 DEF renderPrompt
  <2> QED
    BY <2>2, LabelIsDrawn
<1>2. CASE width > 2
  <2> DEFINE prefix == visiblePrefix(ed, width)
             suffix == SubSeq(ed.value, ed.cursor + 1, Len(ed.value))
             content == Truncate(prefix \o suffix, Available(width))
             end == 2 + Cells(prefix)
  <2>1. ed.value \in Seq(Drawn) /\ Len(ed.value) \in Nat
    BY Drawing DEF Editor
  <2>2. Available(width) = width - 2 /\ Available(width) \in Nat /\ Available(width) # 0
    BY <1>2, LabelIsDrawn
  <2>3. PICK first \in 0..ed.cursor : prefix = SubSeq(ed.value, first + 1, ed.cursor)
    BY <1>2, VisiblePrefix
  <2>4. prefix \in Seq(Drawn)
    <3>1. first + 1 \in 1..(Len(ed.value) + 1) /\ ed.cursor \in ((first + 1) - 1)..Len(ed.value)
      BY <2>1, <2>3
    <3> QED
      BY <2>1, <2>3, <3>1, StretchOfLine
  <2>5. suffix \in Seq(Drawn)
    <3>1. /\ ed.cursor + 1 \in 1..(Len(ed.value) + 1)
          /\ Len(ed.value) \in ((ed.cursor + 1) - 1)..Len(ed.value)
      BY <2>1
    <3> QED
      BY <2>1, <3>1, StretchOfLine
  <2>6. renderPrompt(ed, width) = [line |-> Label \o content, cursorX |-> IF end < width THEN end ELSE width - 1]
    BY <2>2, LabelIsDrawn DEF renderPrompt
  <2> HIDE DEF prefix, suffix
  <2>7. prefix \o suffix \in Seq(Drawn)
    BY <2>4, <2>5, ConcatProperties
  <2>8. content \in Seq(Drawn)
    BY <2>2, <2>7, TruncatedLine
  <2>9. end \in Nat
    BY <2>4, CellsAreNatural
  <2> HIDE DEF content, end
  <2>10. Label \o content \in Seq(Drawn)
    BY <2>8, LabelIsDrawn, ConcatProperties
  <2>11. (IF end < width THEN end ELSE width - 1) \in 0..(width - 1)
    BY <2>9
  <2> QED
    BY <2>6, <2>10, <2>11
<1> QED
  BY <1>1, <1>2

(* Whatever the prompt and however small the terminal, a frame has the      *)
(* lines and the cells of the terminal, wide runes that do not fit and      *)
(* marks without a cell included, and its cursor is inside it               *)
(* (renderer.go:54-61, 174-177; values.go:386).                             *)
THEOREM FramesAreExact == Spec => []FrameIsExact
<1>1. TypeOK /\ CursorInText => FrameIsExact
  <2> SUFFICES ASSUME TypeOK, CursorInText, NEW width \in 1..Width, NEW height \in 1..Height
               PROVE  LET frame == Render(editor, width, height)
                      IN  /\ \A y \in 0..(height - 1) : Cells(frame.lines[y]) = width
                          /\ ValidFrame(frame, width, height)
    BY DEF FrameIsExact
  <2> DEFINE frame   == Render(editor, width, height)
             prompt  == renderPrompt(editor, width)
             bodyEnd == IF height >= 3 THEN height - 2 ELSE 1
             line(y) == IF y = 0 THEN Title
                        ELSE IF y < bodyEnd THEN (IF y <= Len(semanticBody) THEN semanticBody[y] ELSE << >>)
                        ELSE IF y = height - 1 THEN Status ELSE prompt.line
             lines   == [y \in 0..(height - 1) |-> fitLine(line(y), width)]
  <2>1. width \in Nat \ {0} /\ height \in Nat \ {0}
    BY ScreenAssumption
  <2>2. prompt.line \in Seq(Drawn) /\ prompt.cursorX \in 0..(width - 1)
    BY <2>1, PromptIsDrawn DEF TypeOK, CursorInText
  <2>3. frame = [lines   |-> lines,
                 visible |-> height >= 3,
                 cursorX |-> IF height >= 3 THEN prompt.cursorX ELSE 0,
                 cursorY |-> IF height >= 3 THEN bodyEnd ELSE 0]
    BY DEF Render
  <2>4. ASSUME NEW y \in 0..(height - 1) PROVE line(y) \in Seq(Drawn)
    <3>1. Title \in Seq(Drawn) /\ Status \in Seq(Drawn) /\ << >> \in Seq(Drawn)
      BY RendererAssumption, EmptySeq
    <3>2. ASSUME y # 0, y <= Len(semanticBody) PROVE semanticBody[y] \in Seq(Drawn)
      <4>1. y \in 1..Len(semanticBody)
        <5>1. Len(semanticBody) \in Nat
          BY BodyIsDrawn, LenProperties
        <5> QED
          BY <2>1, <3>2, <5>1
      <4> QED
        BY <4>1, BodyIsDrawn, ElementOfSeq
    <3> QED
      BY <2>2, <3>1, <3>2
  <2> HIDE DEF line
  <2>5. ASSUME NEW y \in 0..(height - 1) PROVE Cells(frame.lines[y]) = width
    <3>1. frame.lines[y] = fitLine(line(y), width)
      BY <2>3
    <3> HIDE DEF frame
    <3> QED
      BY <2>1, <2>4, <3>1, FittedLine
  <2>6. ValidFrame(frame, width, height)
    <3> HIDE DEF lines, prompt
    <3>1. /\ frame.visible = (height >= 3)
          /\ frame.cursorX = IF height >= 3 THEN prompt.cursorX ELSE 0
          /\ frame.cursorY = IF height >= 3 THEN bodyEnd ELSE 0
      BY <2>3
    <3> HIDE DEF frame
    <3>2. CASE height >= 3
      <4>1. frame.cursorX \in 0..(width - 1) /\ frame.cursorY \in 0..(height - 1)
        BY <2>1, <2>2, <3>1, <3>2
      <4> QED
        BY <4>1 DEF ValidFrame
    <3>3. CASE ~(height >= 3)
      BY <3>1, <3>3 DEF ValidFrame
    <3> QED
      BY <3>2, <3>3
  <2> QED
    BY <2>5, <2>6
<1> QED
  BY <1>1, EditingTypeCorrect, CursorStaysInText, PTL

(* What is shown of a long prompt is one stretch of it that reaches the     *)
(* cursor and wastes no cell before it, and the cursor stands in the cell   *)
(* after the text before it, or one cell short on a wide rune at the left   *)
(* edge (renderer.go:129-142).                                              *)
THEOREM CursorIsShownAtText == Spec => []CursorIsAtText
<1>1. TypeOK /\ CursorInText => CursorIsAtText
  <2> SUFFICES ASSUME TypeOK, CursorInText, NEW width \in 3..Width
               PROVE  LET prompt == renderPrompt(editor, width)
                          shown  == SubSeq(prompt.line, Len(Label) + 1, Len(prompt.line))
                      IN  \E first \in 0..editor.cursor :
                            LET before == Cells(SubSeq(editor.value, first + 1, editor.cursor))
                            IN  /\ first + Len(shown) \in editor.cursor..Len(editor.value)
                                /\ shown = SubSeq(editor.value, first + 1, first + Len(shown))
                                /\ first > 0 => before >= Available(width) - 1
                                /\ \/ prompt.cursorX = Cells(Label) + before
                                   \/ /\ before = Available(width) /\ prompt.cursorX = width - 1
                                      /\ CellWidth[editor.value[first + 1]] = 2
    BY DEF CursorIsAtText
  <2> DEFINE prompt == renderPrompt(editor, width)
             shown  == SubSeq(prompt.line, Len(Label) + 1, Len(prompt.line))
             text   == editor.value
             cursor == editor.cursor
             prefix == visiblePrefix(editor, width)
             suffix == SubSeq(text, cursor + 1, Len(text))
             end    == 2 + Cells(prefix)
  <2>1. /\ text \in Seq(Drawn) /\ Len(text) \in Nat /\ cursor \in 0..Len(text)
        /\ width \in Nat /\ width > 2
    BY Drawing, ScreenAssumption DEF TypeOK, Editor, CursorInText
  <2>2. Available(width) = width - 2 /\ Label \in Seq(Drawn) /\ Cells(Label) = 2
    BY <2>1, LabelIsDrawn
  <2>3. PICK first \in 0..cursor :
           /\ prefix = SubSeq(text, first + 1, cursor)
           /\ Cells(SubSeq(text, first + 1, cursor)) <= width - 2
           /\ first > 0 => Cells(SubSeq(text, first + 1, cursor)) >= width - 3
           /\ Cells(SubSeq(text, first + 1, cursor)) = width - 2 => CellWidth[text[first + 1]] = 2
    BY <2>1, VisiblePrefix DEF TypeOK
  <2> DEFINE rest == SubSeq(text, first + 1, Len(text))
             fits == Fitting(rest, width - 2)
             content == SubSeq(rest, 1, fits)
             before == Cells(SubSeq(text, first + 1, cursor))
  <2>4. /\ prompt.line = Label \o Truncate(prefix \o suffix, width - 2)
        /\ prompt.cursorX = IF end < width THEN end ELSE width - 1
    <3>1. Available(width) # 0
      BY <2>1, <2>2
    <3> QED
      BY <2>2, <3>1 DEF renderPrompt
  <2> HIDE DEF prompt
  <2>5. prefix \o suffix = rest
    <3>1. first + 1 \in 1..(Len(text) + 1) /\ cursor \in ((first + 1) - 1)..Len(text) /\ Len(text) \in cursor..Len(text)
      BY <2>1, <2>3
    <3>2. SubSeq(text, first + 1, cursor) \o SubSeq(text, cursor + 1, Len(text)) = SubSeq(text, first + 1, Len(text))
      BY <2>1, <3>1, ConcatAdjacentSubSeq
    <3> QED
      BY <2>3, <3>2
  <2> HIDE DEF text, cursor
  <2>6. /\ first + 1 \in 1..(Len(text) + 1) /\ Len(text) \in ((first + 1) - 1)..Len(text)
        /\ rest \in Seq(Drawn) /\ Len(rest) = Len(text) - first
    <3>1. first + 1 \in 1..(Len(text) + 1) /\ Len(text) \in ((first + 1) - 1)..Len(text)
      BY <2>1, <2>3
    <3>2. rest \in Seq(Drawn) /\ Len(rest) = Len(text) - (first + 1) + 1
      BY <2>1, <3>1, StretchOfLine
    <3> QED
      BY <2>1, <2>3, <3>1, <3>2
  <2>7. prompt.line = Label \o content
    BY <2>4, <2>5 DEF Truncate
  <2>8. /\ fits \in 0..Len(rest)
        /\ fits < Len(rest) => Cells(SubSeq(rest, 1, fits + 1)) > width - 2
    <3>1. width - 2 \in Nat
      BY <2>1
    <3> HIDE DEF rest
    <3> QED
      BY <2>6, <3>1, FittingIsGreatest
  <2> HIDE DEF fits
  <2>9. \A k \in 0..Len(rest) : SubSeq(rest, 1, k) = SubSeq(text, first + 1, first + k)
    <3> TAKE k \in 0..Len(rest)
    <3>1. 1 \in 1..(Len(text) - (first + 1) + 2) /\ k \in (1 - 1)..(Len(text) - (first + 1) + 1)
      BY <2>1, <2>3, <2>6
    <3>2. SubSeq(rest, 1, k) = SubSeq(text, (first + 1) + 1 - 1, (first + 1) + k - 1)
      BY <2>1, <2>6, <3>1, StretchOfStretch
    <3>3. (first + 1) + 1 - 1 = first + 1 /\ (first + 1) + k - 1 = first + k
      BY <2>3
    <3> QED
      BY <3>2, <3>3
  <2>10. content \in Seq(Drawn) /\ Len(content) = fits
    <3>1. 1 \in 1..(Len(rest) + 1) /\ fits \in (1 - 1)..Len(rest) /\ fits - 1 + 1 = fits
      BY <2>1, <2>3, <2>6, <2>8
    <3> QED
      BY <2>6, <3>1, StretchOfLine
  <2>11. shown = content
    BY <2>2, <2>7, <2>10, RestOfConcat
  <2>12. cursor - first \in 0..Len(rest) /\ SubSeq(rest, 1, cursor - first) = SubSeq(text, first + 1, cursor)
    <3>1. cursor - first \in 0..Len(rest) /\ first + (cursor - first) = cursor
      BY <2>1, <2>3, <2>6
    <3> QED
      BY <2>9, <3>1
  <2>13. fits >= cursor - first
    <3> SUFFICES ASSUME fits < cursor - first PROVE FALSE
      BY <2>1, <2>3, <2>8
    <3>1. fits + 1 \in 0..(cursor - first) /\ fits < Len(rest)
      BY <2>1, <2>3, <2>6, <2>8
    <3>2. /\ SubSeq(rest, 1, fits + 1) \in Seq(Drawn)
          /\ Cells(SubSeq(rest, 1, fits + 1)) <= Cells(SubSeq(rest, 1, cursor - first))
      BY <2>6, <2>12, <3>1, CellsOfFront
    <3>3. Cells(SubSeq(rest, 1, fits + 1)) \in Nat /\ before \in Nat
      <4>1. first + 1 \in 1..(Len(text) + 1) /\ cursor \in ((first + 1) - 1)..Len(text)
        BY <2>1, <2>3
      <4>2. SubSeq(text, first + 1, cursor) \in Seq(Drawn)
        BY <2>1, <4>1, StretchOfLine
      <4> QED
        BY <3>2, <4>2, CellsAreNatural
    <3>4. before <= width - 2 /\ Cells(SubSeq(rest, 1, cursor - first)) = before
      BY <2>3, <2>12
    <3>5. Cells(SubSeq(rest, 1, fits + 1)) > width - 2
      BY <2>8, <3>1
    <3>6. \A i, j, k \in Int : ~(i <= j /\ j <= k /\ i > k)
      OBVIOUS
    <3> HIDE DEF before, rest
    <3> QED
      BY <2>1, <3>2, <3>3, <3>4, <3>5, <3>6
  <2>14. first + fits \in cursor..Len(text)
    BY <2>1, <2>3, <2>6, <2>8, <2>13
  <2>15. shown = SubSeq(text, first + 1, first + Len(shown)) /\ first + Len(shown) \in cursor..Len(text)
    BY <2>8, <2>9, <2>10, <2>11, <2>14
  <2>16. \/ prompt.cursorX = 2 + before
         \/ before = width - 2 /\ prompt.cursorX = width - 1 /\ CellWidth[text[first + 1]] = 2
    <3>1. before \in Nat
      <4>1. first + 1 \in 1..(Len(text) + 1) /\ cursor \in ((first + 1) - 1)..Len(text)
        BY <2>1, <2>3
      <4> QED
        BY <2>1, <4>1, StretchOfLine, CellsAreNatural
    <3>2. prompt.cursorX = IF 2 + before < width THEN 2 + before ELSE width - 1
      BY <2>3, <2>4
    <3>3. before <= width - 2 /\ (before = width - 2 => CellWidth[text[first + 1]] = 2)
      BY <2>3
    <3> HIDE DEF before
    <3> QED
      BY <2>1, <3>1, <3>2, <3>3
  <2>17. first > 0 => before >= Available(width) - 1
    <3>1. (width - 2) - 1 = width - 3
      BY <2>1
    <3> QED
      BY <2>2, <2>3, <3>1
  <2>18. /\ first + Len(shown) \in cursor..Len(text)
         /\ shown = SubSeq(text, first + 1, first + Len(shown))
         /\ first > 0 => before >= Available(width) - 1
         /\ \/ prompt.cursorX = Cells(Label) + before
            \/ /\ before = Available(width) /\ prompt.cursorX = width - 1
               /\ CellWidth[text[first + 1]] = 2
    <3> HIDE DEF shown, before
    <3> QED
      BY <2>2, <2>15, <2>16, <2>17
  <2> QED
    BY <2>3, <2>18 DEF prompt, text, cursor
<1> QED
  BY <1>1, EditingTypeCorrect, CursorStaysInText, PTL
=============================================================================

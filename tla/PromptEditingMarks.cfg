SPECIFICATION Spec
CONSTANTS
  a = a
  mark = mark
  wide = wide
  consonant = consonant
  vowel = vowel
  blank = blank
  sign = sign
  CellWidth <- Widths
  Blank = blank
  Label <- Prompt
  Indent <- Prompt
  Bullet <- Prompt
  Colon <- Prompt
  Heading <- Mark
  Title <- Line
  Status <- Line
  Sections <- Parts
  Activity <- Items
  Width = 12
  Height = 8
  Rune <- MarkRunes
  Glued <- MarkGlued
  Typed <- MarkTyped
  MaxPrompt = 5
INVARIANTS CursorOnBoundary MovesAreInverse FrameIsExact CursorIsAtText
PROPERTY BackspaceTakesOneCharacter

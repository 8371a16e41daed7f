SPECIFICATION Spec
CONSTANTS
  a = a
  mark = mark
  wide = wide
  consonant = consonant
  vowel = vowel
  blank = blank
  sign = sign
  CellWidth <- Widths
  Blank = blank
  Label <- Prompt
  Indent <- Prompt
  Bullet <- Prompt
  Colon <- Prompt
  Heading <- Mark
  Title <- Line
  Status <- Line
  Sections <- Parts
  Activity <- Items
  Width = 7
  Height = 5
  Rune <- HangulRunes
  Glued <- HangulGlued
  Typed <- HangulTyped
  MaxPrompt = 4
INVARIANT CursorOnBoundary

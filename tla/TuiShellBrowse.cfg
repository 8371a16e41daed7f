SPECIFICATION OpenSpec
CONSTANTS
  a = a
  b = b
  i1 = i1
  i2 = i2
  ws = ws
  ready = ready
  failed = failed
  done = done
  Rune <- Runes
  Glued <- NoGlue
  MaxPrompt = 2
  Workspace = {ws}
  Status = {ready, failed}
  Item = {i1, i2}
  Weight <- Weights
  InitialWorkspace = ws
  InitialStatus = ready
  ErrorStatus = failed
  Result = {done}
  NoResult = NoResult
  MaxView = 100
  MaxActivity = 2
  MaxHistory = 3
  MaxToken = 1
  Bindings <- Standard
  KeyText <- Typing
  MaxWidth = 3
  MaxHeight = 3
  Keys <- HistoryKeys
  Sizes = {}
  Updates <- BrowseUpdates
PROPERTY PreviousIsBefore

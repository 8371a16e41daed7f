SPECIFICATION FairSpec
CONSTANTS
  a = a
  b = b
  i1 = i1
  i2 = i2
  ws = ws
  ready = ready
  failed = failed
  done = done
  Rune <- Runes
  Glued <- NoGlue
  MaxPrompt = 1
  Workspace = {ws}
  Status = {ready, failed}
  Item = {i1, i2}
  Weight <- Weights
  InitialWorkspace = ws
  InitialStatus = ready
  ErrorStatus = failed
  Result = {done}
  NoResult = NoResult
  MaxView = 100
  MaxActivity = 2
  MaxHistory = 1
  MaxToken = 2
  Bindings <- Standard
  KeyText <- Typing
  MaxWidth = 3
  MaxHeight = 3
  Keys <- ShutdownKeys
  Sizes <- SameSize
  Updates = {}
PROPERTIES NoCallAfterRun RunReturns OperationSettles GoroutinesEnd
INVARIANTS ReturnIsHonest

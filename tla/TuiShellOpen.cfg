SPECIFICATION OneSpec
CONSTANTS
  a = a
  b = b
  i1 = i1
  i2 = i2
  ws = ws
  ready = ready
  failed = failed
  done = done
  Rune <- Runes
  Glued <- NoGlue
  MaxPrompt = 1
  Workspace = {ws}
  Status = {ready, failed}
  Item = {i1, i2}
  Weight <- Weights
  InitialWorkspace = ws
  InitialStatus = ready
  ErrorStatus = failed
  Result = {done}
  NoResult = NoResult
  MaxView = 5
  MaxActivity = 2
  MaxHistory = 2
  MaxToken = 2
  Bindings <- Standard
  KeyText <- Typing
  MaxWidth = 3
  MaxHeight = 3
  Keys <- AllKeys
  Sizes <- Resizes
  Updates <- AllUpdates
INVARIANTS TypeOK LanesSerialized NoLostLane StopIsVisible ListsAreBounded PromptIsUsable
PROPERTIES ImplementsContract ShownRevisionsIncrease DraftIsKept HistoryFollowsSession

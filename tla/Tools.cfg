SPECIFICATION ToolsSpec
CONSTANTS
  a = a
  item = item
  ws = ws
  ready = ready
  failed = failed
  done = done
  r1 = r1
  r2 = r2
  w1 = w1
  Receivers = {r1, r2}
  Waiters = {w1}
  MaxPushed = 2
  Chunk <- Pictures
  ByteLength <- Lengths
  Unreadable = {2}
  Wanted <- Wants
  MaxTranscript = 2
  MaxSegments = 2
  Blank = 0
  Rune <- Runes
  Glued <- NoGlue
  MaxPrompt = 2
  Workspace = {ws}
  Status = {ready, failed}
  Item = {item}
  Weight <- Weights
  InitialWorkspace = ws
  InitialStatus = ready
  ErrorStatus = failed
  Result = {done}
  NoResult = NoResult
  MaxView = 4
  MaxActivity = 2
  MaxHistory = 2
  MaxToken = 9
  Bindings <- Actions
  KeyText <- Typing
  MaxWidth = 3
  MaxHeight = 3
  QuitStrokes <- QuitKeys
  Lowered <- Spellings
  KeyOf <- Named
  KeyTyping <- TextKeys
  FirstStroke <- Strokes
  Events <- Sample
  MaxEvents = 4
  PerformStrokes <- Performs
  Width = 3
  Height = 2
  Null = Null
  Schema = "v1alpha1"
  ThemeModes = {"dark", "light"}
  DarkMode = "dark"
  TextStrokes = {"text"}
  Sendable = {"", "a", "A", "text", "enter", "Enter", "changed"}
  Escaped = "escaped"
  Changed = "changed"
  SnapshotNames = {"shown"}
  Recordable <- Recorder
  Recordings <- Recorded
  QueueDepth = 2
  MaxOperation = 3
INVARIANTS
  EveryOperationIsRecorded ReplayIsDeterministic
  TraceJsonIsExact
  PassIsEarned NothingIsLeftBehind OfflineStaysOffline
  SleepersAreUpToDate
  NumbersAreRight AnnouncedBeforeAnswered RunsAreKnown
PROPERTIES ClosedIsFinal NobodyIsForgotten CancelsAreIndependent

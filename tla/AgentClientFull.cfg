SPECIFICATION FairClient
CONSTANTS
  Depth <- Shallow
  MaxLines = 1
  Updates = {}
  InputPanics = FALSE
  Replies = {"result", "perform_failed"}
  QueueDepth = 1
  MaxOperation = 1
PROPERTY RunEnds
CHECK_DEADLOCK FALSE

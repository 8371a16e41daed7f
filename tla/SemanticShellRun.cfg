SPECIFICATION ClientSpec
CONSTANTS
  Depth <- Shallow
  MaxLines = 2
  Updates <- Stream
  InputPanics = TRUE
  Replies = {"perform_failed"}
INVARIANT OperationsAreDistinct
PROPERTIES
  ReturnIsFinal KeepsContract KeepsLog
  RunEnds QuitIsObeyed CancelGetsThrough

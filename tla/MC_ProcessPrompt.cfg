\* One process that answers every block of a prompt that is larger than what the stdin pipe, the
\* child, the output pipe, the reader and the channel hold together, each of them one.
SPECIFICATION Spec
CONSTANTS
  Streams = {"out"}
  ChannelCap = 1
  PipeCap = 1
  CaptureCap = 2
  MaxLines = 0
  Prompts = {6}
PROPERTY PromptIsWritten
CHECK_DEADLOCK FALSE

CONSTANTS
  audio = audio
  video = video
  Parsers <- TwoStreams
  Quarter = 2
  MaxWraps = 2
  None = None
SPECIFICATION TimeSpec
INVARIANTS
  StreamsAgree
PROPERTY MovesWithTheClock
CHECK_DEADLOCK TRUE

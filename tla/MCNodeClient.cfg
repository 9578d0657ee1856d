CONSTANTS
  Names <- SomeNames
  Requests = {r1}
  MaxStreams = 3
  MaxMessages = 1
  MaxCount = 2
  MaxAnswers = 2
SPECIFICATION FairSpec
INVARIANTS ListedIsRunning UnlistedOnlyByReuse
PROPERTY ShutdownExits
CHECK_DEADLOCK FALSE

\* Two events in work at once, chunks at any time, one failure.
SPECIFICATION FairSpec
CONSTANTS
  h1 = h1 h2 = h2
  Handlers <- TwoHandlers
  MaxChunks = 3
  MaxFiles = 2
  MaxResets = 2
  MaxFailures = 1
INVARIANTS
  TypeOK
  AnswersAreApart
  RecordingIsKept
  ChunksAreKept
PROPERTIES
  RecordingIsStored
CHECK_DEADLOCK FALSE

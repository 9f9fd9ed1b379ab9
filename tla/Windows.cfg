SPECIFICATION MCSpec
CONSTANTS
  b1 = b1
  b2 = b2
  post1 = post1
  Boards = {b1, b2}
  Single = post1
  Attempts = 2
  MaxStarts = 2
  Keys = {1}
  MaxRuntimes = 2
  Commands = {2}
  NoCommand = none
  MaxProbes = 1
  MaxSteps = 3
  MaxRunStarts = 2
INVARIANTS ThreadsKnown CountedOnce CommandedWithImage CloudLabelsTrue
PROPERTIES RefreshComesBack QueuedRecordResolved ButtonsComeBack StopEndsCloudRuns
CHECK_DEADLOCK FALSE

SPECIFICATION OpenSpec
CONSTANTS
  Keys = {1}
  MaxRuntimes = 1
  Commands = {1}
  NoCommand = none
  MaxProbes = 2
  MaxSteps = 3
INVARIANT ProbingResumes
CHECK_DEADLOCK FALSE

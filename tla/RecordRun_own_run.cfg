\* A RecordWorker alone with a device that has run the case before.
SPECIFICATION Spec
CONSTANTS
  Recorders = {gui}
  GuiRecorders = {gui}
  MaxRuns = 3
  MaxInbox = 1
  MaxBusy = 1
INVARIANT ReportsOwn

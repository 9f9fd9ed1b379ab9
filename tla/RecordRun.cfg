\* One RecordWorker and one run_record on the same case of one device, which may
\* have run it once before: up to three runs.
SPECIFICATION Spec
CONSTANTS
  Recorders = {gui, cli}
  GuiRecorders = {gui}
  MaxRuns = 3
  MaxInbox = 1
  MaxBusy = 1
INVARIANTS
  TypeOK
  BaselineNotReported
  UndisturbedReportsOwn

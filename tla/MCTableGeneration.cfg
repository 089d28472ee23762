SPECIFICATION GenerationSpec
CONSTANTS
  frodo640 = frodo640
  frodo1344 = frodo1344
  NoBaseline = falcon
  Params <- MCParams
  K = 3
  Trials = 2
  SolverResults <- MCSolverResults
  Qualities <- MCQualities
  Baseline <- MCBaseline
  HistoricalQ = 3
INVARIANTS
  TablesAreBest
  VerificationExact
\* Both programs exit.
CHECK_DEADLOCK FALSE

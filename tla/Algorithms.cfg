CONSTANTS
  Scenes <- MCScenes
  Duration = 5
  AllowedSfs = {7, 8, 9}
  SfNeeds <- MCNeeds
  Nowhere = Nowhere
  CaptureLockedDb = 1
  CaptureUnlockedDb = 2
  PreambleLockSymbols = 2
  MaxStart = 9
  Airtimes = {9, 10, 11}
  Snrs = {0, 1, 2, 3}
  Crs = {6, 7}
  Sfs = {7, 8}
  Preambles = {2, 4}
  Plans <- MCPlans
  LateStart = 2
  Settling = 1
  NoText = ""
SPECIFICATION Spec
INVARIANTS AgreesWithReference MatrixIsSound QueriesAreTrue RadioReportIsTrue
INVARIANTS SetupReportIsTrue LifecycleReportIsTrue
CHECK_DEADLOCK FALSE

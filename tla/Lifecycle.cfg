CONSTANTS
  CaptureLockedDb = 1
  CaptureUnlockedDb = 2
  PreambleLockSymbols = 1
  N = 3
  NoLink <- Unlinked
  Links <- MeshLinks
  Freqs = {868}
  Sfs = {7}
  Bws = {125}
  Lens = {2, 3, 4}
  Labels = {"D"}
  BootTune <- Boot3
  Tunings <- NoTunings
  Packets <- WithOversized
  Inherit <- MinusOne
  Airtime <- AirtimeTable
  SnrThreshold <- Floors
  MaxPacketBytes = 3
  RxToTx = 1
  TxToRx = 1
  SfSwitch = 0
  EnergyMode = FALSE
  EnergyThreshold = 0
  CadMarginalSnr <- Marginal
  LbtNodes = {2}
  TxFailNodes = {2}
  DutyWindow = 0
  DutyBudget = 0
  QueryWindows = {}
  Fades <- Fading
  Losses = FALSE
  Drops <- NoDrops
  Commands <- SomeCommands
  StartAt <- LateStart
  DiesAt <- EarlyDeath
  MaxJitter = 1
  Cr = 5
  PreSym = 2
  SymbolMs = 1
  PreambleMs = 1
  Warmup = 2
  Steps = {1, 2}
  Console = {3}
  Duration = 7
  MaxTx = 3
SPECIFICATION FairSpec
INVARIANTS SlotTracksFlight DeadAreSilent DueCommandsAwaitBirth LivesInOrder
PROPERTY RunEnds

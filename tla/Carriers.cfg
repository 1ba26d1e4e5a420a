CONSTANTS
  CaptureLockedDb = 1
  CaptureUnlockedDb = 2
  PreambleLockSymbols = 1
  N = 3
  NoLink <- Unlinked
  Links <- MeshLinks
  Freqs = {868, 869}
  Sfs = {7, 8}
  Bws = {125}
  Lens = {2, 3}
  Labels = {"D"}
  BootTune <- BootSplit
  Tunings <- OtherCarrier
  Packets <- TwoSfs
  Inherit <- MinusOne
  Airtime <- AirtimeTable
  SnrThreshold <- Floors
  MaxPacketBytes = 3
  RxToTx = 1
  TxToRx = 1
  SfSwitch = 1
  EnergyMode = TRUE
  EnergyThreshold = 0
  CadMarginalSnr <- Marginal
  LbtNodes = {1, 2, 3}
  TxFailNodes = {}
  DutyWindow = 0
  DutyBudget = 0
  QueryWindows = {}
  Fades = {0}
  Losses = FALSE
  Drops <- NoDrops
  Commands <- NoCommands
  StartAt <- AllZero3
  DiesAt <- AllZero3
  MaxJitter = 0
  Cr = 5
  PreSym = 2
  SymbolMs = 1
  PreambleMs = 1
  Warmup = 0
  Steps = {1}
  Console = {}
  Duration = 6
  MaxTx = 2
SPECIFICATION Spec
INVARIANTS LbtExclusive

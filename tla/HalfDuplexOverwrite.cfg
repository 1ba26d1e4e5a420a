CONSTANTS
  CaptureLockedDb = 1
  CaptureUnlockedDb = 2
  PreambleLockSymbols = 1
  N = 2
  NoLink <- Unlinked
  Links <- OneWayLinks
  Freqs = {868}
  Sfs = {7}
  Bws = {125}
  Lens = {2, 3}
  Labels = {"D"}
  BootTune <- Boot2
  Tunings <- NoTunings
  Packets <- ShortLong
  Inherit <- MinusOne
  Airtime <- AirtimeTable
  SnrThreshold <- Floors
  MaxPacketBytes = 3
  RxToTx = 1
  TxToRx = 1
  SfSwitch = 0
  EnergyMode = TRUE
  EnergyThreshold = 0
  CadMarginalSnr <- Marginal
  LbtNodes = {1, 2}
  TxFailNodes = {}
  DutyWindow = 0
  DutyBudget = 0
  QueryWindows = {}
  Fades = {0}
  Losses = FALSE
  Drops <- NoDrops
  Commands <- NoCommands
  StartAt <- AllZero2
  DiesAt <- AllZero2
  MaxJitter = 0
  Cr = 5
  PreSym = 2
  SymbolMs = 1
  PreambleMs = 1
  Warmup = 0
  Steps = {1}
  Console = {}
  Duration = 9
  MaxTx = 3
SPECIFICATION Spec
INVARIANTS NeverHearsWhileTransmitting

CONSTANTS
  CaptureLockedDb = 1
  CaptureUnlockedDb = 2
  PreambleLockSymbols = 1
  N = 3
  NoLink <- Unlinked
  Links <- HiddenLinks
  Freqs = {868}
  Sfs = {7}
  Bws = {125}
  Lens = {2, 3}
  Labels = {"D"}
  BootTune <- Boot3
  Tunings <- NoTunings
  Packets <- ShortLong
  Inherit <- MinusOne
  Airtime <- AirtimeTable
  SnrThreshold <- Floors
  MaxPacketBytes = 3
  RxToTx = 1
  TxToRx = 2
  SfSwitch = 0
  EnergyMode = TRUE
  EnergyThreshold = 0
  CadMarginalSnr <- Marginal
  LbtNodes = {1, 2, 3}
  TxFailNodes = {}
  DutyWindow = 6
  DutyBudget = 4
  QueryWindows = {6}
  Fades = {0}
  Losses = TRUE
  Drops <- DropSecond
  Commands <- NoCommands
  StartAt <- AllZero3
  DiesAt <- AllZero3
  MaxJitter = 0
  Cr = 5
  PreSym = 2
  SymbolMs = 1
  PreambleMs = 1
  Warmup = 0
  Steps = {1}
  Console = {}
  Duration = 10
  MaxTx = 3
SPECIFICATION Spec
INVARIANTS NoDestroyedReception NeverHearsWhileTransmitting TurnaroundRespected ForcedDropWindow DutyBudgetHeld

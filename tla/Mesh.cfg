SPECIFICATION MeshSpec
CONSTANTS
  a = a
  b = b
  c = c
  d = d
  m1 = m1
  m2 = m2
  None = None
  Nodes <- MCNodes
  Messages <- MCMessages
  Origin <- MCOrigin
  Dest <- MCDest
  Routes <- MCRoutes
  Configs <- MCConfigs
  Stations = {1, 2, 3}
  Settings <- MCSettings
  Horizon = 4
  MaxDigest = 2
  MaxPulls = 2
  MaxAds = 2
  MaxDelay = 1
  PullWindow = 3
  AnswerWindow = 2
  QuotaWindow = 9
  BurstWindow = 1
  SlowestTail = 1
  HopMax = 2
  TraceBound = 5
INVARIANTS  PathsAreTrue PullsAreDisciplined ChannelsStayLocal SeenByIsTrue
INVARIANTS OneAdIsEnough GossipReportIsTrue
CHECK_DEADLOCK FALSE

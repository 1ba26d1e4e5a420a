CONSTANTS
  s1 = s1
  s2 = s2
  s3 = s3
  c1 = c1
  c2 = c2
  absent = absent
  unwritten = unwritten
  torn = torn
  done = done
  Sims <- Three
  MaxConcurrent = 1
  Clients <- NoClient
  Deletable <- Two
  Exportable <- One
  Unsavable <- One
  MaxRestarts = 1
  Absent <- absent
  Unwritten <- unwritten
  Torn <- torn
  Done <- done
  r1 = r1
  r2 = r2
  r3 = r3
  None = None
  Stored <- AllStored
  Running <- OneStored
  Views <- BothViews
  Size <- TwoAndOne
  MaxEvents = 3
  MaxClock = 2
SYMMETRY Alike
SPECIFICATION ApiSpec
INVARIANTS ProcessBound ActiveIsTended CompletedIsTrue AnswerIsFresh CacheIsRecent
PROPERTY CompletedIsDurable

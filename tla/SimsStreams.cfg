CONSTANTS
  s1 = s1
  s2 = s2
  s3 = s3
  c1 = c1
  c2 = c2
  absent = absent
  unwritten = unwritten
  torn = torn
  done = done
  Sims <- Two
  MaxConcurrent = 1
  Clients <- TwoClients
  Deletable <- NoSim
  Exportable <- NoSim
  Unsavable <- NoSim
  MaxRestarts = 1
  Absent <- absent
  Unwritten <- unwritten
  Torn <- torn
  Done <- done
SPECIFICATION RunsSpec
INVARIANTS StreamTellsOutcome
PROPERTY StreamsEnd EverySimSettles

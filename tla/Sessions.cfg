CONSTANTS
  s1 = s1
  c1 = c1
  c2 = c2
  Sessions <- OneSession
  Clients <- TwoClients
  MaxSessions = 1
SPECIFICATION FairSpec
INVARIANTS CloseIsClean
PROPERTIES ClosedIsLastWord ClosesEnd

SPECIFICATION FairSpec
CONSTANTS
  w1 = w1  w2 = w2  e1 = e1  e2 = e2  n1 = n1  n2 = n2
  Workers = {w1, w2}
  Edges = {e1, e2}
  Nodes = {n1, n2}
  Latencies = {1, 2, 4, 9}
  Worlds <- AllWorlds
  Scale = 2
  Hour = 1
  Changes = 1
  Faults = 1
  None = None
INVARIANTS TypeOK ScoresInRange CloserScoresBetter
PROPERTIES ScoresFollow

SPECIFICATION FairSpec
CONSTANTS
  n1 = n1  n2 = n2  n3 = n3  e1 = e1  e2 = e2
  Nodes = {n1, n2, n3}
  Edges = {e1}
  Scores = {5, 9, 10}
  Latencies = {1, 9}
  Limited = TRUE
  Limit = 5
  Worlds <- Starts
  Changes = 1
  Faults = 1
  None = None
INVARIANTS TypeOK PickedQualifies
PROPERTIES MoveImproves MovesOnce Settles 

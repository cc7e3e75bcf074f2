SPECIFICATION FairSpec
CONSTANTS
  e1 = e1  e2 = e2  e3 = e3  n1 = n1  n2 = n2
  Edges = {e1, e2, e3}
  Nodes = {n1}
  Position <- InOrder
  Site <- AllAtE2
  HalfMinute = 1
  TwoMinutes = 2
  Hour = 2
  Changes = 1
  Faults = 1
INVARIANTS TypeOK TablesInStep AggregatesOfThisRound
PROPERTIES RenewedFirstHand GoneForgotten StoppedForgotten ReachableMeasured

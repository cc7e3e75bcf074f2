SPECIFICATION FairSpec
CONSTANTS
  s1 = s1  s2 = s2  c1 = c1  c2 = c2  n1 = n1  n2 = n2  a1 = a1
  Schedulers = {s1}
  Clusters = {c1, c2}
  Home <- OneHome
  Nodes = {n1, n2}
  ClusterOf <- FarNode
  Apps = {a1}
  Limited = {}
  Replicas <- One
  Manifests = {"template"}
  PodNames = {1, 2, 3, 4}
  Budget <- Faulty
  Ends = {"Failed", "Succeeded"}
  None = None
PROPERTIES TrackedLossNoticed NoLimbo

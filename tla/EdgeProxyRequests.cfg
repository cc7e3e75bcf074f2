SPECIFICATION FairSpec
CONSTANTS
  x1 = x1  x2 = x2  c1 = c1  c2 = c2  p1 = p1  p2 = p2  p3 = p3  r1 = r1
  Proxies = {x1, x2}
  Clusters = {c1, c2}
  Local <- LocalOf
  ProxyOf <- EdgeOf
  Pods = {p1, p2}
  ClusterOf <- PodEach
  Requests = {r1}
  MaxHops = 3
  Changes = 1
  Faults = 1
INVARIANTS TypeOK SourceRecords
PROPERTIES StoreCatchesUp

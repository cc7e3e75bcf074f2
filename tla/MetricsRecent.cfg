SPECIFICATION Spec
CONSTANTS
  p1 = p1  p2 = p2
  Pods = {p1}
  Latencies = {1}
  BufferSize = 1
  Buckets = 5
  Minute = 2
  Flush = 2
  Stale = 30
  MaxCount = 4
  None = None
INVARIANTS RecentCounted

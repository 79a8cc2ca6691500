\* Two processes and two huge pages.
SPECIFICATION Spec
CONSTANTS
  Pids = {p, q}
  Pages <- LowPages
  HUGE_PAGE_SIZE = 8
  Requests <- SomeRequests
  MaxMounts = 2
  p = p
  q = q
INVARIANTS
  Disjoint
  Resolves
  NoStrayFiles

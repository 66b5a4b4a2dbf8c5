\* Violated: the page goes first, postMessage throws, disconnect is skipped.
SPECIFICATION FairSpec
CONSTANTS
  p1 = p1
  r1 = r1
  r2 = r2
  NaN = NaN
  Pages = {p1}
  Requests = {r1, r2}
  PageOf <- MCPageOf
  HostVersions <- MCVersions
  Required <- MCRequired
INVARIANT PortClosedOnAnswer
\* Every request made and answered, every page gone: nothing is left to do.
CHECK_DEADLOCK FALSE

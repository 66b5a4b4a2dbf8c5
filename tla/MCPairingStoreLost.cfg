\* Violated: two windows open at once, the second write undoes the first.
SPECIFICATION FairSpec
CONSTANTS
  Hosts = {h1, h2}
  Origins = {o1, o2}
  NoOrigin = NoOrigin
PROPERTY ApprovalsStay

\* Liveness: no symmetry, and one origin, which is all that a host's loop tells apart.
SPECIFICATION FairSpec
CONSTANTS
  Hosts = {h1, h2}
  Origins = {o1}
  NoOrigin = NoOrigin
PROPERTIES Answered HungUpLeaves

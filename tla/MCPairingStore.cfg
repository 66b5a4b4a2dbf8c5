\* Two processes, two origins: enough for one process to overwrite another's
\* approval and to bring back a deleted one.
SPECIFICATION Spec
CONSTANTS
  Hosts = {h1, h2}
  Origins = {o1, o2}
  NoOrigin = NoOrigin
SYMMETRY Symmetry
INVARIANTS TypeOK ConsentNeeded CurrentCopy RecordExact CodeBeforeWindow

SPECIFICATION Spec
CONSTANTS
  v1 = v1
  v2 = v2
  f1 = f1
  f2 = f2
  c1 = c1
  NoVpdo = NoVpdo
  NoFo = NoFo
  Vpdo = {v1, v2}
  Fo = {f1, f2}
  Client = {c1}
  NMaxPorts = 2
  Stoppable = {v1}
  Parties <- MCParties
\* Each of these is violated; one at a time.
INVARIANT UniquePort
\* INVARIANT CleanupOnLive
\* INVARIANT FoNotLost
\* INVARIANT CleanupHitsOwn
CHECK_DEADLOCK FALSE

CONSTANTS
  Token = {}
  Label = {}
  Pub = {h1, h2}
  Device = {d1}
  None = None
  Sock = {s1, s2}
  MaxBindings = 2
  MaxRows = 2
  MaxNow = 2
SPECIFICATION Spec
INVARIANTS TypeOK ServedPeerIsReachable NoGhostPresence OnlyPeersAreHeard
PROPERTIES VanishedPeerGoesOffline RevokedPairFallsSilent

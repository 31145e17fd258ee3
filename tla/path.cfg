CONSTANTS
  MaxLinks = 2
  MaxAge = 1
SPECIFICATION Spec
INVARIANTS TypeOK
PROPERTIES FallsBack NeverDirectForEver HubAgrees

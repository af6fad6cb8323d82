SPECIFICATION FairSpec
CONSTANTS
  Doc = {d1}
  MaxSockets = 2
  None = None
  MaxRuntimes = 3
  MaxArrivals = 4
  MaxPresence = 1
  MaxSubmits = 1
  MaxFailures = 1
INVARIANTS
  StoresHaveOneOwner
  PresenceListsAgree
  RemovedIsSealed
PROPERTY
  StopEnds
CHECK_DEADLOCK FALSE

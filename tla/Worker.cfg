\* Two workers with two listeners each; both connections may race the flag.
SPECIFICATION FairSpec
CONSTANTS
  NWorkers = 2
  NListeners = 2
  Conns = {c1, c2}
  Backends = {"tokio", "monoio"}
INVARIANTS TypeOK CountsMatchConnections OneLateAccept JoinedIsFinal
PROPERTIES ImplementsDrain ShutdownEnds

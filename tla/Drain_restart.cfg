SPECIFICATION FairSpec
CONSTANTS
  a = a
  a1 = a1
  a2 = a2
  x = x
  Clients = {a}
  Sockets = {a1, a2}
  Socks = {a1, a2, x}
  OwnerOf <- OneClient
  NoSocket = NoSocket
  Ttl = 3
INVARIANTS
  DrainedIsEmpty
  ServingIsListed
  OneSocket
  ClosedStaysClosed
PROPERTIES
  ActiveIsCorrected
  EndedIsForgotten
  ComesBack
CHECK_DEADLOCK FALSE

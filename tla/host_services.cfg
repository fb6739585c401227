SPECIFICATION ServicesSpec
CONSTANTS
  b1 = b1
  b2 = b2
  b3 = b3
  Boots = {b1, b2, b3}
  NoVM = NoVM
  Nobody = Nobody

  k1 = k1
  k2 = k2
  Clients = {k1, k2}
  NoClient = NoClient

  peer1 = peer1
  peer2 = peer2
  Ports = {3000, 8080}
  Peers = {peer1, peer2}
  MaxConns = 1
  NoPort = NoPort

  e1 = e1
  e2 = e2
  e3 = e3
  Entries = {e1, e2, e3}
  BatchSize = 2

INVARIANTS
  ServicesTypeOK
PROPERTIES
  
  GateOpensOrEnds
  HandlersEnd
  
  
CHECK_DEADLOCK FALSE

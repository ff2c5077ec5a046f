CONSTANTS
  u1 = u1  u2 = u2  u3 = u3  u4 = u4
  netA = netA  netB = netB
  v1 = v1  v2 = v2
  e1 = e1  e2 = e2  cloud = cloud  none = none
  Users <- MCUsers
  NetOf <- MCNetOf
  ContentOf <- MCContentOf
  Nodes <- MCNodes
  Cloud = cloud
  IpOf <- MCIpOf
  Capacity <- MCCapacity
  Readable = {v1}
  SolverNodes = {e1, e2, cloud}
  NumLinks = 2
  Threshold = 1
  MaxLoad = 2
  MaxLines = 2
  Algo = "ILPSolution"
  ToRedirect = TRUE
  NoNode = none
SPECIFICATION FairSpec
INVARIANTS TypeOK GroupsUnique UserCountedOnce TableAgrees CapacityRespected RedirectedToHolder
PROPERTIES NoEviction ImplementsPlacement CongestionSolved
CHECK_DEADLOCK FALSE

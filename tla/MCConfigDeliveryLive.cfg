CONSTANTS
  s1 = s1
  s2 = s2
  r1 = r1
  r2 = r2
  Servers <- MCServers
  Requests <- MCRequests
  AllServers <- MCOrder
  MaxVersion = 2
  MaxDeploys = 1
  MaxAtFirst = 1
  MaxCrashes = 1
SPECIFICATION FairSpec
PROPERTIES
  RequestsEnd
  ServersConverge

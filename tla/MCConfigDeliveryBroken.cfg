CONSTANTS
  s1 = s1
  s2 = s2
  r1 = r1
  r2 = r2
  Servers <- OneServer
  Requests <- MCRequests
  AllServers <- OnlyOne
  MaxVersion = 1
  MaxDeploys = 1
  MaxAtFirst = 0
  MaxCrashes = 0
SPECIFICATION FairSpec
PROPERTY BrokenCopyIsReplaced

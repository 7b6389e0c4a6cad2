CONSTANTS
  s1 = s1
  s2 = s2
  r1 = r1
  r2 = r2
  Servers <- MCServers
  Requests <- MCRequests
  AllServers <- MCOrder
  MaxVersion = 2
  MaxDeploys = 2
  MaxAtFirst = 0
  MaxCrashes = 1
SPECIFICATION Spec
INVARIANTS
  TypeOK
  OneCaller
  NewestUnlessBroken
PROPERTIES
  VersionsAreNeverRewritten
  NeverGoesBack
  LocalVersionsStay

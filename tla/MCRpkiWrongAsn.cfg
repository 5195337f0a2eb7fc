SPECIFICATION Spec
CONSTANTS
  a1 = a1
  a2 = a2
  d1 = d1
  d2 = d2
  Dashboards <- One
  Width = 2
  Asns <- MCAsns
  Pdus <- MCPdus
  Routes <- MCRoutes
  MaxVrps = 2
  NoFile = NoFile
  NoValue = NoValue
INVARIANTS
  WrongAsnHasNoMatch

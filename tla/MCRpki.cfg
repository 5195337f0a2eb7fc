SPECIFICATION Spec
CONSTANTS
  a1 = a1
  a2 = a2
  d1 = d1
  d2 = d2
  Dashboards <- Both
  Width = 2
  Asns <- MCAsns
  Pdus <- MCPdus
  Routes <- MCRoutes
  MaxVrps = 3
  NoFile = NoFile
  NoValue = NoValue
SYMMETRY Symmetry
CONSTRAINT Bounded
INVARIANTS
  TypeOK
  VerdictsSound
  OnlyShadowedDenied
  CacheIsOneSession

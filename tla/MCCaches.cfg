SPECIFICATION Spec
CONSTANTS
  a = a
  b = b
  rv = rv
  ams = ams
  Procs = {a, b}
  Pages <- MCPages
  BundledRows <- MCBundledRows
  Asns = {1, 2, 3}
  Curated <- MCCurated
  CymruSeed <- MCCymru
  Whois <- MCWhois
  Limit = 2
  MaxStarts = 4
  MaxNames = 1
  Strays <- MCStrays
  Garbled = Garbled
  NoFile = NoFile
  Torn = Torn
SYMMETRY Symmetry
CONSTRAINT Bounded
INVARIANTS
  TypeOK
  ActiveIsOnePage
  AnswersKept
PROPERTY LabelsStable
CHECK_DEADLOCK FALSE

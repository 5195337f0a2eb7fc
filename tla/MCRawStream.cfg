SPECIFICATION FairSpec
CONSTANTS
  MaxCell = 9
  MaxFrame = 8
  MaxStats = 2
  NotText = 9
  MagicCells <- MCMagic
  MaxSent = 2
  Captures <- MCCaptures
  MaxItems = 12
INVARIANT DamageIsLocal
INVARIANT ParsersAgree
PROPERTY IterationEnds
CHECK_DEADLOCK FALSE

SPECIFICATION FairSpec
CONSTANTS
  MaxGens = 2
  MaxDepth = 2
  MaxActs = 1
  Objs = {x}
  Codes = {1}
  Hards = {TRUE, FALSE}
  Reenter <- Points
  None = None
PROPERTIES EveryObjectIsServed ExitHonoured
CHECK_DEADLOCK FALSE

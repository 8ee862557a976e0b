\* Two amounts, two tasks at a time, flags good for one block.
SPECIFICATION FairSpec
CONSTANTS
  Amount <- MCAmount
  Task = {t1, t2}
  None = None
  MaxDiff = 1
  MaxLag = 1
  MaxQueued = 1
INVARIANTS
  TypeOK
PROPERTIES
  Quiesces
  PairsRefreshed

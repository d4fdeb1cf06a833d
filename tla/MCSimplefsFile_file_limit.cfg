\* Writes of a file that is as long as its block.
SPECIFICATION Spec
CONSTANTS
  Tasks = {t1, t2}
  BlockSize = 3
  MaxPos = 4
  Lens = {1, 2}
  Modes = {"r", "w", "rw"}
  OldSize = 1
  None = none
INVARIANTS
  WithinBlock

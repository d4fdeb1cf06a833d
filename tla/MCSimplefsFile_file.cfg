\* Two open files over a block of three bytes; positions go past its end.
SPECIFICATION Spec
CONSTANTS
  Tasks = {t1, t2}
  BlockSize = 3
  MaxPos = 4
  Lens = {1, 2}
  Modes = {"r", "w", "rw"}
  OldSize = 1
  None = none
SYMMETRY Symmetry
INVARIANTS
  TypeOK
  WrittenBelowSize
  ReadsWritten
  SizeSaved
  AckedOnDisk

\* A caller whose buffer has room for fewer entries than the directory has.
SPECIFICATION Spec
CONSTANTS
  Names = {x, y, z}
  DirInos = {i1, i2, i3}
  Slots = 3
  NoName = none
  Files = {f}
  Rooms = {1, 3}
  NoMemory = FALSE
INVARIANTS
  PosMeansAllFilled

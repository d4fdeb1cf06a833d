\* More names than slots, use before the first listing, failing allocations.
SPECIFICATION Spec
CONSTANTS
  Names = {w, x, y, z}
  DirInos = {i1, i2, i3, i4}
  Slots = 3
  NoName = none
  Files = {f}
  Rooms = {1, 4}
  NoMemory = TRUE
SYMMETRY Symmetry
INVARIANTS
  TypeOK
  CacheSound
  CacheMirrorsBlock
PROPERTIES
  EntriesKept
  ImplementsDirMap

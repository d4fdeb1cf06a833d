\* Is the inode on disk before its name?
SPECIFICATION Spec
CONSTANTS
  MaxObjects = 7
  IntBits = 6
  ImapBits = 6
  Shl <- ArmShl
  Word = 8
  Welcome = w
  Names = {w, x}
  Tasks = {t1, t2}
  Addrs = {root, a1, a2, a3}
  RootAddr = root
  None = none
  Ops = {"create", "unlink", "lookup", "writeback"}
  Sizes = {5}
  Signals = FALSE
  MaxCrashes = 0
SYMMETRY Symmetry
INVARIANTS
  InodeBeforeName

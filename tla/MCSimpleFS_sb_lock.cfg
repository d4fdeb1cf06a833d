\* Does the sb lock exclude, when lock waits are interrupted?
SPECIFICATION Spec
CONSTANTS
  MaxObjects = 7
  IntBits = 6
  ImapBits = 6
  Shl <- ArmShl
  Word = 8
  Welcome = w
  Names = {w, x}
  Tasks = {t1, t2}
  Addrs = {root, a1, a2, a3}
  RootAddr = root
  None = none
  Ops = {"create", "mkdir", "unlink", "lookup"}
  Sizes = {5}
  Signals = TRUE
  MaxCrashes = 0
SYMMETRY Symmetry
INVARIANTS
  SbLockGuards

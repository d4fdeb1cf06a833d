\* Interrupted lock waits with writes to open and deleted files.
SPECIFICATION Spec
CONSTANTS
  MaxObjects = 6
  IntBits = 5
  ImapBits = 5
  Shl <- ArmShl
  Word = 8
  Welcome = w
  Names = {w, x}
  Tasks = {t1, t2}
  Addrs = {root, a1, a2, a3}
  RootAddr = root
  None = none
  Ops = {"create", "unlink", "write", "lookup"}
  Sizes = {5}
  Signals = TRUE
  MaxCrashes = 0
SYMMETRY Symmetry
INVARIANTS
  HeldTaken
  LiveMarked
  MgmtLockGuards

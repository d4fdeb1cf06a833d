\* Every system call returns when no signal comes.
SPECIFICATION FairSpec
CONSTANTS
  MaxObjects = 6
  IntBits = 5
  ImapBits = 5
  Shl <- ArmShl
  Word = 8
  Welcome = w
  Names = {w, x}
  Tasks = {t1, t2}
  Addrs = {root, a1, a2, a3}
  RootAddr = root
  None = none
  Ops = {"create", "mkdir", "unlink", "write", "lookup"}
  Sizes = {5}
  Signals = FALSE
  MaxCrashes = 0
PROPERTIES
  CallsReturn

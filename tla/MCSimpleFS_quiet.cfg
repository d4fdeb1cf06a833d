\* Two tasks in two or three directories; no signal, no power cut.
SPECIFICATION Spec
CONSTANTS
  MaxObjects = 7
  IntBits = 7
  ImapBits = 6
  Shl <- ArmShl
  Word = 16
  Welcome = w
  Names = {w, x}
  Tasks = {t1, t2}
  Addrs = {root, a1, a2, a3, a4}
  RootAddr = root
  None = none
  Ops = {"create", "mkdir", "unlink", "lookup", "shrink", "remount", "writeback"}
  Sizes = {5}
  Signals = FALSE
  MaxCrashes = 0
SYMMETRY Symmetry
INVARIANTS
  NamesResolve
  NamesInjective
  StoreAccounted
  ChildrenCounted
  CreateDurable
  LocksReturned

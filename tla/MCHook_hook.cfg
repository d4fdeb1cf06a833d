\* Packets come in on three CPUs while the module is loaded and unloaded.
SPECIFICATION FairSpec
CONSTANTS
  Cpus = {c1, c2, c3}
  OPTSIZE = 5
  ipv4_conntrack_in = 1000
  stub_ipv4_conntrack_in = 100
  hook_ipv4_conntrack_in = 120
INVARIANTS
  OriginalOnce
  StaysInside
PROPERTIES
  CallsReturn

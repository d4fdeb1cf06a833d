\* Two tasks read, write, poll and clear a buffer of two bytes.
SPECIFICATION FairSpec
CONSTANTS
  Tasks = {t1, t2}
  Size = 2
  a = a
  b = b
  Bytes = {a, b}
  Zero = zero
  Nobody = nobody
  Counts = {1, 3}
  Datas <- Writes
INVARIANTS
  TypeOK
  ReadersWoken
  QueuesClean
PROPERTIES
  RoomWakes
  ImplementsFifo
  CallsEnd

\* A queue of three with seven puts: enough to fill it, to evict a routine item
\* from each position, and to evict critical items twice over.
CONSTANTS
  MaxSize = 3
  MaxPuts = 7
SPECIFICATION Spec
INVARIANTS
  TypeOK
  InPutOrder
  RecentCriticalsKept
  NoSleepOnItems

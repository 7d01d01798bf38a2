CONSTANTS
  Start = 3
  Size = 14
  Header = 2
  Word = 17
  Requests <- MCRequests
SPECIFICATION Spec
INVARIANTS
  TypeOK
  ListTilesHeap
  NoAdjacentFree
  BlocksAreDisjoint
  HeldMatchesFlags
  SearchMissesNothing
  FreedHeapIsWhole
PROPERTIES
  AllocatedChunksStay
  MallocReturns
  ImplementsAllocator

SPECIFICATION FairSpec
CONSTANTS
  Items = {r1, r2, r3}
  Size = 3
  NoItem = NoItem
  Torn = Torn
INVARIANTS TypeOK NoSharedSlot WholeRequests
PROPERTIES ImplementsBoundedQueue

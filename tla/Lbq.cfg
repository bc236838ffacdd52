CONSTANTS
  e1 = e1  e2 = e2  e3 = e3
  producer = producer  consumer = consumer  control = control
  NULL = NULL
  Entries <- ThreeEntries
  Threads <- ThreeThreads
  Waiter = consumer
  sizeBound = 2
  MaxUserWakes = 1
SPECIFICATION FairSpec
INVARIANTS TypeOK ListIntegrity ChainIntegrity EntryOwnership NoLostWakeup
PROPERTIES ImplementsBoundedQueue EveryEntryLeaves RundownReachesWaiter

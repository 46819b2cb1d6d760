SPECIFICATION FairSpec
CONSTANTS
  Thread = {t1, t2, t3}
  Item = {a, b}
  NoItem = NoItem
  Capacity = 2
INVARIANTS
  SlotsConserved
  ItemsConserved
  NoLostSignal
  BlockedOnlyAtLimit
PROPERTIES
  ImplementsFifo
  ImplementsFairFifo
\* All threads may block in recv (or in send) for ever.
CHECK_DEADLOCK FALSE

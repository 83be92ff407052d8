\* Two producers and two consumers around two slots: everybody can wait.
CONSTANTS
  Producers = {p1, p2}
  Consumers = {c1, c2}
  Capacity = 2
  MaxItems = 2
SPECIFICATION FairSpec
INVARIANTS
  TypeOK
  NothingDropped
  ExactlyOnceInOrder
  NoLostWakeup
  NoStuck
PROPERTIES
  EveryoneFinishes
  ImplementsChannel

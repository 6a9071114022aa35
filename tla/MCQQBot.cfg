CONSTANTS
  Messages = {m1, blank}
  Blanks = {blank}
  EventIds = {e1}
  NoId = NoId
  MaxDeliveries = 3
  MaxRestarts = 1

SPECIFICATION FairSpec

INVARIANTS
  AnsweredOnce
  AcknowledgedMeansAnswered

PROPERTIES
  KeepsPromise
  EventuallyAnswered

\* Deliveries and restarts are bounded.
CHECK_DEADLOCK FALSE

SPECIFICATION FairSpec
CONSTANTS
  Command <- MCCommand
  MaxCmd = 5
  MaxEvent = 1
  Limit = 2
  MayExpire = TRUE
  MayLose = TRUE
INVARIANTS ReadyIsEnabled NoneLost AnsweredOnce PendingBounded EventsInOrder
PROPERTIES LostIsNoticed EventAnswered DestroyEnds
CHECK_DEADLOCK FALSE

\* Reordering, repetition and loss; one of the messages may be null.
CONSTANTS
  Null = Null
  m1 = m1
  m2 = m2
  Messages <- MessagesOrNull
  MaxSent = 4
SPECIFICATION FairSpec
CHECK_DEADLOCK FALSE
INVARIANTS TypeOK InOrder KeepsOnlyAhead
PROPERTIES ImplementsOrdered AllApplied

SPECIFICATION FairSpec
CONSTANTS
  XP = XP
  Workers = {w1}
  Nobody = Nobody
  MaxMsgs = 3
INVARIANTS TypeOK NothingStranded WaitingFirst IntactUnlessRaced WrittenWhenDisabled
PROPERTIES ImplementsLog QueuedGetsWritten

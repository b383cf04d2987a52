SPECIFICATION FairSpec
CONSTANTS
  MaxMessages = 2
  MaxTurns = 2
  Asks = {0, 1}
  MaxDrops = 1
INVARIANTS TypeOK PendingExact RanWithConsent ResultsFollowCalls
PROPERTIES AnswersStand MessageEnds WaitingEnds
CHECK_DEADLOCK FALSE

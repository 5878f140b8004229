SPECIFICATION Spec
CONSTANTS
  MaxDrops = 1
  Stoppable = {"user"}
INVARIANTS ForgottenPairIsClosed AnswersAreTrue FillClosesPair NobodySleepsOnEndedPair
CHECK_DEADLOCK FALSE

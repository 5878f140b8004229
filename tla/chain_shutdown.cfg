CONSTANT Operations <- OrderChain
SPECIFICATION AnsweredSpec
CHECK_DEADLOCK FALSE
PROPERTY ShutdownJoinsWaitingRun

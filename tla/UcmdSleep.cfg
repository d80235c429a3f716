SPECIFICATION FairSpec
CONSTANT MaxCommands = 2
PROPERTY FetchReturns
CHECK_DEADLOCK FALSE

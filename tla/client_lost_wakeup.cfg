SPECIFICATION FairSpec
PROPERTY RunStartsContext
CHECK_DEADLOCK FALSE

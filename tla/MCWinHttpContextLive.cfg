SPECIFICATION FairSpec
CONSTANTS
    Tasks = {t1}
    None = None
    MaxGeneration = 3
PROPERTIES
    NothingStuck
CHECK_DEADLOCK FALSE

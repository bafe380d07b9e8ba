SPECIFICATION Spec
CONSTANTS
    MAX_WRITE = 2
    MAX_READ = 1
    U32MAX = 2
    MaxBody = 3
    MaxResponse = 2
    Unparsable = Unparsable
    Calls <- MCCalls
    Responses <- MCResponses
INVARIANT CarriedOver
CHECK_DEADLOCK FALSE

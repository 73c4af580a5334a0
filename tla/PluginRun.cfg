CONSTANTS
    Name <- MCName
    Dotted = {2}
    Manifest = 3
    Location = {"dir", "zip", "jar"}
    Format <- MCFormat
    x = x
    y = y
    Point = {x, y}
    MaxEntries = 4
    Runs <- MCRuns
    PipeCapacity = 2
    Requests <- RequestLengths
    Responses <- ResponseLengths
    Programs <- MCPrograms
SPECIFICATION LoopSpec
INVARIANTS
    OnlyWholeResponses
    RefusedForCause
    LocationsHoldAnswers
PROPERTIES
    CommandEnds
    LinesDelivered
    IllFormedWritesNothing
CHECK_DEADLOCK FALSE

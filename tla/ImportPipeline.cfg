CONSTANTS
    a = a
    b = b
    c = c
    d = d
    Main = Main
    File = {a, b, c, d}
    Jobs <- MCJobs
    Size <- MCSize
    InlineParseMax = 2
    InlineBudget = 2
    MaxProcs = 1
SPECIFICATION Spec
INVARIANTS
    LoadsAreFaithful
    ParsingIsBounded
PROPERTIES
    LoadsReturn
    Quiescence
    ObservesSequentialWalk

CONSTANTS
    MaxInt = 15
    MaxFieldNumber = 11
    FirstReserved = 6
    LastReserved = 7
    MaxSuggestions = 3
    Top = Top
    top = Top
    m = m
    n = n
    e = e
    f = f
    g = g
    Jobs <- MCJobs
SPECIFICATION Spec
INVARIANTS
    OffendersAreNamed
    ReuseIsNeverSilent
    FreeNumbersAreFree
    SymbolsAreUnique
    DerivedNamesStayApart
    DescriptorsAreSound
    DefaultsAreExact

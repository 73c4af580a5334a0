CONSTANTS
    Narrow = 2
    Wide = 4
    Families <- MCFamilies
SPECIFICATION Spec
INVARIANTS
    RecordedAsWritten
    RefusedForCause
    CanonicalMeansTheSame
    OutputsAreExact
    LocationsLead
PROPERTY ParserAdvances

CONSTANTS
    Narrow = 2
    Wide = 4
    Families <- MCRetentionFamilies
SPECIFICATION Spec
INVARIANT SourceStaysBehind

CONSTANTS
    Narrow = 3
    Wide = 4
    MaxDepth = 3
    MaxChunks = 3
    Files <- MCFiles
    Jobs <- MCJobs
SPECIFICATION Spec
INVARIANTS
    RawDecodedWhole
    DecodedAsMerged

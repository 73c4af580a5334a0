CONSTANTS
    c1 = c1
    c2 = c2
    d1 = d1
    d2 = d2
    None = None
    Call = {c1, c2}
    Dir = {d1, d2}
    Cwd <- MCCwd
    Compilers <- MCCompilers
    Requests <- MCRequests
SYMMETRY MCSymmetry
SPECIFICATION Spec
INVARIANTS
    NothingLeftBehind
    NamesLeadToFiles
    PositionsFromIndex

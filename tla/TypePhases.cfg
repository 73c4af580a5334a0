CONSTANTS
    a = a
    b = b
    x = x
    y = y
    z = z
    w = w
    ey = ey
    ez = ez
    File = {x, y, z, w}
    Ident = {a, b}
    Extension = {ey, ez}
    Jobs <- MCJobs
SPECIFICATION Spec
INVARIANTS
    TableIsVisible
    SoundResolution
    UndefinedAreReported
    UnusedAreRemovable
PROPERTIES
    Termination

CONSTANTS
    a = a
    b = b
    c = c
    File = {a, b, c}
    MaxImports = 2
    Jobs <- MCJobs
SPECIFICATION Spec
PROPERTY DescriptorSetsAreFallback

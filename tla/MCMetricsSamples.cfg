SPECIFICATION Spec
CONSTANTS
    PoolSize = 1
    SegmentCount = 1
    Measured = {1}
    Results <- MCErrors
    MaxErrorSamples = 2
    MaxSamples = 1
    MaxResults = 2
INVARIANTS
    SegmentErrorCounts

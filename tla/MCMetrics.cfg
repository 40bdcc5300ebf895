SPECIFICATION Spec
CONSTANTS
    PoolSize = 2
    SegmentCount = 3
    Measured = {2, 3}
    Results <- MCResults
    MaxErrorSamples = 2
    MaxSamples = 1
    MaxResults = 3
INVARIANTS
    CountsExact
    AgreementExact
    ErrorSamplesHonest

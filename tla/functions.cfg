CONSTANTS
    Width = 5
    MaxUsize = 65535
    MaxSamples = 6
    MaxLatency = 4
    IdCharacter = {"a", "b", "1", "2"}
    MAX_NODE_ID_BYTES = 4
    MAX_LEASE_SECONDS = 300
    Error = Error
SPECIFICATION FunctionsSpec
INVARIANTS
    LeadingBitsDecide
    PercentileIsNearestRank
    RequestsKeepTheirMeaning
    SignedTextsDiffer
CHECK_DEADLOCK FALSE

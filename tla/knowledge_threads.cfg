CONSTANTS
    Threads = {t1, t2}
    Contents <- Lengths
    Length <- SameLength
    Documents <- ThreeDocuments
    NoContent = NoContent
    NoDocument = NoDocument
    MaxChars = 8
    ChunkSize = 3
    Overlap = 1
    MaxChunks = 3
SPECIFICATION FairSpec
INVARIANTS TypeOK RefusedOnlyWhenTooLong
PROPERTIES ContractHolds EveryIngestEnds

\* A long regular column against a ratio of one to one: ReadsBack is violated.
CONSTANTS
    Null = Null
    HalfWord = 512
    ByteBits = 5
    WordBytes = 2
    ShortBytes = 1
    HalfBytes = 2
    Magic <- TheMagic
    MaxName = 4
    MaxBlob = 300
    MaxBytesValue = 3
    MaxDictEntries = 8
    MaxStringTable = 2
    DictProbeLimit = 2
    Families <- RegularFamilies
    Texts <- SomeTexts
    Squeeze <- SqueezeRuns
    Expand <- ExpandRuns
    XXH64 <- Digest
    CRC32C <- Digest
    FirstBytesId = 16
    MaxSegmentRows = 9
    MaxChunkUncompressed = 300
    MaxDecompressRatio = 1
    FormatVersion = 1
    MaxType = 6
    MaxColumns = 3
    MaxSegments = 3
    MaxFooterSize = 300
    WriterIDBytes = 1
    BitsPerKey = 3
    MaxProbes = 4
    OddHash = 607
    MaxBloomWords = 8
    BloomProbeCap = 2
    InvertedMaxCardinality = 1
    Codecs = {"none", "zstd", "lz4"}
    Damages = {1, 16}
    MaxTimes = 2

SPECIFICATION Spec

INVARIANT
    ReadsBack

\* A chunk or file that was read is done with.
CHECK_DEADLOCK FALSE

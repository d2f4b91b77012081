CONSTANTS
    Widths = {1, 4}
    MaxLines = 4
    MaxSymbols = 3
    MaxImports = 1
    MaxEntities = 3
    PreviewLimit = 3
    MaxChunks = 5
    MaxChunkLines = 2
    MaxSymbolChunkLines = 3
    OverlapLines = 1
    MaxCharacters = 3
    Candidates = {1, 2, 3}
    PathOf <- MCPathOf
    Length <- MCLength
    Scale = 238266000
    LaneLimit = 2
    ResultLimit = 2
    Evidences = {1, 2}
    MaxSnippet = 2
    Budgets = {2}
SPECIFICATION Spec
CHECK_DEADLOCK FALSE
INVARIANTS ChunksDescribeFile RankingIsFair

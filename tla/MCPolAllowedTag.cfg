\* getpolallowedtag and getpoladdressstatus with every shape of string or null height.
CONSTANTS
    t1 = t1
    t2 = t2
    r1 = r1
    c1 = c1
    absent = absent
    Absent = absent
    Tags <- MCTags
    Readers <- MCReaders
    Callers <- MCCallers
    TagParams <- MCTagParams
    HeightParams <- MCHeightParams
    NoTag = NoTag
    MonthBlocks = 2
    StartHeight = 1
    GetBlockSubsidy <- MCBlockSubsidy
    IntMax = 2
    LLongMax = 4
    Times = {1}
    MaxHeight = 2
    MaxRestarts = 1
    MaxReorgs = 1

SPECIFICATION AtagSpec
INVARIANT AllowedTagHeightValid

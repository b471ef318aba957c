\* A reorganisation leaves the ledger counting the disconnected block.
CONSTANTS
    t1 = t1
    t2 = t2
    r1 = r1
    Tags <- MCTags
    Readers <- MCNoReaders
    NoTag = NoTag
    MonthBlocks = 2
    StartHeight = 1
    GetBlockSubsidy <- MCBlockSubsidy
    Times = {1, 2}
    MaxHeight = 3
    MaxRestarts = 1
    MaxReorgs = 2

SPECIFICATION Spec
INVARIANT LedgerMatchesChain

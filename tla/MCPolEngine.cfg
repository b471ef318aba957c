\* Live connects, a restart with a rebuild in which any ReadBlock may fail,
\* and one RPC reader; no reorganisations.
CONSTANTS
    t1 = t1
    t2 = t2
    r1 = r1
    Tags <- MCTags
    Readers <- MCReaders
    NoTag = NoTag
    MonthBlocks = 2
    StartHeight = 1
    GetBlockSubsidy <- MCBlockSubsidy
    Times = {1, 2}
    MaxHeight = 4
    MaxRestarts = 1
    MaxReorgs = 0

SPECIFICATION Spec

INVARIANT StatusWellFormed
INVARIANT LedgerMatchesChain RebuildIsReplay
PROPERTY SamePeriodNoAccrual

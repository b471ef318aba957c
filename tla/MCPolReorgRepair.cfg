\* Disconnects before and after a restart: the rebuild restores the ledger
\* of the active chain.
CONSTANTS
    t1 = t1
    t2 = t2
    r1 = r1
    Tags <- MCTags
    Readers <- MCReaders
    NoTag = NoTag
    MonthBlocks = 2
    StartHeight = 1
    GetBlockSubsidy <- MCBlockSubsidy
    Times = {1}
    MaxHeight = 3
    MaxRestarts = 1
    MaxReorgs = 2

SPECIFICATION Spec
PROPERTY RebuildRepairsLedger

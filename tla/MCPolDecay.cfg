\* One tag, one block per month: long absences drive the score to its
\* lower clamp and back.
CONSTANTS
    t1 = t1
    t2 = t2
    r1 = r1
    Tags <- MCOneTag
    Readers <- MCReaders
    NoTag = NoTag
    MonthBlocks = 1
    StartHeight = 1
    GetBlockSubsidy <- MCBlockSubsidy
    Times = {1}
    MaxHeight = 7
    MaxRestarts = 1
    MaxReorgs = 0

SPECIFICATION Spec
INVARIANT TypeOK
INVARIANT LedgerMatchesChain
PROPERTY ImplementsLedger

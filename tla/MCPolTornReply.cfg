\* A block connects between the two ledger reads of one getpoladdressstatus call.
CONSTANTS
    t1 = t1
    t2 = t2
    r1 = r1
    Tags <- MCTags
    Readers <- MCReaders
    NoTag = NoTag
    MonthBlocks = 2
    StartHeight = 1
    GetBlockSubsidy <- MCBlockSubsidy
    Times = {1, 2}
    MaxHeight = 3
    MaxRestarts = 1
    MaxReorgs = 0

SPECIFICATION Spec
INVARIANT ReplyConsistent

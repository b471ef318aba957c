\* The loyalty page over a node that connects blocks of two tags and restarts once.
CONSTANTS
    t1 = t1
    t2 = t2
    r1 = r1
    a1 = a1
    a2 = a2
    d1 = d1
    NoAddr = none
    none = none
    Tags <- MCTags
    Addrs <- MCAddrs
    ItemText <- MCItemText
    AddrTag <- MCAddrTag
    Readers <- MCReaders
    Gui = r1
    NoTag = NoTag
    MonthBlocks = 2
    StartHeight = 1
    GetBlockSubsidy <- MCBlockSubsidy
    Times = {1}
    MaxHeight = 3
    MaxRestarts = 1
    MaxReorgs = 1

SPECIFICATION WalletSpec
INVARIANT ShownForMinerId
INVARIANT ShownLevelMatchesPoints

SPECIFICATION RunningSpec
CONSTANTS
    a1 = a1
    a2 = a2
    blocked = blocked
    Accounts = {a1, a2}
    BlockedAddrs = {blocked}
    DistributionTypes = {"airdrop", "liquidity_mining"}
    MaxRecordsPerBlock = 1
    InitialFunds = 4
    OutputLists <- MCOutputLists
    MaxBlocks = 2
    MaxDistributions = 2
    MaxRestarts = 1
INVARIANTS EveryDropAccounted
PROPERTIES ClaimEndsWithPayment EveryDropSettled

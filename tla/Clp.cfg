CONSTANTS
    aku = aku
    ceth = ceth
    cusdc = cusdc
    u1 = u1
    u2 = u2
    Denoms = {aku, ceth, cusdc}
    Senders = {u1, u2}
    AdminAccount = u2
    RegistryEntries <- MCEntries
    RegistryLists <- MCLists
    NoUnit = NoUnit
    Native = aku
    Users = {u1, u2}
    ClpModule = ClpModule
    ClpWhiteList = {u1}
    PoolThreshold = 3
    MaxWbasis = 2
    GenesisPools <- MCPools
    GenesisProviders <- MCProviders
    GenesisRegistry <- MCRegistry
    InitialCoins <- MCInitialCoins
    Amounts = {0, 3}
    Shares = {0, 1, 2}
    Asymmetries <- MCAsymmetries
    MaxMessages = 4
SPECIFICATION Spec
INVARIANTS PoolsNeverRunDry  
PROPERTIES  OnlyPermittedPoolsChange
CHECK_DEADLOCK FALSE

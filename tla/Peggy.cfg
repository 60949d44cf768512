CONSTANTS
    v1 = v1
    v2 = v2
    v3 = v3
    alice = alice
    aliceEth = aliceEth
    Validators = {v1, v2, v3}
    Honest = {v1, v2}
    Power <- MCPower
    PowerList <- MCPowerList
    AccountNumber <- MCAccountNumber
    Recipient <- MCRecipient
    NativeDenom = "native"
    NativeToken = NativeToken
    EthToken = EthToken
    EtherAmounts = {1, 2}
    InitialEther = 2
    MaxLogs = 4
    MaxFaultySteps = 1
    Prophecies <- MCProphecies
    EthThreshold = 60
    Ether = Ether
    NoSymbol = NoSymbol
    IDs = {1, 2}
    NoContent = NoContent
    Powers = {1, 2}
    ConsensusNum = 7
    ConsensusDen = 10
    Accounts = {alice}
    ModuleAccounts = {}
    EthReceivers = {aliceEth}
    Symbols = {"eth"}
    Denoms = {"ceth", "native"}
    Ceth = "ceth"
    Amounts = {1}
    Fees = {1}
    LockGasCost = 1
    BurnGasCost = 1
    PrefixedDenoms = {"ceth"}
    OracleAdmin = alice
    RegistryAdmin = alice
    NoAccount = NoAccount
    GenesisPeggy = {}
    MaxEvents = 2
    MaxSequence = 1
    Contents <- MCContents
    PeggedDenom <- MCPeggedDenom
    InitialBalance <- MCInitialBalance
    InitialSupply <- MCInitialSupply
SPECIFICATION PeggySpec
INVARIANTS EveryPaymentHasCause EveryCoinBacked
 
CHECK_DEADLOCK FALSE

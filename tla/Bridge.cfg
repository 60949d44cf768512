CONSTANTS
    Validators = {v1, v2}
    IDs = {id1}
    NoContent = NoContent
    Powers = {1}
    ConsensusNum = 7
    ConsensusDen = 10
    alice = alice
    feeAccount = feeAccount
    module = module
    Accounts = {alice, feeAccount}
    ModuleAccounts = {module}
    EthReceivers = {r1}
    Symbols = {"eth"}
    Denoms = {"ceth", "rowan"}
    Ceth = "ceth"
    Amounts = {0, 1}
    Fees = {0, 1}
    LockGasCost = 1
    BurnGasCost = 1
    PrefixedDenoms = {"ceth"}
    OracleAdmin = alice
    RegistryAdmin = feeAccount
    NoAccount = NoAccount
    GenesisPeggy = {}
    MaxEvents = 2
    MaxSequence = 1
    Contents <- MCContents
    PeggedDenom <- MCPeggedDenom
    InitialBalance <- MCInitialBalance
    InitialSupply <- MCInitialSupply
SPECIFICATION BridgeSpec
SYMMETRY MCSymmetry
INVARIANTS ModuleHoldsOnlyFees CoinsAccountedFor
PROPERTIES LedgerSpec EventKindMatchesOrigin

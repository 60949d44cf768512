CONSTANTS
    v1 = v1
    v2 = v2
    v3 = v3
    alice = alice
    usdt = usdt
    usdt2 = usdt2
    erowan = erowan
    newUsdt = newUsdt
    newEth = newEth
    EthValidators = {v1, v2, v3}
    EthPowers = {1, 2}
    MaxTotalPower = 3
    MaxValidatorCount = 3
    MaxVersion = 2
    ValsetLists <- MCRotatingValsets
    Users = {alice}
    Refusing = {}
    Ether = Ether
    Tokens <- MCTokens
    TokenSymbols <- MCTokenSymbols
    EthSymbol = "eth"
    NoSymbol = NoSymbol
    SymbolOf <- MCSymbolOf
    ToLower <- MCToLower
    NewTokenFor <- MCNewTokenFor
    GenesisSymbols = {"eth"}
    Mintable = {erowan, newUsdt}
    ERC20s = {usdt}
    ExistingTokens = {erowan}
    EthAmounts = {1}
    InitialWallet <- MCInitialWallet
    MaxLogs = 4
    ProphecyClaims <- MCLock
    ConsensusThreshold = 70
SPECIFICATION RotatingSpec
INVARIANTS NeverCompletedTwice

CONSTANTS
    admin = admin
    u = u
    Denoms <- MCDenoms
    Senders = {admin, u}
    AdminAccount = admin
    RegistryEntries <- MCEntries
    RegistryLists <- MCLists
    NoUnit = NoUnit
    Users = {u}
    Channels = {"c1", "c2"}
    FarEnd <- MCFarEnd
    FarBases = {"atom"}
    GenesisRegistry <- MCRegistry
    InitialCoins <- MCCoins
    Amounts = {1, 15}
    MaxPackets = 3
    MaxPrecision = 2
    MaxMessagesOfTx = 3
    AkuFees = {0, 1, 9, 10}
SPECIFICATION MCSpec
INVARIANTS EscrowMatchesVouchers AliasesBacked DearestMessagePaid
PROPERTIES UnescrowNeverFails
CHECK_DEADLOCK FALSE

CONSTANTS
    v1 = v1
    v2 = v2
    v3 = v3
    EthValidators = {v1, v2, v3}
    EthPowers = {0, 1, 2}
    MaxTotalPower = 4
    MaxValidatorCount = 3
    MaxVersion = 2
    ValsetLists <- MCValsetLists
    a1 = a1
    a2 = a2
    a3 = a3
    Addresses = {a1, a2, a3}
    AddBatches <- MCAddBatches
SPECIFICATION ListsSpec
INVARIANTS CountersCoverActive
PROPERTY BlocklistIsSet

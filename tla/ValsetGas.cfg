CONSTANTS
    v1 = v1
    v2 = v2
    v3 = v3
    EthValidators = {v1, v2, v3}
    EthPowers = {0, 1, 2}
    MaxTotalPower = 6
    MaxValidatorCount = 4
    MaxVersion = 2
    ValsetLists <- MCValsetLists
SPECIFICATION ValsetSpec
PROPERTIES GasRecoveryKeepsCurrentSet

------------------------------- MODULE Valset -------------------------------
(***************************************************************************)
(* Valset.sol: the validators of the Ethereum side of the bridge and their *)
(* powers.  The mappings are indexed by the version of the set; versions   *)
(* only grow and only the current one is read, so the state is the current *)
(* version's.  All operations are the operator's; a require that fails     *)
(* reverts, so an action is enabled exactly when the call succeeds.        *)
(***************************************************************************)
EXTENDS Integers, Sequences, Functions, FiniteSets

CONSTANTS
    EthValidators,      \* Ethereum addresses of validators
    EthPowers,          \* powers the operator gives
    ValsetLists,        \* lists of <<validator, power>> that updateValset may be given
    MaxTotalPower,      \* bound on totalPower after addValidator
    MaxValidatorCount,  \* bound on validatorCount after addValidator
    MaxVersion          \* bound on currentValsetVersion

ASSUME EthPowersAssumption == EthPowers \subseteq Nat
ASSUME ValsetListsAssumption == ValsetLists \subseteq Seq(EthValidators \X EthPowers)
ASSUME ValsetBoundsAssumption == MaxTotalPower \in Nat /\ MaxValidatorCount \in Nat
                                  /\ MaxVersion \in Nat

VARIABLES
    active,             \* validators[.][currentValsetVersion]
    powers,             \* powers[.][currentValsetVersion]; 0 when never set or deleted
    totalPower,
    validatorCount,
    version             \* currentValsetVersion

valsetVars == <<active, powers, totalPower, validatorCount, version>>

Listed(list) == {list[i][1] : i \in DOMAIN list}

ListedPower(list, v) ==
    LET last == CHOOSE i \in DOMAIN list :
                    list[i][1] = v /\ \A j \in DOMAIN list : list[j][1] = v => j <= i
    IN  list[last][2]

ListTotal(list) == SumFunction([i \in DOMAIN list |-> list[i][2]])

\* resetValset, then addValidatorInternal for every entry of the list.
ValsetOf(list) ==
    [active |-> Listed(list),
     powers |-> [v \in EthValidators |->
                    IF v \in Listed(list) THEN ListedPower(list, v) ELSE 0],
     totalPower |-> ListTotal(list),
     validatorCount |-> Len(list)]

ValsetInit ==
    /\ version = 1
    /\ \E list \in ValsetLists :
          /\ active = ValsetOf(list).active
          /\ powers = ValsetOf(list).powers
          /\ totalPower = ValsetOf(list).totalPower
          /\ validatorCount = ValsetOf(list).validatorCount

AddValidator(v, p) ==
    /\ totalPower + p <= MaxTotalPower
    /\ validatorCount < MaxValidatorCount
    /\ validatorCount' = validatorCount + 1
    /\ totalPower' = totalPower + p
    /\ active' = active \cup {v}
    /\ powers' = [powers EXCEPT ![v] = p]
    /\ UNCHANGED version

\* Defect: the new power is not added to the total.
UpdateValidatorPowerForgets(v, p) ==
    /\ v \in active
    /\ powers[v] <= totalPower
    /\ totalPower' = totalPower - powers[v]
    /\ powers' = [powers EXCEPT ![v] = p]
    /\ UNCHANGED <<active, validatorCount, version>>

UpdateValidatorPower(v, p) ==
    /\ v \in active
    /\ powers[v] <= totalPower
    /\ totalPower' = totalPower - powers[v] + p
    /\ powers' = [powers EXCEPT ![v] = p]
    /\ UNCHANGED <<active, validatorCount, version>>

RemoveValidator(v) ==
    /\ v \in active
    /\ validatorCount > 0
    /\ powers[v] <= totalPower
    /\ validatorCount' = validatorCount - 1
    /\ totalPower' = totalPower - powers[v]
    /\ active' = active \ {v}
    /\ powers' = [powers EXCEPT ![v] = 0]
    /\ UNCHANGED version

UpdateValset(list) ==
    /\ version < MaxVersion
    /\ version' = version + 1
    /\ active' = ValsetOf(list).active
    /\ powers' = ValsetOf(list).powers
    /\ totalPower' = ValsetOf(list).totalPower
    /\ validatorCount' = ValsetOf(list).validatorCount

\* Checks the version it is given and deletes from the current one.
RecoverGas(valsetVersion, v) ==
    /\ valsetVersion < version
    /\ active' = active \ {v}
    /\ powers' = [powers EXCEPT ![v] = 0]
    /\ UNCHANGED <<totalPower, validatorCount, version>>

OperatorStep ==
    \/ \E v \in EthValidators :
          \/ RemoveValidator(v)
          \/ \E p \in EthPowers : AddValidator(v, p) \/ UpdateValidatorPower(v, p)
    \/ \E list \in ValsetLists : UpdateValset(list)
    \/ \E valsetVersion \in 0..MaxVersion, v \in EthValidators :
          RecoverGas(valsetVersion, v)

ValsetSpec == ValsetInit /\ [][OperatorStep]_valsetVars

-----------------------------------------------------------------------------
\* Types.
ValsetTypeOK ==
    /\ active \subseteq EthValidators
    /\ powers \in [EthValidators -> EthPowers \cup {0}]
    /\ totalPower \in Nat
    /\ validatorCount \in Nat
    /\ version \in Nat

\* totalPower and validatorCount are never less than what the recorded powers
\* and the active validators amount to, whatever was added twice or deleted by
\* recoverGas before, and no power outlives its validator: so the active
\* validators can be updated and removed, whose SafeMath subtractions would
\* otherwise revert.
CountersCoverActive ==
    /\ SumFunction(powers) <= totalPower
    /\ \A v \in EthValidators \ active : powers[v] = 0
    /\ Cardinality(active) <= validatorCount

\* recoverGas leaves the validator set in force alone ("Gas recovery only
\* allowed for previous validator sets").
GasRecoveryKeepsCurrentSet ==
    [][\A valsetVersion \in 0..MaxVersion, v \in EthValidators :
          RecoverGas(valsetVersion, v) => UNCHANGED <<active, powers>>]_valsetVars
=============================================================================

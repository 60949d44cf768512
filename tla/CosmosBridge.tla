---------------------------- MODULE CosmosBridge ----------------------------
(***************************************************************************)
(* CosmosBridge.sol and Oracle.sol over Valset.sol and BridgeBank.sol: the *)
(* validators sign what they saw on Cosmos, and the signature that brings  *)
(* a prophecy to the threshold unlocks or mints at the BridgeBank in the   *)
(* same transaction.  A revert there undoes the signature as well.         *)
(***************************************************************************)
EXTENDS Valset, BridgeBank

CONSTANTS
    ProphecyClaims,     \* what a prophecy id, a hash of all its fields, stands for
    ConsensusThreshold  \* percent of totalPower

BurnClaim == "burn"
LockClaim == "lock"

\* Sender and sequence on Cosmos only tell two claims apart: "event".
ClaimRecord ==
    [claimType: {BurnClaim, LockClaim}, event: Nat, receiver: Users,
     symbol: TokenSymbols, amount: Nat]

ASSUME ProphecyClaimsAssumption == ProphecyClaims \subseteq ClaimRecord
ASSUME ThresholdAssumption == ConsensusThreshold \in 1..100

VARIABLES
    hasMadeClaim,       \* [ProphecyClaims -> SUBSET EthValidators]
    signedPower,        \* oracleClaimValidators: powers of the signers when they signed
    completions         \* [ProphecyClaims -> number of LogProphecyCompleted]

bridgeVars == <<hasMadeClaim, signedPower, completions>>
vars == <<active, powers, totalPower, validatorCount, version,
          paused, ethWhiteList, cosmosWhiteList, lockedTokenList,
          controlledBridgeTokens, lowerToUpperTokens, blocklisted, held,
          wallet, lockBurnNonce, logs,
          hasMadeClaim, signedPower, completions>>

BridgeInit ==
    /\ ValsetInit
    /\ BankInit
    /\ hasMadeClaim = [p \in ProphecyClaims |-> {}]
    /\ signedPower = [p \in ProphecyClaims |-> 0]
    /\ completions = [p \in ProphecyClaims |-> 0]

\* Defect: the signed power is compared with the percentage itself.
ReachedAlone(signed, total) == signed * 100 >= ConsensusThreshold

\* getProphecyThreshold
Reached(signed, total) == signed * 100 >= total * ConsensusThreshold

ProphecyCompleted(p) == Reached(signedPower[p], totalPower)

\* A prophecy nobody with power signed yet: a burn needs a token that was
\* locked, or ether; a lock deploys the bridge token when there is none.
Prepare(p) ==
    LET s == SafeLowerToUpperTokens(p.symbol)
    IN  \/ /\ signedPower[p] # 0
           /\ UNCHANGED listVars
        \/ /\ signedPower[p] = 0
           /\ p.claimType = BurnClaim
           /\ lockedTokenList[s] # Ether \/ s = EthSymbol
           /\ UNCHANGED listVars
        \/ /\ signedPower[p] = 0
           /\ p.claimType = LockClaim
           /\ IF controlledBridgeTokens[s] = Ether
              THEN CreateNewBridgeToken(s)
              ELSE UNCHANGED listVars

\* The symbol reads the same before and after the bridge token is created.
CompleteProphecyClaim(p) ==
    \/ /\ p.claimType = BurnClaim
       /\ Unlock(p.receiver, p.symbol, p.amount)
    \/ /\ p.claimType = LockClaim
       /\ MintBridgeTokens(p.receiver, p.symbol, p.amount, controlledBridgeTokens')

\* Defect: without the hasMadeClaim check.
NewProphecyClaimTwice(v, p) ==
    /\ v \in active
    /\ ~ProphecyCompleted(p)
    /\ Prepare(p)
    /\ hasMadeClaim' = [hasMadeClaim EXCEPT ![p] = @ \cup {v}]
    /\ signedPower' = [signedPower EXCEPT ![p] = @ + powers[v]]
    /\ IF Reached(signedPower'[p], totalPower)
       THEN /\ CompleteProphecyClaim(p)
            /\ completions' = [completions EXCEPT ![p] = @ + 1]
       ELSE UNCHANGED <<fundVars, completions>>
    /\ UNCHANGED <<valsetVars, paused, blocklisted>>

\* Defect: without the prophecyCompleted check.
NewProphecyClaimLate(v, p) ==
    /\ v \in active
    /\ v \notin hasMadeClaim[p]
    /\ Prepare(p)
    /\ hasMadeClaim' = [hasMadeClaim EXCEPT ![p] = @ \cup {v}]
    /\ signedPower' = [signedPower EXCEPT ![p] = @ + powers[v]]
    /\ IF Reached(signedPower'[p], totalPower)
       THEN /\ CompleteProphecyClaim(p)
            /\ completions' = [completions EXCEPT ![p] = @ + 1]
       ELSE UNCHANGED <<fundVars, completions>>
    /\ UNCHANGED <<valsetVars, paused, blocklisted>>

\* Defect: the power of the signer replaces what was signed before.
NewProphecyClaimOverwrites(v, p) ==
    /\ v \in active
    /\ ~ProphecyCompleted(p)
    /\ Prepare(p)
    /\ v \notin hasMadeClaim[p]
    /\ hasMadeClaim' = [hasMadeClaim EXCEPT ![p] = @ \cup {v}]
    /\ signedPower' = [signedPower EXCEPT ![p] = powers[v]]
    /\ IF Reached(signedPower'[p], totalPower)
       THEN /\ CompleteProphecyClaim(p)
            /\ completions' = [completions EXCEPT ![p] = @ + 1]
       ELSE UNCHANGED <<fundVars, completions>>
    /\ UNCHANGED <<valsetVars, paused, blocklisted>>

NewProphecyClaim(v, p) ==
    /\ v \in active
    /\ ~ProphecyCompleted(p)
    /\ Prepare(p)
    /\ v \notin hasMadeClaim[p]
    /\ hasMadeClaim' = [hasMadeClaim EXCEPT ![p] = @ \cup {v}]
    /\ signedPower' = [signedPower EXCEPT ![p] = @ + powers[v]]
    /\ IF Reached(signedPower'[p], totalPower)
       THEN /\ CompleteProphecyClaim(p)
            /\ completions' = [completions EXCEPT ![p] = @ + 1]
       ELSE UNCHANGED <<fundVars, completions>>
    /\ UNCHANGED <<valsetVars, paused, blocklisted>>

ClaimStep == \E v \in EthValidators, p \in ProphecyClaims : NewProphecyClaim(v, p)

ValsetStep == OperatorStep /\ UNCHANGED <<bankVars, bridgeVars>>

BankOnlyStep == BankStep /\ UNCHANGED <<valsetVars, bridgeVars>>

\* All of the contracts.
BridgeNext == ClaimStep \/ ValsetStep \/ BankOnlyStep

BridgeSpec == BridgeInit /\ [][BridgeNext]_vars

\* The validator set as it is between two changes of the operator.
StableInit == BridgeInit /\ totalPower \in Nat \ {0}

StableNext == ClaimStep \/ BankOnlyStep

StableSpec == StableInit /\ [][StableNext]_vars

\* The validator set changes while the bank serves claims only.
RotatingSpec == BridgeInit /\ [][ClaimStep \/ ValsetStep]_vars

\* Every validator runs a relayer that signs what it reads on Cosmos.
SigningSpec ==
    /\ StableSpec
    /\ \A v \in EthValidators, p \in ProphecyClaims : WF_vars(NewProphecyClaim(v, p))

-----------------------------------------------------------------------------
(***************************************************************************)
(* Properties.                                                             *)
(***************************************************************************)
\* Types of the contracts together.
BridgeTypeOK ==
    /\ ValsetTypeOK
    /\ BankTypeOK
    /\ hasMadeClaim \in [ProphecyClaims -> SUBSET EthValidators]
    /\ signedPower \in [ProphecyClaims -> Nat]
    /\ completions \in [ProphecyClaims -> Nat]

\* newProphecyClaim refuses a prophecy by comparing signed power with the
\* threshold, not by a flag: while the validator set stays put that test is
\* right, a prophecy is past the threshold exactly when it was executed, and
\* it is executed once, whatever pauses, blocklists and late signatures come.
CompletedOnceWhenReached ==
    \A p \in ProphecyClaims : completions[p] = (IF ProphecyCompleted(p) THEN 1 ELSE 0)

\* A prophecy is executed at most once ("It will not mint or burn the token
\* twice since we have the unique prophecy ID").
NeverCompletedTwice == \A p \in ProphecyClaims : completions[p] <= 1

\* A validator adds its power to a prophecy once: signed power never exceeds
\* what its signers hold while the validator set stays put.
SignedPowerIsSigners ==
    \A p \in ProphecyClaims :
        signedPower[p] = SumFunction([v \in hasMadeClaim[p] |-> powers[v]])

Open(p) == ~paused /\ p.receiver \notin blocklisted

\* A burn claim finds what it unlocks; the bound on logs leaves room.
Funded(p) ==
    /\ Len(logs) < MaxLogs
    /\ \/ p.claimType = LockClaim
       \/ LET t == lockedTokenList[SafeLowerToUpperTokens(p.symbol)]
          IN  held[t] >= p.amount /\ (t = Ether => p.symbol = EthSymbol)

\* With a fixed validator set and a bank that stays open to the receiver,
\* every claim is executed once its funds are there and the relayers have
\* signed: no quorum is lost to the order of the signatures, to other
\* prophecies, to changes of the token lists or to what users lock and burn.
EverySignedClaimExecuted ==
    \A p \in ProphecyClaims :
        []Open(p) /\ <>[]Funded(p) => <>(completions[p] = 1)
=============================================================================

-------------------------------- MODULE Peggy -------------------------------
(***************************************************************************)
(* The bridge from end to end: x/ethbridge on Cosmos, the contracts on     *)
(* Ethereum, and the validators' relayers in between, for ether and one    *)
(* coin native to Cosmos.  Both validator sets stay as they are.  Honest   *)
(* relayers claim the logs and sign the events there are; the others say   *)
(* what they like.  Cosmos is EthBridge, whose names are used as they are; *)
(* Ethereum is CosmosBridge.                                               *)
(***************************************************************************)
EXTENDS EthBridge

CONSTANTS
    Power,              \* [Validators -> power], the same on both sides
    PowerList,          \* the same, as the list the contracts were set up with
    Honest,             \* validators whose relayers work as they should
    AccountNumber,      \* [Accounts -> Nat]: tells senders apart in a prophecy ID
    Recipient,          \* [EthReceivers -> Accounts]: whom an Ethereum user names
    NativeDenom,        \* the coin native to Cosmos, and its bridge token
    NativeToken,
    EthToken,           \* the bridge token a symbol "eth" would get; no claim here asks for it
    EtherAmounts,       \* amounts Ethereum users lock and burn
    InitialEther,       \* ether of every Ethereum user at first
    MaxLogs,            \* bound on the contracts' logs
    MaxFaultySteps,     \* bound on what a faulty validator claims and signs
    Prophecies,         \* claims a relayer may sign on Ethereum
    EthThreshold,       \* percent of the power the contracts ask for
    Ether, NoSymbol     \* address(0), and the empty string

ASSUME PeggyAssumption ==
    /\ Power \in [Validators -> Powers \ {0}]
    /\ Honest \subseteq Validators
    /\ AccountNumber \in [Accounts -> Nat]
    /\ \A a, b \in Accounts : AccountNumber[a] = AccountNumber[b] => a = b
    /\ Recipient \in [EthReceivers -> Accounts]
    /\ NativeDenom \in Denoms \ {Ceth}

VARIABLES
    active, powers, totalPower, validatorCount, version,
    paused, ethWhiteList, cosmosWhiteList, lockedTokenList, controlledBridgeTokens,
    lowerToUpperTokens, blocklisted, held, wallet, lockBurnNonce, logs,
    hasMadeClaim, signedPower, completions,
    handled             \* [Honest -> number of events the relayer went through]

valsetVars == <<active, powers, totalPower, validatorCount, version>>
signatureVars == <<hasMadeClaim, signedPower, completions>>
ethereumVars ==
    <<active, powers, totalPower, validatorCount, version,
      paused, ethWhiteList, cosmosWhiteList, lockedTokenList, controlledBridgeTokens,
      lowerToUpperTokens, blocklisted, held, wallet, lockBurnNonce, logs,
      hasMadeClaim, signedPower, completions>>

peggyVars == <<vars, ethereumVars, handled>>

Ethereum == INSTANCE CosmosBridge WITH
    EthValidators <- Validators, EthPowers <- Powers, ValsetLists <- {PowerList},
    MaxTotalPower <- 0, MaxValidatorCount <- 0, MaxVersion <- 1,
    Users <- EthReceivers, Refusing <- {}, Tokens <- {NativeToken, EthToken},
    TokenSymbols <- {"eth", "enative"}, EthSymbol <- "eth",
    SymbolOf <- [t \in {NativeToken, EthToken} |->
                    IF t = EthToken THEN "eth" ELSE "enative"],
    ToLower <- [s \in {"eth", "enative"} |-> s],
    NewTokenFor <- [s \in {"eth", "enative"} |->
                       IF s = "eth" THEN EthToken ELSE NativeToken],
    GenesisSymbols <- {"eth"}, Mintable <- {NativeToken}, ERC20s <- {},
    ExistingTokens <- {}, EthAmounts <- EtherAmounts,
    InitialWallet <- [u \in EthReceivers |-> [t \in {NativeToken, EthToken, Ether} |->
                         IF t = Ether THEN InitialEther ELSE 0]],
    ProphecyClaims <- Prophecies, ConsensusThreshold <- EthThreshold

-----------------------------------------------------------------------------
(***************************************************************************)
(* What the relayers make of what they read.                               *)
(***************************************************************************)
\* EthereumEventToEthBridgeClaim: a lock keeps its symbol, a burn has it
\* translated back to the Cosmos denomination.
ClaimOfLog(l) ==
    [receiver |-> Recipient[l.user], amount |-> l.amount, claimType |-> l.type,
     symbol |-> IF l.type = LockClaim THEN "eth" ELSE NativeDenom]

\* BurnLockEventToCosmosMsg, and the prefix newProphecyClaim puts before the
\* symbol of a lock.  Of the sender's transaction only the sequence goes
\* along: messages of one transaction that say the same are one prophecy.
ProphecyOfEvent(e) ==
    [claimType |-> e.type,
     event |-> AccountNumber[e.sender] * (MaxSequence + 1) + e.sequence,
     receiver |-> e.receiver, amount |-> e.amount,
     symbol |-> IF e.type = BurnClaim THEN "eth" ELSE "enative"]

IsMade(l) == l.type \in {LockClaim, BurnClaim}

-----------------------------------------------------------------------------
(***************************************************************************)
(* Steps.                                                                  *)
(***************************************************************************)
PeggyInit ==
    /\ BridgeInit
    /\ whitelist = Validators
    /\ stake = Power
    /\ cethReceiver = NoAccount
    /\ Ethereum!BridgeInit
    /\ handled = [v \in Honest |-> 0]

CosmosUser == UserMessage /\ UNCHANGED <<ethereumVars, handled>>

\* IDs bounds the nonces.
EthereumUser ==
    /\ lockBurnNonce + 1 \in IDs
    /\ Ethereum!UserStep
    /\ UNCHANGED <<valsetVars, signatureVars, vars, handled>>

Pauser ==
    /\ Ethereum!Pause \/ Ethereum!Unpause
    /\ UNCHANGED <<valsetVars, signatureVars, vars, handled>>

\* The relayer of v claims a log of a lock or a burn.
ClaimLog(v, i) ==
    /\ IsMade(logs[i])
    /\ CreateEthBridgeClaim(v, logs[i].nonce, ClaimOfLog(logs[i]))
    /\ UNCHANGED <<ethereumVars, handled>>

\* Defect: of several new events only the last is signed.
SignLastEvent(v) ==
    /\ handled[v] < Len(events)
    /\ handled' = [handled EXCEPT ![v] = Len(events)]
    /\ LET p == ProphecyOfEvent(events[Len(events)])
       IN  IF ENABLED Ethereum!NewProphecyClaim(v, p)
           THEN Ethereum!NewProphecyClaim(v, p)
           ELSE UNCHANGED ethereumVars
    /\ UNCHANGED vars

\* The relayer of v signs the next event.  It does not look at the outcome:
\* a signature the contracts revert counts as sent.
SignNextEvent(v) ==
    /\ handled[v] < Len(events)
    /\ handled' = [handled EXCEPT ![v] = @ + 1]
    /\ LET p == ProphecyOfEvent(events[handled[v] + 1])
       IN  IF ENABLED Ethereum!NewProphecyClaim(v, p)
           THEN Ethereum!NewProphecyClaim(v, p)
           ELSE UNCHANGED ethereumVars
    /\ UNCHANGED vars

\* A validator that is not honest claims and signs whatever it likes.
FaultySteps(v) ==
    Cardinality({id \in IDs : prophecies[id].validatorClaims[v] # NoContent})
    + Cardinality({p \in Prophecies : v \in hasMadeClaim[p]})

Faulty(v) ==
    /\ FaultySteps(v) < MaxFaultySteps
    /\ \/ /\ \E id \in IDs, c \in Contents : CreateEthBridgeClaim(v, id, c)
          /\ UNCHANGED ethereumVars
       \/ /\ \E p \in Prophecies : Ethereum!NewProphecyClaim(v, p)
          /\ UNCHANGED vars
    /\ UNCHANGED handled

Relay(v) == SignNextEvent(v) \/ \E i \in DOMAIN logs : ClaimLog(v, i)

PeggyNext ==
    \/ CosmosUser
    \/ EthereumUser
    \/ Pauser
    \/ \E v \in Honest : Relay(v)
    \/ \E v \in Validators \ Honest : Faulty(v)

\* Honest relayers keep running; users, pauser and faulty validators may stop.
PeggySpec ==
    /\ PeggyInit
    /\ [][PeggyNext]_peggyVars
    /\ \A v \in Honest : /\ WF_peggyVars(SignNextEvent(v))
                         /\ WF_peggyVars(\E i \in DOMAIN logs : ClaimLog(v, i))

-----------------------------------------------------------------------------
(***************************************************************************)
(* Properties.                                                             *)
(***************************************************************************)
\* Nothing is paid on one side that was not locked or burned on the other:
\* a successful prophecy on Cosmos says what the contracts logged under its
\* nonce, and a completed one on Ethereum what an event on Cosmos says,
\* whatever the faulty validators claim and sign.
EveryPaymentHasCause ==
    /\ \A id \in Succeeded :
          \E i \in DOMAIN logs :
              /\ IsMade(logs[i])
              /\ logs[i].nonce = id
              /\ prophecies[id].finalClaim = ClaimOfLog(logs[i])
    /\ \A p \in Prophecies :
          completions[p] > 0 => \E i \in DOMAIN events : ProphecyOfEvent(events[i]) = p

Outside(t) == SumFunction([u \in EthReceivers |-> wallet[u][t]])

\* Every ceth is backed by ether the BridgeBank holds and every bridge token
\* by a coin that left circulation on Cosmos, at every moment: while claims
\* and signatures are under way, after repeated messages and lost signatures.
EveryCoinBacked ==
    /\ supply[Ceth] <= held[Ether]
    /\ Outside(NativeToken) <= InitialSupply[NativeDenom] - supply[NativeDenom]

AllSettled ==
    /\ \A i \in DOMAIN logs :
          IsMade(logs[i]) => prophecies[logs[i].nonce].finalClaim = ClaimOfLog(logs[i])
    /\ \A i \in DOMAIN events : completions[ProphecyOfEvent(events[i])] = 1

\* While the BridgeBank is never paused, whatever users lock and burn on
\* either side is paid on the other in the end, in any order of claims and
\* signatures and with a faulty minority: a message that repeats another of
\* the same transaction shares its payment.  A pause may cost a payment for
\* good, since the relayers do not repeat a reverted signature.
SettledWhileOpen == []~paused => []<>AllSettled
=============================================================================

------------------------------ MODULE EthBridge -----------------------------
(***************************************************************************)
(* The x/ethbridge keeper on top of x/oracle and x/bank.  A claim that     *)
(* makes its prophecy succeed mints and pays; a lock or burn message takes *)
(* coins out of circulation and emits the event the relayers carry to      *)
(* Ethereum.  A message is atomic: an error or a panic undoes all of it,   *)
(* the oracle's part included, so an action is enabled exactly when the    *)
(* whole handler succeeds.                                                 *)
(***************************************************************************)
EXTENDS CosmosOracle, Coins, FiniteSets

CONSTANTS
    Accounts,           \* accounts of users, the ceth receiver among them
    ModuleAccounts,     \* module accounts, which the bank refuses as receivers
    EthReceivers,       \* Ethereum addresses a message may send to
    Symbols,            \* symbols of tokens native to Ethereum
    PeggedDenom,        \* [Symbols -> Denoms]: symbol s is "c" + s on this chain
    Ceth,               \* the denomination of fees
    Amounts,            \* amounts a message may lock or burn
    Fees,               \* CethAmounts of a message
    LockGasCost,        \* least CethAmount of a lock, and of a burn
    BurnGasCost,
    PrefixedDenoms,     \* "c" followed by at least two characters
    OracleAdmin,        \* admin account of x/oracle, and of x/tokenregistry
    RegistryAdmin,
    NoAccount,          \* no ceth receiver account is set
    GenesisPeggy,       \* peggy tokens at genesis
    InitialBalance,     \* [Accounts -> coins at genesis]
    InitialSupply,      \* their total
    MaxEvents,          \* bound on emitted events
    MaxSequence         \* bound on account sequences

ASSUME PeggedDenomAssumption == PeggedDenom \in [Symbols -> Denoms]
ASSUME CethAssumption == Ceth \in Denoms
ASSUME AmountsAssumption == Amounts \subseteq Nat /\ Fees \subseteq Nat
ASSUME GasCostAssumption == LockGasCost \in Nat \ {0} /\ BurnGasCost \in Nat \ {0}
ASSUME PrefixedDenomsAssumption == PrefixedDenoms \subseteq Denoms
ASSUME AccountsAssumption ==
    /\ NoAccount \notin Accounts
    /\ ModuleAccounts \cap Accounts = {}
ASSUME GenesisPeggyAssumption == GenesisPeggy \subseteq Denoms
ASSUME GenesisBalanceAssumption ==
    /\ InitialBalance \in [Accounts -> [Denoms -> Nat]]
    /\ InitialSupply \in [Denoms -> Nat]
    /\ \A d \in Denoms :
          InitialSupply[d] = SumFunction([a \in Accounts |-> InitialBalance[a][d]])
ASSUME BoundsAssumption == MaxEvents \in Nat /\ MaxSequence \in Nat

LockClaim == "lock"
BurnClaim == "burn"

\* OracleClaimContent; the token contract follows the symbol.
ContentRecord ==
    [receiver: Accounts \cup ModuleAccounts, amount: Nat,
     claimType: {LockClaim}, symbol: Symbols]
    \cup
    [receiver: Accounts \cup ModuleAccounts, amount: Nat,
     claimType: {BurnClaim}, symbol: Denoms]

ASSUME ContentsAssumption == Contents \subseteq ContentRecord

VARIABLES
    balance,            \* [Accounts -> CoinsOf]
    moduleBalance,      \* coins of the ethbridge module account
    supply,             \* total supply kept by the bank
    peggyTokens,        \* denominations listed as pegged
    cethReceiver,       \* CethReceiverAccount, or NoAccount
    blacklist,          \* Ethereum addresses no message may send to
    sequence,           \* [Accounts -> sequence of the account's last transaction]
    events              \* lock and burn events, in order

bankVars == <<balance, moduleBalance, supply>>
bridgeVars == <<peggyTokens, cethReceiver, blacklist, sequence, events>>
vars == <<prophecies, whitelist, stake, balance, moduleBalance, supply,
          peggyTokens, cethReceiver, blacklist, sequence, events>>

Event ==
    [type: {LockClaim, BurnClaim}, sender: Accounts, sequence: 0..MaxSequence,
     receiver: EthReceivers, denom: Denoms, amount: Amounts]

ExistsPeggyToken(d) == d \in peggyTokens

IsCethReceiverAccountSet == cethReceiver # NoAccount

IsBlacklisted(r) == r \in blacklist

\* IsAdminAccount of the two keepers.
IsOracleAdmin(a) == a = OracleAdmin
IsRegistryAdmin(a) == a = RegistryAdmin

-----------------------------------------------------------------------------
(***************************************************************************)
(* Claims about Ethereum events.                                           *)
(***************************************************************************)
ClaimDenom(c) == IF c.claimType = LockClaim THEN PeggedDenom[c.symbol] ELSE c.symbol

MintedCoins(c) == Coin(ClaimDenom(c), c.amount)

\* Defect: the coins are minted and stay with the module.
ProcessSuccessfulClaimKeeps(c) ==
    /\ c.receiver \in Accounts
    /\ supply' = Plus(supply, MintedCoins(c))
    /\ moduleBalance' = Plus(moduleBalance, MintedCoins(c))
    /\ peggyTokens' = IF c.claimType = LockClaim
                      THEN peggyTokens \cup {ClaimDenom(c)} ELSE peggyTokens
    /\ UNCHANGED balance

\* Defect: a token locked on Ethereum is minted without being listed.
ProcessSuccessfulClaimUnlisted(c) ==
    /\ c.receiver \in Accounts
    /\ supply' = Plus(supply, MintedCoins(c))
    /\ balance' = [balance EXCEPT ![c.receiver] = Plus(@, MintedCoins(c))]
    /\ UNCHANGED <<moduleBalance, peggyTokens>>

\* MintCoins into the module account, then SendCoinsFromModuleToAccount,
\* which panics when the bank refuses the receiver.
ProcessSuccessfulClaim(c) ==
    LET minted == Plus(moduleBalance, MintedCoins(c))
    IN  /\ c.receiver \in Accounts
        /\ supply' = Plus(supply, MintedCoins(c))
        /\ Covers(minted, MintedCoins(c))
        /\ moduleBalance' = Minus(minted, MintedCoins(c))
        /\ balance' = [balance EXCEPT ![c.receiver] = Plus(@, MintedCoins(c))]
        /\ peggyTokens' = IF c.claimType = LockClaim
                          THEN peggyTokens \cup {ClaimDenom(c)} ELSE peggyTokens

\* Defect: pays what this claim says instead of the final claim.
CreateEthBridgeClaimPaysOwn(v, id, c) ==
    /\ ProcessClaim(v, id, c)
    /\ IF prophecies'[id].status = Success
       THEN ProcessSuccessfulClaim(c)
       ELSE UNCHANGED <<balance, moduleBalance, supply, peggyTokens>>
    /\ UNCHANGED <<cethReceiver, blacklist, sequence, events>>

CreateEthBridgeClaim(v, id, c) ==
    /\ ProcessClaim(v, id, c)
    /\ IF prophecies'[id].status = Success
       THEN ProcessSuccessfulClaim(prophecies'[id].finalClaim)
       ELSE UNCHANGED <<balance, moduleBalance, supply, peggyTokens>>
    /\ UNCHANGED <<cethReceiver, blacklist, sequence, events>>

-----------------------------------------------------------------------------
(***************************************************************************)
(* Lock and burn messages.                                                 *)
(***************************************************************************)
\* Defect: the whole deposit is destroyed, the fee with it.
TakeAndBurnFee(a, d, n, fee) ==
    LET feeCoins == Coin(Ceth, fee)
        deposit  == Plus(Coin(d, n), feeCoins)
    IN  /\ Covers(balance[a], deposit)
        /\ balance' = [balance EXCEPT ![a] = Minus(@, deposit)]
        /\ Covers(supply, deposit)
        /\ supply' = Minus(supply, deposit)
        /\ UNCHANGED moduleBalance

\* The fee goes to the ceth receiver when there is one and with the coins to
\* the module account otherwise; then the module burns the coins.
TakeAndBurn(a, d, n, fee) ==
    LET coins    == Coin(d, n)
        feeCoins == Coin(Ceth, fee)
        receiverSet == IsCethReceiverAccountSet
        afterFee == IF receiverSet
                    THEN [[balance EXCEPT ![a] = Minus(@, feeCoins)]
                             EXCEPT ![cethReceiver] = Plus(@, feeCoins)]
                    ELSE balance
        deposit  == IF receiverSet THEN coins ELSE Plus(coins, feeCoins)
        held     == Plus(moduleBalance, deposit)
    IN  /\ receiverSet => Covers(balance[a], feeCoins)
        /\ Covers(afterFee[a], deposit)
        /\ balance' = [afterFee EXCEPT ![a] = Minus(@, deposit)]
        /\ Covers(held, coins)
        /\ Covers(supply, coins)
        /\ moduleBalance' = Minus(held, coins)
        /\ supply' = Minus(supply, coins)

Emit(type, a, r, d, n) ==
    /\ Len(events) < MaxEvents
    /\ events' = Append(events,
                        [type |-> type, sender |-> a, sequence |-> sequence[a],
                         receiver |-> r, denom |-> d, amount |-> n])

\* ValidateBasic: what is refused before the handlers.
ValidLock(n, fee) == n > 0 /\ fee >= LockGasCost
ValidBurn(d, n, fee) == n > 0 /\ d \in PrefixedDenoms /\ fee >= BurnGasCost

\* With no ceth receiver, sdk.NewCoins panics on a lock of Ceth itself.
Lock(a, r, d, n, fee) ==
    /\ ValidLock(n, fee)
    /\ ~ExistsPeggyToken(d)
    /\ ~IsBlacklisted(r)
    /\ ~IsCethReceiverAccountSet => d # Ceth
    /\ TakeAndBurn(a, d, n, fee)
    /\ Emit(LockClaim, a, r, d, n)
    /\ UNCHANGED <<prophecies, whitelist, stake, peggyTokens, cethReceiver,
                   blacklist, sequence>>

Burn(a, r, d, n, fee) ==
    /\ ValidBurn(d, n, fee)
    /\ ExistsPeggyToken(d)
    /\ ~IsBlacklisted(r)
    /\ TakeAndBurn(a, d, n, fee)
    /\ Emit(BurnClaim, a, r, d, n)
    /\ UNCHANGED <<prophecies, whitelist, stake, peggyTokens, cethReceiver,
                   blacklist, sequence>>

\* The ante handler counts transactions; all messages of one share the count.
NewTransaction(a) ==
    /\ sequence[a] < MaxSequence
    /\ sequence' = [sequence EXCEPT ![a] = @ + 1]
    /\ UNCHANGED <<prophecies, whitelist, stake, balance, moduleBalance, supply,
                   peggyTokens, cethReceiver, blacklist, events>>

-----------------------------------------------------------------------------
(***************************************************************************)
(* Messages of the admin accounts.                                         *)
(***************************************************************************)
\* This message and the next emit an event of type lock as well, without the
\* attributes relayers need: they skip it, and it is left out here.
UpdateWhiteListValidator(v) ==
    /\ AddOracleWhiteList(v) \/ RemoveOracleWhiteList(v)
    /\ UNCHANGED <<bankVars, bridgeVars>>

UpdateCethReceiverAccount(a) ==
    /\ cethReceiver' = a
    /\ UNCHANGED <<prophecies, whitelist, stake, balance, moduleBalance, supply,
                   peggyTokens, blacklist, sequence, events>>

RescueCeth(a, n) ==
    /\ Covers(moduleBalance, Coin(Ceth, n))
    /\ moduleBalance' = Minus(moduleBalance, Coin(Ceth, n))
    /\ balance' = [balance EXCEPT ![a] = Plus(@, Coin(Ceth, n))]
    /\ UNCHANGED <<prophecies, whitelist, stake, supply,
                   peggyTokens, cethReceiver, blacklist, sequence, events>>

\* Drops the addresses the message does not name, adds the ones it names.
SetBlacklist(addresses) ==
    /\ blacklist' = (blacklist \cap addresses) \cup addresses
    /\ UNCHANGED <<prophecies, whitelist, stake, balance, moduleBalance, supply,
                   peggyTokens, cethReceiver, sequence, events>>

\* The state exported, and a chain started from the exported genesis: peggy
\* tokens, ceth receiver, prophecies and white list are carried over, the
\* blacklist is not.
ExportAndInitGenesis ==
    /\ blacklist' = {}
    /\ UNCHANGED <<prophecies, whitelist, stake, balance, moduleBalance, supply,
                   peggyTokens, cethReceiver, sequence, events>>

Staking(v, p) == StakingUpdate(v, p) /\ UNCHANGED <<bankVars, bridgeVars>>

BridgeInit ==
    /\ Init
    /\ balance = InitialBalance
    /\ moduleBalance = NoCoins
    /\ supply = InitialSupply
    /\ peggyTokens = GenesisPeggy
    /\ cethReceiver \in Accounts \cup {NoAccount}
    /\ blacklist = {}
    /\ sequence = [a \in Accounts |-> 0]
    /\ events = <<>>

ClaimMessage ==
    \E v \in Validators, id \in IDs, c \in Contents : CreateEthBridgeClaim(v, id, c)

UserMessage ==
    \E a \in Accounts :
        \/ NewTransaction(a)
        \/ \E r \in EthReceivers, d \in Denoms, n \in Amounts, fee \in Fees :
              \/ Lock(a, r, d, n, fee)
              \/ Burn(a, r, d, n, fee)

\* The blacklist belongs to the other admin.
AdminMessage ==
    \E from \in Accounts :
        \/ /\ IsOracleAdmin(from)
           /\ \/ \E v \in Validators : UpdateWhiteListValidator(v)
              \/ \E a \in Accounts : UpdateCethReceiverAccount(a)
              \/ \E a \in Accounts, n \in Fees : RescueCeth(a, n)
        \/ /\ IsRegistryAdmin(from)
           /\ \E addresses \in SUBSET EthReceivers : SetBlacklist(addresses)

BridgeNext ==
    \/ ClaimMessage
    \/ UserMessage
    \/ AdminMessage
    \/ ExportAndInitGenesis
    \/ \E v \in Validators, p \in Powers \cup {Unbonded} : Staking(v, p)

BridgeSpec == BridgeInit /\ [][BridgeNext]_vars

-----------------------------------------------------------------------------
(***************************************************************************)
(* Properties.                                                             *)
(***************************************************************************)
\* Types of what x/ethbridge and the bank keep.
BridgeTypeOK ==
    /\ TypeOK
    /\ balance \in [Accounts -> CoinsOf]
    /\ moduleBalance \in CoinsOf
    /\ supply \in CoinsOf
    /\ peggyTokens \subseteq Denoms
    /\ cethReceiver \in Accounts \cup {NoAccount}
    /\ blacklist \subseteq EthReceivers
    /\ sequence \in [Accounts -> 0..MaxSequence]
    /\ events \in Seq(Event)

\* Between messages the module account holds ceth fees and nothing else:
\* coins minted for a claim are all paid out, coins taken by a lock or burn
\* are all destroyed, so RescueCeth can only ever move fees.
ModuleHoldsOnlyFees == \A d \in Denoms : moduleBalance[d] # 0 => d = Ceth

Succeeded == {id \in IDs : prophecies[id].status = Success}

TotalPaid(d) ==
    SumFunction([id \in Succeeded |-> MintedCoins(prophecies[id].finalClaim)[d]])

TotalWithdrawn(d) ==
    SumFunction([i \in DOMAIN events |-> Coin(events[i].denom, events[i].amount)[d]])

\* The coins in circulation are those of genesis, plus what every successful
\* prophecy says, minus what every emitted event says; and all of them are
\* in some account.  Fees, refused payments and changes of the ceth receiver
\* neither create nor destroy any.
CoinsAccountedFor ==
    \A d \in Denoms :
        /\ supply[d] = InitialSupply[d] + TotalPaid(d) - TotalWithdrawn(d)
        /\ supply[d] = moduleBalance[d] + SumFunction([a \in Accounts |-> balance[a][d]])

CameFromEthereum(d) ==
    \/ d \in GenesisPeggy
    \/ \E id \in Succeeded : prophecies[id].finalClaim.claimType = LockClaim
                             /\ ClaimDenom(prophecies[id].finalClaim) = d

\* The kind of an outgoing event decides whether Ethereum unlocks the token
\* or mints a bridge token for it: a denomination that came from Ethereum
\* goes back by a burn, and only such a denomination does.
EventKindMatchesOrigin ==
    [][events' # events =>
          LET e == events'[Len(events')]
          IN  e.type = BurnClaim <=> CameFromEthereum(e.denom)]_vars

Ledger == INSTANCE BridgeLedger WITH
    paid <- [id \in IDs |-> prophecies[id].finalClaim],
    Minted <- MintedCoins,
    Burned <- LAMBDA e : Coin(e.denom, e.amount)

\* x/ethbridge implements BridgeLedger: each Ethereum event pays at most once
\* and exactly its final claim, in the step that finalizes the prophecy, and
\* coins leave circulation only with an event.
LedgerSpec == Ledger!Spec
=============================================================================

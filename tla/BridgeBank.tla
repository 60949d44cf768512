----------------------------- MODULE BridgeBank -----------------------------
(***************************************************************************)
(* BridgeBank.sol with CosmosBank, EthereumBank, the two token whitelists  *)
(* and Pausable: it locks ether and ERC20 tokens that go to Cosmos, unlocks*)
(* them when they come back, and mints and burns bridge tokens that stand  *)
(* for Cosmos coins.  Every call is atomic; a failed require reverts it.   *)
(***************************************************************************)
EXTENDS Integers, Sequences, Functions, FiniteSets

CONSTANTS
    Users,              \* Ethereum addresses that hold tokens
    Refusing,           \* users whose address does not accept ether
    Ether,              \* address(0): ether itself, and an unset mapping entry
    Tokens,             \* addresses of token contracts, existing or to be deployed
    TokenSymbols,       \* symbols, in upper and in lower case
    EthSymbol,          \* "eth"
    NoSymbol,           \* the empty string
    SymbolOf,           \* [Tokens -> TokenSymbols]: a contract's symbol()
    ToLower,            \* [TokenSymbols -> TokenSymbols]
    NewTokenFor,        \* [TokenSymbols -> Tokens]: the contract a deployment creates
    GenesisSymbols,     \* lowerToUpperTokens set by initialize, "eth" among them
    Mintable,           \* tokens the BridgeBank may mint
    ERC20s,             \* tokens the operator may whitelist
    ExistingTokens,     \* tokens the owner may add as bridge tokens
    EthAmounts,         \* amounts a user may lock or burn
    InitialWallet,      \* [Users -> [Assets -> Nat]]
    MaxLogs             \* bound on emitted logs

Assets == Tokens \cup {Ether}

ASSUME TokensAssumption ==
    /\ Ether \notin Tokens
    /\ Refusing \subseteq Users
    /\ Mintable \subseteq Tokens
    /\ ERC20s \subseteq Tokens
    /\ ExistingTokens \subseteq Tokens
ASSUME SymbolsAssumption ==
    /\ EthSymbol \in TokenSymbols
    /\ NoSymbol \notin TokenSymbols
    /\ GenesisSymbols \subseteq TokenSymbols
    /\ EthSymbol \in GenesisSymbols
    /\ SymbolOf \in [Tokens -> TokenSymbols]
    /\ ToLower \in [TokenSymbols -> TokenSymbols]
    /\ NewTokenFor \in [TokenSymbols -> Tokens]
    /\ \A s \in TokenSymbols : SymbolOf[NewTokenFor[s]] = s
ASSUME WalletsAssumption ==
    /\ InitialWallet \in [Users -> [Assets -> Nat]]
    /\ EthAmounts \subseteq Nat \ {0}
    /\ MaxLogs \in Nat

VARIABLES
    paused,
    ethWhiteList,               \* assets that may be locked
    cosmosWhiteList,            \* bridge tokens that may be burned
    lockedTokenList,            \* [TokenSymbols -> Assets]
    controlledBridgeTokens,     \* [TokenSymbols -> Assets]
    lowerToUpperTokens,         \* [TokenSymbols -> TokenSymbols \cup {NoSymbol}]
    blocklisted,                \* users the blocklist in force names
    held,                       \* [Assets -> Nat]: what the BridgeBank owns
    wallet,                     \* [Users -> [Assets -> Nat]]
    lockBurnNonce,
    logs                        \* LogLock, LogBurn, LogUnlock, LogBridgeTokenMint

listVars == <<ethWhiteList, cosmosWhiteList, lockedTokenList, controlledBridgeTokens,
              lowerToUpperTokens>>
fundVars == <<held, wallet, lockBurnNonce, logs>>
bankVars == <<paused, ethWhiteList, cosmosWhiteList, lockedTokenList,
              controlledBridgeTokens, lowerToUpperTokens, blocklisted, held,
              wallet, lockBurnNonce, logs>>

BankInit ==
    /\ paused = FALSE
    /\ ethWhiteList = {Ether}
    /\ cosmosWhiteList = {Ether}
    /\ lockedTokenList = [s \in TokenSymbols |-> Ether]
    /\ controlledBridgeTokens = [s \in TokenSymbols |-> Ether]
    /\ lowerToUpperTokens = [s \in TokenSymbols |->
                                IF s \in GenesisSymbols THEN s ELSE NoSymbol]
    /\ blocklisted = {}
    /\ held = [t \in Assets |-> 0]
    /\ wallet = InitialWallet
    /\ lockBurnNonce = 0
    /\ logs = <<>>

SafeLowerToUpperTokens(s) ==
    IF lowerToUpperTokens[s] = NoSymbol THEN s ELSE lowerToUpperTokens[s]

Log(event) ==
    /\ Len(logs) < MaxLogs
    /\ logs' = Append(logs, event)

-----------------------------------------------------------------------------
(***************************************************************************)
(* Users: lock and burn.                                                   *)
(***************************************************************************)
\* Ether when msg.value is positive, an ERC20 transfer otherwise; then
\* lockFunds.  The recipient is a well formed address of the other chain.
Lock(u, t, n) ==
    /\ t \in ethWhiteList
    /\ u \notin blocklisted
    /\ ~paused
    /\ wallet[u][t] >= n
    /\ wallet' = [wallet EXCEPT ![u][t] = @ - n]
    /\ held' = [held EXCEPT ![t] = @ + n]
    /\ lockBurnNonce' = lockBurnNonce + 1
    /\ LET s == IF t = Ether THEN EthSymbol ELSE SymbolOf[t]
       IN  /\ lockedTokenList' = [lockedTokenList EXCEPT ![s] = t]
           /\ Log([type |-> "lock", user |-> u, token |-> t, symbol |-> s,
                   amount |-> n, nonce |-> lockBurnNonce'])
    /\ UNCHANGED <<paused, ethWhiteList, cosmosWhiteList, controlledBridgeTokens,
                   lowerToUpperTokens, blocklisted>>

\* burnFrom destroys the user's tokens; Ether is no contract to call.
Burn(u, t, n) ==
    /\ t \in cosmosWhiteList \ {Ether}
    /\ u \notin blocklisted
    /\ ~paused
    /\ wallet[u][t] >= n
    /\ wallet' = [wallet EXCEPT ![u][t] = @ - n]
    /\ lockBurnNonce' = lockBurnNonce + 1
    /\ Log([type |-> "burn", user |-> u, token |-> t, symbol |-> SymbolOf[t],
            amount |-> n, nonce |-> lockBurnNonce'])
    /\ UNCHANGED <<held, listVars, paused, blocklisted>>

-----------------------------------------------------------------------------
(***************************************************************************)
(* CosmosBridge only: unlock, mintBridgeTokens, createNewBridgeToken.      *)
(***************************************************************************)
\* Defect: unlock without whenNotPaused.
UnlockWhilePaused(u, symbol, n) ==
    LET s == SafeLowerToUpperTokens(symbol)
        t == lockedTokenList[s]
    IN  /\ u \notin blocklisted
        /\ held[t] >= n
        /\ t = Ether => u \notin Refusing
        /\ held' = [held EXCEPT ![t] = @ - n]
        /\ wallet' = [wallet EXCEPT ![u][t] = @ + n]
        /\ Log([type |-> "unlock", user |-> u, token |-> t, symbol |-> s, amount |-> n])
        /\ UNCHANGED lockBurnNonce

\* Defect: the log always names ether.
UnlockLogsEther(u, symbol, n) ==
    LET s == SafeLowerToUpperTokens(symbol)
        t == lockedTokenList[s]
    IN  /\ ~paused
        /\ u \notin blocklisted
        /\ held[t] >= n
        /\ held' = [held EXCEPT ![t] = @ - n]
        /\ wallet' = [wallet EXCEPT ![u][t] = @ + n]
        /\ Log([type |-> "unlock", user |-> u, token |-> Ether, symbol |-> s, amount |-> n])
        /\ UNCHANGED lockBurnNonce

Unlock(u, symbol, n) ==
    LET s == SafeLowerToUpperTokens(symbol)
        t == lockedTokenList[s]
    IN  /\ ~paused
        /\ u \notin blocklisted
        /\ held[t] >= n
        /\ t = Ether => u \notin Refusing
        /\ held' = [held EXCEPT ![t] = @ - n]
        /\ wallet' = [wallet EXCEPT ![u][t] = @ + n]
        /\ Log([type |-> "unlock", user |-> u, token |-> t, symbol |-> s, amount |-> n])
        /\ UNCHANGED lockBurnNonce

\* bridgeTokens: controlledBridgeTokens after the token was created, if it was.
MintBridgeTokens(u, symbol, n, bridgeTokens) ==
    LET s == SafeLowerToUpperTokens(symbol)
        t == bridgeTokens[s]
    IN  /\ ~paused
        /\ u \notin blocklisted
        /\ t \in Mintable
        /\ wallet' = [wallet EXCEPT ![u][t] = @ + n]
        /\ Log([type |-> "mint", user |-> u, token |-> t, symbol |-> s, amount |-> n])
        /\ UNCHANGED <<held, lockBurnNonce>>

CreateNewBridgeToken(s) ==
    /\ controlledBridgeTokens' = [controlledBridgeTokens EXCEPT ![s] = NewTokenFor[s]]
    /\ cosmosWhiteList' = cosmosWhiteList \cup {NewTokenFor[s]}
    /\ lowerToUpperTokens' = [lowerToUpperTokens EXCEPT ![ToLower[s]] = s]
    /\ UNCHANGED <<ethWhiteList, lockedTokenList>>

-----------------------------------------------------------------------------
(***************************************************************************)
(* Operator, owner and pauser.                                             *)
(***************************************************************************)
\* Refuses a symbol that was locked before; a whitelisted token that nobody
\* locked yet does not count, and cannot be taken off the list.
UpdateEthWhiteList(t, inList) ==
    LET s == SymbolOf[t]
    IN  /\ inList <=> lockedTokenList[s] = Ether
        /\ lowerToUpperTokens' = [lowerToUpperTokens EXCEPT ![ToLower[s]] = s]
        /\ ethWhiteList' = IF inList THEN ethWhiteList \cup {t} ELSE ethWhiteList \ {t}
        /\ UNCHANGED <<paused, cosmosWhiteList, lockedTokenList, controlledBridgeTokens,
                       blocklisted, fundVars>>

BulkWhitelistUpdateLimits(list) ==
    /\ ethWhiteList' = ethWhiteList \cup list
    /\ lowerToUpperTokens' \in
          {f \in [TokenSymbols -> TokenSymbols \cup {NoSymbol}] :
              \A s \in TokenSymbols :
                  LET named == {SymbolOf[t] : t \in {x \in list : ToLower[SymbolOf[x]] = s}}
                  IN  IF named = {} THEN f[s] = lowerToUpperTokens[s] ELSE f[s] \in named}
    /\ UNCHANGED <<paused, cosmosWhiteList, lockedTokenList, controlledBridgeTokens,
                   blocklisted, fundVars>>

AddExistingBridgeToken(t) ==
    /\ cosmosWhiteList' = cosmosWhiteList \cup {t}
    /\ controlledBridgeTokens' = [controlledBridgeTokens EXCEPT ![SymbolOf[t]] = t]
    /\ lowerToUpperTokens' = [lowerToUpperTokens EXCEPT ![ToLower[SymbolOf[t]]] = SymbolOf[t]]
    /\ UNCHANGED <<paused, ethWhiteList, lockedTokenList, blocklisted, fundVars>>

Pause ==
    /\ ~paused
    /\ paused' = TRUE
    /\ UNCHANGED <<listVars, blocklisted, fundVars>>

Unpause ==
    /\ paused
    /\ paused' = FALSE
    /\ UNCHANGED <<listVars, blocklisted, fundVars>>

\* setBlocklist, or a change of the blocklist in force.
SetBlocklist(users) ==
    /\ blocklisted' = users
    /\ UNCHANGED <<paused, listVars, fundVars>>

UserStep ==
    \E u \in Users, n \in EthAmounts :
        \/ \E t \in Assets : Lock(u, t, n)
        \/ \E t \in Tokens : Burn(u, t, n)

ListStep ==
    \/ \E t \in ERC20s : UpdateEthWhiteList(t, TRUE) \/ UpdateEthWhiteList(t, FALSE)
    \/ \E list \in SUBSET ERC20s : BulkWhitelistUpdateLimits(list)
    \/ \E t \in ExistingTokens : AddExistingBridgeToken(t)

PauserStep ==
    \/ Pause
    \/ Unpause
    \/ \E users \in SUBSET Users : SetBlocklist(users)

BankStep == UserStep \/ ListStep \/ PauserStep

-----------------------------------------------------------------------------
(***************************************************************************)
(* Properties.                                                             *)
(***************************************************************************)
\* Types of the contract's storage.
BankTypeOK ==
    /\ paused \in BOOLEAN
    /\ ethWhiteList \subseteq Assets
    /\ cosmosWhiteList \subseteq Assets
    /\ lockedTokenList \in [TokenSymbols -> Assets]
    /\ controlledBridgeTokens \in [TokenSymbols -> Assets]
    /\ lowerToUpperTokens \in [TokenSymbols -> TokenSymbols \cup {NoSymbol}]
    /\ blocklisted \subseteq Users
    /\ held \in [Assets -> Nat]
    /\ wallet \in [Users -> [Assets -> Nat]]
    /\ lockBurnNonce \in Nat

LoggedTotal(type, t) ==
    SumFunction([i \in {j \in DOMAIN logs : logs[j].type = type /\ logs[j].token = t}
                    |-> logs[i].amount])

\* What the contract owns of an asset is what its logs say was locked and not
\* unlocked, and every token outside it was there at the start or is accounted
\* for by logged mints and burns: relayers that replay the logs see all
\* movements of funds.
LogsAccountForFunds ==
    \A t \in Assets :
        /\ held[t] = LoggedTotal("lock", t) - LoggedTotal("unlock", t)
        /\ held[t] + SumFunction([u \in Users |-> wallet[u][t]]) =
              SumFunction([u \in Users |-> InitialWallet[u][t]])
              + LoggedTotal("mint", t) - LoggedTotal("burn", t)

\* While the contract is paused no funds enter or leave it and no bridge
\* token is minted or burned ("no funds will be able to be withdrawn once the
\* contract is paused").
NoFundsMoveWhilePaused == [][paused => UNCHANGED <<held, wallet>>]_bankVars
=============================================================================

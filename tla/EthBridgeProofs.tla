-------------------------- MODULE EthBridgeProofs ---------------------------
(***************************************************************************)
(* Proofs about EthBridge, for any validators, accounts, denominations,    *)
(* contents and bounds.                                                    *)
(***************************************************************************)
EXTENDS EthBridge, CosmosOracleProofs

-----------------------------------------------------------------------------
(***************************************************************************)
(* Coins.                                                                  *)
(***************************************************************************)
LEMMA CoinType ==
    ASSUME NEW d \in Denoms, NEW n \in Nat
    PROVE  Coin(d, n) \in CoinsOf
BY DEF Coin, CoinsOf

\* Adding to an amount gives an amount.
LEMMA PlusType ==
    ASSUME NEW x \in CoinsOf, NEW y \in CoinsOf
    PROVE  Plus(x, y) \in CoinsOf
BY DEF Plus, CoinsOf

\* So does taking away what is covered.
LEMMA MinusType ==
    ASSUME NEW x \in CoinsOf, NEW y \in CoinsOf, Covers(x, y)
    PROVE  Minus(x, y) \in CoinsOf
BY DEF Minus, CoinsOf, Covers

\* What was added can be taken away again.
LEMMA PlusMinus ==
    ASSUME NEW x \in CoinsOf, NEW y \in CoinsOf
    PROVE  Minus(Plus(x, y), y) = x
BY DEF Plus, Minus, CoinsOf

\* A deposit of coins and a fee, of which the coins are taken away.
LEMMA PlusPlusMinus ==
    ASSUME NEW x \in CoinsOf, NEW y \in CoinsOf, NEW z \in CoinsOf
    PROVE  Minus(Plus(x, Plus(y, z)), y) = Plus(x, z)
BY DEF Plus, Minus, CoinsOf

\* A content says how many coins of one denomination to mint.
LEMMA MintedType ==
    ASSUME NEW c \in Contents
    PROVE  MintedCoins(c) \in CoinsOf
<1>1. c \in ContentRecord
  BY ContentsAssumption
<1>2. ClaimDenom(c) \in Denoms /\ c.amount \in Nat
  BY <1>1, PeggedDenomAssumption DEF ContentRecord, ClaimDenom, LockClaim, BurnClaim
<1>. QED
  BY <1>2, CoinType DEF MintedCoins

-----------------------------------------------------------------------------
(***************************************************************************)
(* x/ethbridge only drives x/oracle through its own operations, so every   *)
(* behaviour of the bridge is one of the oracle.                           *)
(***************************************************************************)
LEMMA BridgeStepIsOracleStep == [BridgeNext]_vars => [Next]_oracleVars
<1> SUFFICES ASSUME [BridgeNext]_vars PROVE [Next]_oracleVars
  OBVIOUS
<1>1. CASE ClaimMessage
  BY <1>1 DEF ClaimMessage, CreateEthBridgeClaim, Next, ClaimStep
<1>2. CASE UserMessage
  BY <1>2 DEF UserMessage, NewTransaction, Lock, Burn, oracleVars
<1>3. CASE AdminMessage
  BY <1>3 DEF AdminMessage, UpdateWhiteListValidator, UpdateCethReceiverAccount,
              RescueCeth, SetBlacklist, oracleVars, Next
<1>4. CASE ExportAndInitGenesis
  BY <1>4 DEF ExportAndInitGenesis, oracleVars
<1>5. CASE \E v \in Validators, p \in Powers \cup {Unbonded} : Staking(v, p)
  BY <1>5 DEF Staking, Next
<1>6. CASE UNCHANGED vars
  BY <1>6 DEF vars, oracleVars
<1>. QED
  BY <1>1, <1>2, <1>3, <1>4, <1>5, <1>6 DEF BridgeNext

\* The bridge implements the oracle it is built on, so what is proved of
\* x/oracle alone holds with every message of x/ethbridge added.
THEOREM BridgeImplementsOracle == BridgeSpec => Spec
BY BridgeStepIsOracleStep, PTL DEF BridgeSpec, BridgeInit, Spec

\* The maps of a prophecy agree, and a finalized one never changes, under
\* all messages of the bridge.
COROLLARY OracleSafetyInBridge ==
    BridgeSpec => []VotesConsistent /\ FinalizedIsFinal
BY BridgeImplementsOracle, VotesConsistentInvariant, FinalizedStaysFinal, PTL

-----------------------------------------------------------------------------
(***************************************************************************)
(* Types, and what the module account may hold.                            *)
(***************************************************************************)
\* A lock or burn destroys exactly its coins; the module account keeps at
\* most the fee.
LEMMA TakeAndBurnEffect ==
    ASSUME BridgeTypeOK,
           NEW a \in Accounts, NEW d \in Denoms, NEW n \in Amounts, NEW fee \in Fees,
           TakeAndBurn(a, d, n, fee)
    PROVE  /\ balance' \in [Accounts -> CoinsOf]
           /\ moduleBalance' \in {moduleBalance, Plus(moduleBalance, Coin(Ceth, fee))}
           /\ moduleBalance' \in CoinsOf
           /\ Covers(supply, Coin(d, n))
           /\ supply' = Minus(supply, Coin(d, n))
           /\ supply' \in CoinsOf
<1> DEFINE coins    == Coin(d, n)
           feeCoins == Coin(Ceth, fee)
           charged  == [balance EXCEPT ![a] = Minus(balance[a], feeCoins)]
           afterFee == [charged EXCEPT ![cethReceiver] = Plus(charged[cethReceiver], feeCoins)]
<1>1. coins \in CoinsOf /\ feeCoins \in CoinsOf
  BY CoinType, CethAssumption, AmountsAssumption
<1>2. /\ balance \in [Accounts -> CoinsOf]
      /\ moduleBalance \in CoinsOf
      /\ supply \in CoinsOf
      /\ cethReceiver \in Accounts \cup {NoAccount}
  BY DEF BridgeTypeOK
<1>3. Covers(supply, coins) /\ supply' = Minus(supply, coins)
  BY DEF TakeAndBurn, IsCethReceiverAccountSet
<1>4. CASE cethReceiver # NoAccount
  <2>1. /\ Covers(balance[a], feeCoins)
        /\ Covers(afterFee[a], coins)
        /\ balance' = [afterFee EXCEPT ![a] = Minus(afterFee[a], coins)]
        /\ moduleBalance' = Minus(Plus(moduleBalance, coins), coins)
    BY <1>4 DEF TakeAndBurn, IsCethReceiverAccountSet
  <2> HIDE DEF coins, feeCoins
  <2>2. charged \in [Accounts -> CoinsOf]
    BY <1>1, <1>2, <2>1, MinusType
  <2>3. afterFee \in [Accounts -> CoinsOf]
    BY <1>1, <1>2, <1>4, <2>2, PlusType
  <2> HIDE DEF afterFee
  <2>4. balance' \in [Accounts -> CoinsOf]
    BY <1>1, <2>1, <2>3, MinusType
  <2>5. moduleBalance' = moduleBalance
    BY <1>1, <1>2, <2>1, PlusMinus
  <2>. QED
    BY <1>1, <1>2, <1>3, <2>4, <2>5, MinusType DEF coins
<1>5. CASE cethReceiver = NoAccount
  <2>1. /\ Covers(balance[a], Plus(coins, feeCoins))
        /\ balance' = [balance EXCEPT ![a] = Minus(balance[a], Plus(coins, feeCoins))]
        /\ moduleBalance' = Minus(Plus(moduleBalance, Plus(coins, feeCoins)), coins)
    BY <1>5 DEF TakeAndBurn, IsCethReceiverAccountSet
  <2> HIDE DEF coins, feeCoins
  <2>2. balance' \in [Accounts -> CoinsOf]
    BY <1>1, <1>2, <2>1, PlusType, MinusType
  <2>3. moduleBalance' = Plus(moduleBalance, feeCoins)
    BY <1>1, <1>2, <2>1, PlusPlusMinus
  <2>. QED
    BY <1>1, <1>2, <1>3, <2>2, <2>3, PlusType, MinusType DEF coins, feeCoins
<1>. QED
  BY <1>4, <1>5

\* The payment of a claim leaves the module account as it was.
LEMMA PaymentEffect ==
    ASSUME BridgeTypeOK, NEW c \in Contents, ProcessSuccessfulClaim(c)
    PROVE  /\ balance' \in [Accounts -> CoinsOf]
           /\ moduleBalance' = moduleBalance
           /\ supply' = Plus(supply, MintedCoins(c))
           /\ supply' \in CoinsOf
           /\ peggyTokens' \subseteq Denoms
<1>1. MintedCoins(c) \in CoinsOf
  BY MintedType
<1>2. c \in ContentRecord
  BY ContentsAssumption
<1>3. ClaimDenom(c) \in Denoms
  BY <1>2, PeggedDenomAssumption DEF ContentRecord, ClaimDenom, LockClaim, BurnClaim
<1>4. moduleBalance' = moduleBalance
  BY <1>1, PlusMinus DEF ProcessSuccessfulClaim, BridgeTypeOK
<1>5. balance' \in [Accounts -> CoinsOf]
  BY <1>1, PlusType DEF ProcessSuccessfulClaim, BridgeTypeOK
<1>6. supply' = Plus(supply, MintedCoins(c)) /\ supply' \in CoinsOf
  BY <1>1, PlusType DEF ProcessSuccessfulClaim, BridgeTypeOK
<1>. QED
  BY <1>3, <1>4, <1>5, <1>6 DEF ProcessSuccessfulClaim, BridgeTypeOK

\* The event a lock or burn adds to the list.
LEMMA EmitType ==
    ASSUME BridgeTypeOK, NEW type \in {LockClaim, BurnClaim},
           NEW a \in Accounts, NEW r \in EthReceivers, NEW d \in Denoms, NEW n \in Amounts,
           Emit(type, a, r, d, n)
    PROVE  /\ events' \in Seq(Event)
           /\ events' = Append(events, events'[Len(events')])
           /\ events' # <<>>
           /\ events'[Len(events')].type = type
           /\ events'[Len(events')].denom = d
           /\ events'[Len(events')].amount = n
<1> DEFINE e == [type |-> type, sender |-> a, sequence |-> sequence[a],
                 receiver |-> r, denom |-> d, amount |-> n]
<1>1. e \in Event
  BY DEF Event, BridgeTypeOK
<1>2. events' = Append(events, e) /\ events \in Seq(Event)
  BY DEF Emit, BridgeTypeOK
<1>3. e.type = type /\ e.denom = d /\ e.amount = n
  OBVIOUS
<1> HIDE DEF e
<1>4. /\ events' \in Seq(Event)
      /\ Len(events') = Len(events) + 1
      /\ events'[Len(events')] = e
      /\ events' # <<>>
  BY <1>1, <1>2
<1>. QED
  BY <1>2, <1>3, <1>4

\* IInv: ModuleHoldsOnlyFees needs the types to be inductive.
LEMMA BridgeInvInit == BridgeInit => BridgeTypeOK /\ ModuleHoldsOnlyFees
<1> SUFFICES ASSUME BridgeInit PROVE BridgeTypeOK /\ ModuleHoldsOnlyFees
  OBVIOUS
<1>1. TypeOK
  BY TypeInit DEF BridgeInit
<1>2. /\ balance \in [Accounts -> CoinsOf]
      /\ moduleBalance \in CoinsOf
      /\ supply \in CoinsOf
  BY GenesisBalanceAssumption DEF BridgeInit, CoinsOf, NoCoins
<1>3. sequence \in [Accounts -> 0..MaxSequence] /\ events \in Seq(Event)
  BY BoundsAssumption DEF BridgeInit
<1>4. ModuleHoldsOnlyFees
  BY DEF BridgeInit, ModuleHoldsOnlyFees, NoCoins
<1>. QED
  BY <1>1, <1>2, <1>3, <1>4, GenesisPeggyAssumption DEF BridgeInit, BridgeTypeOK

\* Every step keeps the types and what the module account may hold.
LEMMA BridgeInvStep ==
    BridgeTypeOK /\ ModuleHoldsOnlyFees /\ [BridgeNext]_vars
    => BridgeTypeOK' /\ ModuleHoldsOnlyFees'
<1> SUFFICES ASSUME BridgeTypeOK, ModuleHoldsOnlyFees, [BridgeNext]_vars
             PROVE  BridgeTypeOK' /\ ModuleHoldsOnlyFees'
  OBVIOUS
<1>0. TypeOK'
  BY BridgeStepIsOracleStep, TypeStep DEF BridgeTypeOK
<1>1. ASSUME NEW v \in Validators, NEW id \in IDs, NEW c \in Contents,
             CreateEthBridgeClaim(v, id, c)
      PROVE  BridgeTypeOK' /\ ModuleHoldsOnlyFees'
  <2>1. CASE prophecies'[id].status = Success
    <3>1. prophecies'[id].finalClaim \in Contents
      BY <1>1, <2>1, ProcessClaimEffect
         DEF CreateEthBridgeClaim, BridgeTypeOK, Success, Failed, Pending
    <3>2. ProcessSuccessfulClaim(prophecies'[id].finalClaim)
      BY <1>1, <2>1 DEF CreateEthBridgeClaim
    <3>3. /\ balance' \in [Accounts -> CoinsOf]
          /\ moduleBalance' = moduleBalance
          /\ supply' \in CoinsOf
          /\ peggyTokens' \subseteq Denoms
      BY <3>1, <3>2, PaymentEffect
    <3>. QED
      BY <1>0, <1>1, <3>3 DEF CreateEthBridgeClaim, BridgeTypeOK, ModuleHoldsOnlyFees
  <2>2. CASE prophecies'[id].status # Success
    BY <1>0, <1>1, <2>2 DEF CreateEthBridgeClaim, BridgeTypeOK, ModuleHoldsOnlyFees
  <2>. QED
    BY <2>1, <2>2
<1>2. ASSUME NEW a \in Accounts, NEW r \in EthReceivers, NEW d \in Denoms,
             NEW n \in Amounts, NEW fee \in Fees,
             Lock(a, r, d, n, fee) \/ Burn(a, r, d, n, fee)
      PROVE  BridgeTypeOK' /\ ModuleHoldsOnlyFees'
  <2>1. TakeAndBurn(a, d, n, fee)
    BY <1>2 DEF Lock, Burn
  <2>2. /\ balance' \in [Accounts -> CoinsOf]
        /\ moduleBalance' \in {moduleBalance, Plus(moduleBalance, Coin(Ceth, fee))}
        /\ moduleBalance' \in CoinsOf
        /\ supply' \in CoinsOf
    BY <2>1, TakeAndBurnEffect
  <2>3. \A e \in Denoms : e # Ceth =>
            moduleBalance'[e] = moduleBalance[e] + 0 \/ moduleBalance'[e] = moduleBalance[e]
    BY <2>2 DEF Plus, Coin
  <2>4. ModuleHoldsOnlyFees'
    BY <2>3 DEF ModuleHoldsOnlyFees, BridgeTypeOK, CoinsOf
  <2>5. events' \in Seq(Event)
    BY <1>2, EmitType DEF Lock, Burn
  <2>. QED
    BY <1>0, <1>2, <2>2, <2>4, <2>5 DEF Lock, Burn, BridgeTypeOK
<1>3. ASSUME NEW a \in Accounts, NewTransaction(a)
      PROVE  BridgeTypeOK' /\ ModuleHoldsOnlyFees'
  <2>1. sequence' \in [Accounts -> 0..MaxSequence]
    BY <1>3, BoundsAssumption DEF NewTransaction, BridgeTypeOK
  <2>. QED
    BY <1>0, <1>3, <2>1 DEF NewTransaction, BridgeTypeOK, ModuleHoldsOnlyFees
<1>4. ASSUME NEW a \in Accounts, NEW n \in Fees, RescueCeth(a, n)
      PROVE  BridgeTypeOK' /\ ModuleHoldsOnlyFees'
  <2>1. Coin(Ceth, n) \in CoinsOf
    BY CoinType, CethAssumption, AmountsAssumption
  <2>2. moduleBalance' \in CoinsOf /\ balance' \in [Accounts -> CoinsOf]
    BY <1>4, <2>1, MinusType, PlusType DEF RescueCeth, BridgeTypeOK
  <2>3. \A e \in Denoms : e # Ceth => moduleBalance'[e] = moduleBalance[e] - 0
    BY <1>4 DEF RescueCeth, Minus, Coin
  <2>4. ModuleHoldsOnlyFees'
    BY <2>3 DEF ModuleHoldsOnlyFees, BridgeTypeOK, CoinsOf
  <2>. QED
    BY <1>0, <1>4, <2>2, <2>4 DEF RescueCeth, BridgeTypeOK
<1>5. CASE \/ \E v \in Validators : UpdateWhiteListValidator(v)
           \/ \E v \in Validators, p \in Powers \cup {Unbonded} : Staking(v, p)
           \/ UNCHANGED vars
  BY <1>0, <1>5 DEF UpdateWhiteListValidator, Staking, bankVars, bridgeVars, vars,
                    BridgeTypeOK, ModuleHoldsOnlyFees
<1>6. CASE \/ \E a \in Accounts : UpdateCethReceiverAccount(a)
           \/ \E addresses \in SUBSET EthReceivers : SetBlacklist(addresses)
           \/ ExportAndInitGenesis
  BY <1>0, <1>6 DEF UpdateCethReceiverAccount, SetBlacklist, ExportAndInitGenesis,
                    BridgeTypeOK, ModuleHoldsOnlyFees
<1>. QED
  BY <1>1, <1>2, <1>3, <1>4, <1>5, <1>6
     DEF BridgeNext, ClaimMessage, UserMessage, AdminMessage

\* Every value of the bridge's state stays in its type: in particular no
\* balance, no supply and no module balance ever goes below zero.
THEOREM BridgeTypeCorrect == BridgeSpec => []BridgeTypeOK
BY BridgeInvInit, BridgeInvStep, PTL DEF BridgeSpec

\* Between messages the module account holds nothing but ceth fees.
THEOREM ModuleHoldsOnlyFeesInvariant == BridgeSpec => []ModuleHoldsOnlyFees
BY BridgeInvInit, BridgeInvStep, PTL DEF BridgeSpec

-----------------------------------------------------------------------------
(***************************************************************************)
(* The list of peggy tokens and where the tokens came from.                *)
(***************************************************************************)
\* The list, which is all that a lock or burn looks at, has exactly the
\* denominations of genesis and of the locks on Ethereum that were paid.
ListedInv == \A d : ExistsPeggyToken(d) <=> CameFromEthereum(d)

\* A claim that completes a prophecy adds one payment and the token it is in.
LEMMA ClaimKeepsList ==
    ASSUME BridgeTypeOK, ListedInv,
           NEW v \in Validators, NEW id \in IDs, NEW c \in Contents,
           CreateEthBridgeClaim(v, id, c)
    PROVE  ListedInv'
<1> DEFINE final == prophecies'[id].finalClaim
<1>1. /\ prophecies[id].status # Success
      /\ \A other \in IDs \ {id} : prophecies'[other] = prophecies[other]
  BY ProcessClaimEffect DEF CreateEthBridgeClaim, BridgeTypeOK, Pending, Success
<1>2. ASSUME NEW claim PROVE ClaimDenom(claim)' = ClaimDenom(claim)
  BY DEF ClaimDenom
<1>3. CASE prophecies'[id].status = Success
  <2>1. peggyTokens' = IF final.claimType = LockClaim
                         THEN peggyTokens \cup {ClaimDenom(final)} ELSE peggyTokens
    BY <1>3 DEF CreateEthBridgeClaim, ProcessSuccessfulClaim
  <2>2. ASSUME NEW d
        PROVE  CameFromEthereum(d)' <=> \/ CameFromEthereum(d)
                                        \/ final.claimType = LockClaim /\ ClaimDenom(final) = d
    BY <1>1, <1>3 DEF CameFromEthereum, Succeeded, ClaimDenom
  <2> HIDE DEF final
  <2>. QED
    BY <2>1, <2>2 DEF ListedInv, ExistsPeggyToken
<1>4. CASE prophecies'[id].status # Success
  <2>1. peggyTokens' = peggyTokens
    BY <1>4 DEF CreateEthBridgeClaim
  <2>2. ASSUME NEW d PROVE CameFromEthereum(d)' <=> CameFromEthereum(d)
    BY <1>1, <1>4 DEF CameFromEthereum, Succeeded, ClaimDenom
  <2>. QED
    BY <2>1, <2>2 DEF ListedInv, ExistsPeggyToken
<1>. QED
  BY <1>3, <1>4

\* No other message changes the list or a prophecy.
LEMMA ListStep == BridgeTypeOK /\ ListedInv /\ [BridgeNext]_vars => ListedInv'
<1> SUFFICES ASSUME BridgeTypeOK, ListedInv, [BridgeNext]_vars
             PROVE  ListedInv'
  OBVIOUS
<1>1. CASE ClaimMessage
  BY <1>1, ClaimKeepsList DEF ClaimMessage
<1>2. CASE UNCHANGED <<prophecies, peggyTokens>>
  <2>1. ASSUME NEW d PROVE CameFromEthereum(d)' <=> CameFromEthereum(d)
    BY <1>2 DEF CameFromEthereum, Succeeded, ClaimDenom
  <2>. QED
    BY <1>2, <2>1 DEF ListedInv, ExistsPeggyToken
<1>3. ASSUME UserMessage PROVE UNCHANGED <<prophecies, peggyTokens>>
  BY <1>3 DEF UserMessage, NewTransaction, Lock, Burn, vars, bankVars, bridgeVars
<1>4. ASSUME AdminMessage PROVE UNCHANGED <<prophecies, peggyTokens>>
  BY <1>4 DEF AdminMessage, UpdateWhiteListValidator, AddOracleWhiteList,
              RemoveOracleWhiteList, UpdateCethReceiverAccount, RescueCeth, SetBlacklist,
              bankVars, bridgeVars
<1>5. ASSUME ExportAndInitGenesis PROVE UNCHANGED <<prophecies, peggyTokens>>
  BY <1>5 DEF ExportAndInitGenesis
<1>6. ASSUME NEW v, NEW p, Staking(v, p) PROVE UNCHANGED <<prophecies, peggyTokens>>
  BY <1>6 DEF Staking, StakingUpdate, bankVars, bridgeVars
<1>7. ASSUME UNCHANGED vars PROVE UNCHANGED <<prophecies, peggyTokens>>
  BY <1>7 DEF vars
<1>. QED
  BY <1>1, <1>2, <1>3, <1>4, <1>5, <1>6, <1>7 DEF BridgeNext

\* A token that came from Ethereum leaves by a burn event, for which Ethereum
\* unlocks it, and any other by a lock event, for which Ethereum mints: the
\* list of peggy tokens follows the payments of claims exactly.
THEOREM EventKindCorrect == BridgeSpec => EventKindMatchesOrigin
<1> DEFINE Matches == events' # events =>
                          LET e == events'[Len(events')]
                          IN  e.type = BurnClaim <=> CameFromEthereum(e.denom)
<1>1. BridgeInit => ListedInv
  BY DEF BridgeInit, Init, NewProphecy, ListedInv, ExistsPeggyToken, CameFromEthereum, Succeeded,
         Pending, Success
<1>2. BridgeTypeOK /\ ListedInv /\ [BridgeNext]_vars => [Matches]_vars
  <2> SUFFICES ASSUME BridgeTypeOK, ListedInv, BridgeNext PROVE Matches
    OBVIOUS
  <2>1. ASSUME NEW a \in Accounts, NEW r \in EthReceivers, NEW d \in Denoms,
               NEW n \in Amounts, NEW fee \in Fees, Lock(a, r, d, n, fee)
        PROVE  Matches
    <3>1. events'[Len(events')].type = LockClaim /\ events'[Len(events')].denom = d
      BY <2>1, EmitType DEF Lock
    <3>2. ~CameFromEthereum(d)
      BY <2>1 DEF Lock, ListedInv
    <3>. QED
      BY <3>1, <3>2 DEF LockClaim, BurnClaim
  <2>2. ASSUME NEW a \in Accounts, NEW r \in EthReceivers, NEW d \in Denoms,
               NEW n \in Amounts, NEW fee \in Fees, Burn(a, r, d, n, fee)
        PROVE  Matches
    <3>1. events'[Len(events')].type = BurnClaim /\ events'[Len(events')].denom = d
      BY <2>2, EmitType DEF Burn
    <3>2. CameFromEthereum(d)
      BY <2>2 DEF Burn, ListedInv
    <3>. QED
      BY <3>1, <3>2
  <2>3. ASSUME UNCHANGED events PROVE Matches
    BY <2>3
  <2> HIDE DEF Matches
  <2>. QED
    BY <2>1, <2>2, <2>3
       DEF BridgeNext, ClaimMessage, CreateEthBridgeClaim, UserMessage, AdminMessage,
           NewTransaction, UpdateWhiteListValidator, UpdateCethReceiverAccount, RescueCeth,
           SetBlacklist, ExportAndInitGenesis, Staking, bridgeVars
<1>. QED
  BY <1>1, <1>2, ListStep, BridgeTypeCorrect, PTL DEF BridgeSpec, EventKindMatchesOrigin

-----------------------------------------------------------------------------
(***************************************************************************)
(* Refinement: EthBridge implements BridgeLedger.                          *)
(***************************************************************************)
LEMMA LedgerInit == BridgeInit => Ledger!Init
BY GenesisBalanceAssumption
   DEF BridgeInit, Init, NewProphecy, Ledger!Init, Ledger!CoinsOf

\* Every step of the bridge is a step of the ledger or changes none of its state.
LEMMA LedgerStep ==
    BridgeTypeOK /\ [BridgeNext]_vars => [Ledger!Next]_(Ledger!ledgerVars)
<1> SUFFICES ASSUME BridgeTypeOK, [BridgeNext]_vars
             PROVE  [Ledger!Next]_(Ledger!ledgerVars)
  OBVIOUS
<1> DEFINE paid == [id \in IDs |-> prophecies[id].finalClaim]
<1>1. ASSUME NEW v \in Validators, NEW id \in IDs, NEW c \in Contents,
             CreateEthBridgeClaim(v, id, c)
      PROVE  [Ledger!Next]_(Ledger!ledgerVars)
  <2>1. /\ prophecies[id].finalClaim = NoContent
        /\ \A other \in IDs \ {id} : prophecies'[other] = prophecies[other]
    BY <1>1, ProcessClaimEffect DEF CreateEthBridgeClaim, BridgeTypeOK
  <2>2. CASE prophecies'[id].status = Success
    <3>1. PICK final \in Contents : final = prophecies'[id].finalClaim
      BY <1>1, <2>2, ProcessClaimEffect
         DEF CreateEthBridgeClaim, BridgeTypeOK, Success, Failed, Pending
    <3>2. supply' = Plus(supply, MintedCoins(final)) /\ events' = events
      BY <1>1, <2>2, <3>1 DEF CreateEthBridgeClaim, ProcessSuccessfulClaim
    <3>3. paid' = [paid EXCEPT ![id] = final] /\ paid[id] = NoContent
      BY <2>1, <3>1
    <3>4. Ledger!Pay(id, final)
      BY <3>2, <3>3 DEF Ledger!Pay, Ledger!Plus, Plus
    <3>. QED
      BY <3>1, <3>4 DEF Ledger!Next
  <2>3. CASE prophecies'[id].status # Success
    <3>1. prophecies'[id].finalClaim = NoContent
      BY <1>1, <2>3, ProcessClaimEffect DEF CreateEthBridgeClaim, BridgeTypeOK
    <3>2. paid' = paid
      BY <2>1, <3>1
    <3>. QED
      BY <1>1, <2>3, <3>2 DEF CreateEthBridgeClaim, Ledger!ledgerVars
  <2>. QED
    BY <2>2, <2>3
<1>2. ASSUME NEW a \in Accounts, NEW r \in EthReceivers, NEW d \in Denoms,
             NEW n \in Amounts, NEW fee \in Fees,
             Lock(a, r, d, n, fee) \/ Burn(a, r, d, n, fee)
      PROVE  Ledger!Withdraw
  <2>1. /\ Covers(supply, Coin(d, n))
        /\ supply' = Minus(supply, Coin(d, n))
    BY <1>2, TakeAndBurnEffect DEF Lock, Burn
  <2>2. /\ events' = Append(events, events'[Len(events')])
        /\ events' # <<>>
        /\ events'[Len(events')].denom = d
        /\ events'[Len(events')].amount = n
    BY <1>2, EmitType DEF Lock, Burn
  <2>3. paid' = paid
    BY <1>2 DEF Lock, Burn
  <2>. QED
    BY <2>1, <2>2, <2>3
       DEF Ledger!Withdraw, Ledger!Covers, Ledger!Minus, Covers, Minus
<1>3. CASE UNCHANGED <<prophecies, supply, events>>
  BY <1>3 DEF Ledger!ledgerVars
<1>. QED
  BY <1>1, <1>2, <1>3
     DEF BridgeNext, ClaimMessage, UserMessage, AdminMessage, NewTransaction,
         UpdateWhiteListValidator, AddOracleWhiteList, RemoveOracleWhiteList,
         UpdateCethReceiverAccount, RescueCeth, SetBlacklist, ExportAndInitGenesis,
         Staking, StakingUpdate, bankVars, bridgeVars, vars, Ledger!Next

\* x/ethbridge with x/oracle implements BridgeLedger: whatever claims,
\* list changes, staking changes and messages interleave, an Ethereum event
\* pays at most once and exactly its final claim, and coins leave
\* circulation only together with the event that records them.
THEOREM BridgeImplementsLedger == BridgeSpec => LedgerSpec
<1>1. BridgeInit => Ledger!Init
  BY LedgerInit
<1>2. BridgeTypeOK /\ [BridgeNext]_vars => [Ledger!Next]_(Ledger!ledgerVars)
  BY LedgerStep
<1>. QED
  BY <1>1, <1>2, BridgeTypeCorrect, PTL DEF BridgeSpec, LedgerSpec, Ledger!Spec
=============================================================================

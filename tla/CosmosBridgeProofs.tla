------------------------- MODULE CosmosBridgeProofs -------------------------
(***************************************************************************)
(* Proofs about CosmosBridge, for any validators, tokens, prophecies and   *)
(* threshold.                                                              *)
(***************************************************************************)
EXTENDS CosmosBridge, TLAPS

\* What the proof needs of the types: both mappings are over the prophecies.
SignatureTypes ==
    /\ signedPower = [p \in ProphecyClaims |-> signedPower[p]]
    /\ completions \in [ProphecyClaims -> Nat]

StableInv == SignatureTypes /\ CompletedOnceWhenReached

\* A positive total is not reached without a signature.
LEMMA NothingSignedNotReached ==
    ASSUME NEW total \in Nat \ {0}
    PROVE  ~Reached(0, total)
<1>1. ConsensusThreshold \in Nat /\ ConsensusThreshold >= 1
  BY ThresholdAssumption
<1>2. ASSUME NEW t \in Nat, t >= 1 PROVE total * t >= 1
  BY <1>2
<1>. QED
  BY <1>1, <1>2 DEF Reached

\* Before the first signature nothing is completed.
LEMMA StableInvInit == StableInit => StableInv
<1> SUFFICES ASSUME StableInit PROVE StableInv
  OBVIOUS
<1>1. SignatureTypes
  BY DEF StableInit, BridgeInit, SignatureTypes
<1>2. \A p \in ProphecyClaims : signedPower[p] = 0 /\ completions[p] = 0
  BY DEF StableInit, BridgeInit
<1>3. ~Reached(0, totalPower)
  BY NothingSignedNotReached DEF StableInit
<1>. QED
  BY <1>1, <1>2, <1>3 DEF StableInv, CompletedOnceWhenReached, ProphecyCompleted

\* A signature is accepted below the threshold only, so it finds a prophecy
\* that was not executed, and executes it exactly if it reaches the threshold.
LEMMA NewProphecyClaimKeepsInv ==
    ASSUME StableInv, NEW v, NEW p \in ProphecyClaims, NewProphecyClaim(v, p)
    PROVE  StableInv'
<1> DEFINE signed == signedPower[p] + powers[v]
<1>1. /\ totalPower' = totalPower
      /\ signedPower' = [signedPower EXCEPT ![p] = signed]
      /\ ~Reached(signedPower[p], totalPower)
  BY DEF NewProphecyClaim, ProphecyCompleted, valsetVars
<1>2. completions[p] = 0
  BY <1>1 DEF StableInv, CompletedOnceWhenReached, ProphecyCompleted
<1>3. IF Reached(signedPower'[p], totalPower)
      THEN completions' = [completions EXCEPT ![p] = @ + 1]
      ELSE completions' = completions
  BY DEF NewProphecyClaim
<1> HIDE DEF signed
<1>4. signedPower'[p] = signed /\ \A q \in ProphecyClaims \ {p} : signedPower'[q] = signedPower[q]
  BY <1>1 DEF StableInv, SignatureTypes
<1>5. completions'[p] = (IF Reached(signed, totalPower) THEN 1 ELSE 0)
  BY <1>2, <1>3, <1>4 DEF StableInv, SignatureTypes
<1>6. \A q \in ProphecyClaims \ {p} : completions'[q] = completions[q]
  BY <1>3 DEF StableInv, SignatureTypes
<1>7. SignatureTypes'
  BY <1>1, <1>3 DEF StableInv, SignatureTypes
<1>8. CompletedOnceWhenReached'
  <2> SUFFICES ASSUME NEW q \in ProphecyClaims
               PROVE  completions'[q] = (IF Reached(signedPower'[q], totalPower) THEN 1 ELSE 0)
    BY <1>1 DEF CompletedOnceWhenReached, ProphecyCompleted
  <2>1. CASE q = p
    BY <2>1, <1>4, <1>5
  <2>2. CASE q # p
    BY <2>2, <1>4, <1>6 DEF StableInv, CompletedOnceWhenReached, ProphecyCompleted
  <2>. QED
    BY <2>1, <2>2
<1>. QED
  BY <1>7, <1>8 DEF StableInv

\* Every step with a fixed validator set keeps the invariant.
LEMMA StableInvStep == StableInv /\ [StableNext]_vars => StableInv'
<1> SUFFICES ASSUME StableInv, [StableNext]_vars PROVE StableInv'
  OBVIOUS
<1>1. CASE ClaimStep
  BY <1>1, NewProphecyClaimKeepsInv DEF ClaimStep
<1>2. CASE UNCHANGED <<totalPower, signedPower, completions>>
  BY <1>2 DEF StableInv, SignatureTypes, CompletedOnceWhenReached, ProphecyCompleted
<1>3. CASE BankOnlyStep
  BY <1>3, <1>2 DEF BankOnlyStep, valsetVars, bridgeVars
<1>4. CASE UNCHANGED vars
  BY <1>4, <1>2 DEF vars
<1>. QED
  BY <1>1, <1>3, <1>4 DEF StableNext

\* Between two changes of the validator set, newProphecyClaim's comparison of
\* powers is as good as a flag: whatever users, lists, pauses and blocklists
\* do, a prophecy is past the threshold exactly when completeProphecyClaim ran
\* for it, and it ran once.
THEOREM StableBridgeCompletesOnce == StableSpec => []CompletedOnceWhenReached
<1>1. StableInv => CompletedOnceWhenReached
  BY DEF StableInv
<1>. QED
  BY <1>1, StableInvInit, StableInvStep, PTL DEF StableSpec

\* unlock and mintBridgeTokens require an open bank, and so do the calls of
\* users, so that a step from a paused state leaves all funds alone.
LEMMA PausedStepMovesNoFunds ==
    ASSUME paused, [BridgeNext]_vars
    PROVE  UNCHANGED <<held, wallet>>
<1>1. CASE UNCHANGED vars
  BY <1>1 DEF vars
<1>2. CASE ValsetStep
  BY <1>2 DEF ValsetStep, bankVars
<1>3. ASSUME NEW v, NEW p, NewProphecyClaim(v, p)
      PROVE  UNCHANGED <<held, wallet>>
  <2>1. ~CompleteProphecyClaim(p)
    BY DEF CompleteProphecyClaim, Unlock, MintBridgeTokens
  <2>. QED
    BY <1>3, <2>1 DEF NewProphecyClaim, fundVars
<1>4. CASE BankStep
  <2>1. ~UserStep
    BY DEF UserStep, Lock, Burn
  <2>2. CASE ListStep
    BY <2>2 DEF ListStep, UpdateEthWhiteList, BulkWhitelistUpdateLimits,
                AddExistingBridgeToken, fundVars
  <2>3. CASE PauserStep
    BY <2>3 DEF PauserStep, Pause, Unpause, SetBlocklist, fundVars
  <2>. QED
    BY <1>4, <2>1, <2>2, <2>3 DEF BankStep
<1>. QED
  BY <1>1, <1>2, <1>3, <1>4 DEF BridgeNext, ClaimStep, BankOnlyStep

\* With every operation of the contracts in play, a paused BridgeBank neither
\* pays nor takes anything.
THEOREM PausedBankIsFrozen == BridgeSpec => NoFundsMoveWhilePaused
<1>1. [BridgeNext]_vars => [paused => UNCHANGED <<held, wallet>>]_bankVars
  BY PausedStepMovesNoFunds
<1>. QED
  BY <1>1, PTL DEF BridgeSpec, NoFundsMoveWhilePaused
=============================================================================

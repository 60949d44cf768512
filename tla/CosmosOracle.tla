---------------------------- MODULE CosmosOracle ----------------------------
(***************************************************************************)
(* The x/oracle keeper: whitelisted validators claim what they saw on      *)
(* Ethereum; a prophecy collects the claims that carry one id and is       *)
(* finalized once one claim holds enough of the whitelisted voting power,  *)
(* or none can any more.  Every message is one transaction: a refused      *)
(* message changes nothing, so an action is enabled exactly when the       *)
(* handler returns without an error.                                       *)
(***************************************************************************)
EXTENDS Integers, Sequences, Functions

CONSTANTS
    Validators,         \* operator addresses of staking validators
    IDs,                \* prophecy ids (chain id, nonce and sender of an event)
    Contents,           \* contents a claim may carry
    NoContent,          \* the empty string: no claim, no final claim
    Powers,             \* consensus powers a bonded validator may have
    ConsensusNum,       \* consensusNeeded = ConsensusNum / ConsensusDen
    ConsensusDen

ASSUME NoContentAssumption == NoContent \notin Contents
ASSUME PowersAssumption == Powers \subseteq Nat
ASSUME ConsensusAssumption ==
    /\ ConsensusNum \in Nat \ {0}
    /\ ConsensusDen \in Nat \ {0}
    /\ ConsensusNum <= ConsensusDen

VARIABLES
    prophecies,         \* [IDs -> Prophecy]; an id not in the store reads as NewProphecy
    whitelist,          \* the oracle's white list, read only through membership
    stake               \* [Validators -> power of a bonded validator, or Unbonded]

oracleVars == <<prophecies, whitelist, stake>>

Pending == "pending"
Success == "success"
Failed  == "failed"

Unbonded == -1

Prophecy ==
    [status: {Pending, Success, Failed},
     finalClaim: Contents \cup {NoContent},
     claimValidators: [Contents -> Seq(Validators)],
     validatorClaims: [Validators -> Contents \cup {NoContent}]]

NewProphecy ==
    [status |-> Pending,
     finalClaim |-> NoContent,
     claimValidators |-> [c \in Contents |-> <<>>],
     validatorClaims |-> [v \in Validators |-> NoContent]]

-----------------------------------------------------------------------------
(***************************************************************************)
(* Voting power, read from x/staking at the time of the claim.             *)
(***************************************************************************)
IsBonded(v) == stake[v] # Unbonded

\* A claimant that is no longer bonded is silently ignored.
CurrentPower(v) == IF IsBonded(v) THEN stake[v] ELSE 0

TotalPower == SumFunction([v \in whitelist |-> CurrentPower(v)])

\* The list of claimants is summed entry by entry, whitelisted or not.
ClaimPower(p, c) ==
    LET claimants == p.claimValidators[c]
    IN  SumFunction([i \in DOMAIN claimants |-> CurrentPower(claimants[i])])

TotalClaimsPower(p) == SumFunction([c \in Contents |-> ClaimPower(p, c)])

ClaimsMade(p) == {c \in Contents : p.claimValidators[c] # <<>>}

\* FindHighestClaim ranges over a Go map and keeps the first of the highest
\* claims it meets, in an order the language leaves open: any of them.
HighestClaims(p) ==
    {c \in ClaimsMade(p) :
        \A d \in ClaimsMade(p) : ClaimPower(p, d) <= ClaimPower(p, c)}

\* float64 division: x/0 is +Inf, NaN or -Inf, and NaN compares false.
RatioReached(x, total) ==
    IF total = 0 THEN x > 0 ELSE x * ConsensusDen >= ConsensusNum * total

\* Defect: one unit of the power still outstanding is forgotten.
RatioMissedTooSoon(x, total) == (x - 1) * ConsensusDen < ConsensusNum * total

RatioMissed(x, total) ==
    IF total = 0 THEN x < 0 ELSE x * ConsensusDen < ConsensusNum * total

AddClaim(p, v, c) ==
    [p EXCEPT !.claimValidators[c] = Append(@, v),
              !.validatorClaims[v] = c]

\* Defect: a prophecy no content can win any more is left pending.
ProcessCompletionNeverFails(id, p) ==
    \E highestClaim \in HighestClaims(p) :
        IF RatioReached(ClaimPower(p, highestClaim), TotalPower)
        THEN prophecies' = [prophecies EXCEPT ![id] =
                               [p EXCEPT !.status = Success, !.finalClaim = highestClaim]]
        ELSE prophecies' = [prophecies EXCEPT ![id] = p]

\* Defect: the claims on all contents together are compared with the threshold.
ProcessCompletionOfAllClaims(id, p) ==
    \E highestClaim \in HighestClaims(p) :
        prophecies' = [prophecies EXCEPT ![id] =
            IF RatioReached(TotalClaimsPower(p), TotalPower)
            THEN [p EXCEPT !.status = Success, !.finalClaim = highestClaim] ELSE p]

\* processCompletion on p and SetProphecy of what it returns.
ProcessCompletion(id, p) ==
    \E highestClaim \in HighestClaims(p) :
        LET highest  == ClaimPower(p, highestClaim)
            possible == highest + TotalPower - TotalClaimsPower(p)
            reached  == RatioReached(highest, TotalPower)
            missed   == RatioMissed(possible, TotalPower)
        IN  \/ /\ reached
               /\ prophecies' = [prophecies EXCEPT ![id] =
                                   [p EXCEPT !.status = Success, !.finalClaim = highestClaim]]
            \/ /\ ~reached
               /\ missed
               /\ prophecies' = [prophecies EXCEPT ![id] = [p EXCEPT !.status = Failed]]
            \/ /\ ~reached
               /\ ~missed
               /\ prophecies' = [prophecies EXCEPT ![id] = p]

-----------------------------------------------------------------------------
(***************************************************************************)
(* Operations of the keeper.                                               *)
(***************************************************************************)
\* Defect: ProcessClaim without the ErrDuplicateMessage check.
ProcessClaimTwice(v, id, c) ==
    /\ v \in whitelist
    /\ IsBonded(v)
    /\ prophecies[id].status = Pending
    /\ ProcessCompletion(id, AddClaim(prophecies[id], v, c))
    /\ UNCHANGED <<whitelist, stake>>

\* Defect: ProcessClaim without the ErrProphecyFinalized check.
ProcessClaimLate(v, id, c) ==
    /\ v \in whitelist
    /\ IsBonded(v)
    /\ prophecies[id].validatorClaims[v] = NoContent
    /\ ProcessCompletion(id, AddClaim(prophecies[id], v, c))
    /\ UNCHANGED <<whitelist, stake>>

ProcessClaim(v, id, c) ==
    /\ v \in whitelist
    /\ IsBonded(v)
    /\ prophecies[id].status = Pending
    /\ prophecies[id].validatorClaims[v] = NoContent
    /\ ProcessCompletion(id, AddClaim(prophecies[id], v, c))
    /\ UNCHANGED <<whitelist, stake>>

\* Sent by the oracle's admin account; "add" does not look for duplicates,
\* "remove" drops every copy, so the list is a set to all its readers.
AddOracleWhiteList(v) ==
    /\ whitelist' = whitelist \cup {v}
    /\ UNCHANGED <<prophecies, stake>>

RemoveOracleWhiteList(v) ==
    /\ whitelist' = whitelist \ {v}
    /\ UNCHANGED <<prophecies, stake>>

\* x/staking: a validator bonds, unbonds, is jailed or changes its power.
StakingUpdate(v, p) ==
    /\ stake' = [stake EXCEPT ![v] = p]
    /\ UNCHANGED <<prophecies, whitelist>>

Init ==
    /\ prophecies = [id \in IDs |-> NewProphecy]
    /\ whitelist \in SUBSET Validators
    /\ stake \in [Validators -> Powers \cup {Unbonded}]

ClaimStep ==
    \E v \in Validators, id \in IDs, c \in Contents : ProcessClaim(v, id, c)

Next ==
    \/ ClaimStep
    \/ \E v \in Validators :
          \/ AddOracleWhiteList(v)
          \/ RemoveOracleWhiteList(v)
          \/ \E p \in Powers \cup {Unbonded} : StakingUpdate(v, p)

Spec == Init /\ [][Next]_oracleVars

-----------------------------------------------------------------------------
(***************************************************************************)
(* Properties.                                                             *)
(***************************************************************************)
\* Types; a prophecy has a final claim exactly when it succeeded.
TypeOK ==
    /\ prophecies \in [IDs -> Prophecy]
    /\ \A id \in IDs : prophecies[id].status = Success
                        <=> prophecies[id].finalClaim # NoContent
    /\ whitelist \subseteq Validators
    /\ stake \in [Validators -> Powers \cup {Unbonded}]

ClaimsAgree(p) ==
    \A v \in Validators, c \in Contents :
        p.validatorClaims[v] = c <=> \E i \in DOMAIN p.claimValidators[c] :
                                        p.claimValidators[c][i] = v

ListedOnce(p) ==
    \A c \in Contents : \A i, j \in DOMAIN p.claimValidators[c] :
        p.claimValidators[c][i] = p.claimValidators[c][j] => i = j

\* The two maps of a prophecy, ClaimValidators (whose power is summed) and
\* ValidatorClaims (which refuses a second claim), say the same: a validator
\* is listed under the one content it claimed, and once.  So its power counts
\* once, whatever sequence of claims and list changes came before.
VotesConsistent ==
    \A id \in IDs : ClaimsAgree(prophecies[id]) /\ ListedOnce(prophecies[id])

Supporters(p, c) == {v \in Validators : p.validatorClaims[v] = c}

PowerOf(S) == SumFunction([v \in S |-> CurrentPower(v)])

\* ProcessClaim finalizes a prophecy with success only on a content whose
\* distinct claimants hold the needed share of the whitelisted power.
SuccessHasDistinctSupport ==
    [][\A id \in IDs :
          prophecies[id].status = Pending /\ prophecies'[id].status = Success
          => LET q == prophecies'[id]
             IN  RatioReached(PowerOf(Supporters(q, q.finalClaim)), TotalPower)]_oracleVars

\* A finalized prophecy never changes again: no late claim, list change or
\* staking change reopens it, replaces its final claim or adds to its claims.
FinalizedIsFinal ==
    [][\A id \in IDs :
          prophecies[id].status # Pending => prophecies'[id] = prophecies[id]]_oracleVars

\* The most a content can still gather: what it has and every whitelisted
\* bonded validator that has not claimed yet.
StillPossible(p, c) ==
    ClaimPower(p, c) + PowerOf({v \in whitelist : p.validatorClaims[v] = NoContent})

Hopeless(p) == \A c \in Contents : ~RatioReached(StillPossible(p, c), TotalPower)

Decided(id, status) == prophecies[id].status = Pending /\ prophecies'[id].status = status

\* No claimant was taken off the white list since it claimed.
ClaimantsListed(p) == \A v \in Validators : p.validatorClaims[v] # NoContent => v \in whitelist

\* ProcessClaim fails a prophecy only when no content could win even with every
\* claim still outstanding, whatever powers changed before.
FailedIsHopeless ==
    [][\A id \in IDs :
          Decided(id, Failed) /\ ClaimantsListed(prophecies'[id])
          => Hopeless(prophecies'[id])]_oracleVars

\* The winner does not depend on the order in which FindHighestClaim visits the
\* contents, which differs from node to node: every other content has less power.
WinnerIndependentOfOrder ==
    [][\A id \in IDs :
          LET q == prophecies'[id]
          IN  Decided(id, Success) /\ ClaimantsListed(q)
              => \A c \in Contents \ {q.finalClaim} :
                    ClaimPower(q, c) < ClaimPower(q, q.finalClaim)]_oracleVars

\* The claim of the last listed validator decides, however much they disagree
\* and whoever was listed before: no prophecy waits for claims that cannot come.
LastClaimDecides ==
    [][\A id \in IDs :
          LET q == prophecies'[id]
          IN  /\ prophecies[id] # q
              /\ TotalPower > 0
              /\ \A v \in whitelist : IsBonded(v) => q.validatorClaims[v] # NoContent
              => q.status # Pending]_oracleVars
=============================================================================

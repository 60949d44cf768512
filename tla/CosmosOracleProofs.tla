------------------------- MODULE CosmosOracleProofs -------------------------
(***************************************************************************)
(* Proofs about CosmosOracle, for any validators, ids, contents and        *)
(* consensus threshold.  The sums of voting power stay opaque: nothing     *)
(* here depends on what they add up to.                                    *)
(***************************************************************************)
EXTENDS CosmosOracle, TLAPS

\* AddClaim returns a prophecy, with the status and final claim it was given.
LEMMA AddClaimType ==
    ASSUME NEW p \in Prophecy, NEW v \in Validators, NEW c \in Contents
    PROVE  /\ AddClaim(p, v, c) \in Prophecy
           /\ AddClaim(p, v, c).status = p.status
           /\ AddClaim(p, v, c).finalClaim = p.finalClaim
<1> DEFINE lists == [p.claimValidators EXCEPT ![c] = Append(p.claimValidators[c], v)]
           votes == [p.validatorClaims EXCEPT ![v] = c]
           q     == [p EXCEPT !.claimValidators = lists, !.validatorClaims = votes]
<1>1. p.claimValidators \in [Contents -> Seq(Validators)]
  BY DEF Prophecy
<1>2. lists \in [Contents -> Seq(Validators)]
  BY <1>1
<1>3. votes \in [Validators -> Contents \cup {NoContent}]
  BY DEF Prophecy
<1>4. AddClaim(p, v, c) = q
  BY DEF AddClaim, Prophecy
<1> HIDE DEF lists, votes
<1>5. q \in Prophecy /\ q.status = p.status /\ q.finalClaim = p.finalClaim
  BY <1>2, <1>3 DEF Prophecy
<1>. QED
  BY <1>4, <1>5

\* What it does to the two maps.
LEMMA AddClaimMaps ==
    ASSUME NEW p \in Prophecy, NEW v \in Validators, NEW c \in Contents
    PROVE  /\ AddClaim(p, v, c).claimValidators =
                [p.claimValidators EXCEPT ![c] = Append(p.claimValidators[c], v)]
           /\ AddClaim(p, v, c).validatorClaims = [p.validatorClaims EXCEPT ![v] = c]
BY DEF AddClaim, Prophecy

\* processCompletion only touches the status and the final claim, and only
\* of the prophecy it is given.
LEMMA ProcessCompletionFrame ==
    ASSUME NEW id \in IDs, NEW p \in Prophecy,
           prophecies \in [IDs -> Prophecy],
           ProcessCompletion(id, p)
    PROVE  /\ prophecies' \in [IDs -> Prophecy]
           /\ \A other \in IDs \ {id} : prophecies'[other] = prophecies[other]
           /\ prophecies'[id].claimValidators = p.claimValidators
           /\ prophecies'[id].validatorClaims = p.validatorClaims
           /\ \/ /\ prophecies'[id].status = Success
                 /\ prophecies'[id].finalClaim \in ClaimsMade(p)
              \/ /\ prophecies'[id].status \in {Failed, p.status}
                 /\ prophecies'[id].finalClaim = p.finalClaim
<1> DEFINE won(c) == [p EXCEPT !.status = Success, !.finalClaim = c]
           lost   == [p EXCEPT !.status = Failed]
<1>0. PICK c \in HighestClaims(p) :
        \E q \in {won(c), lost, p} : prophecies' = [prophecies EXCEPT ![id] = q]
  BY DEF ProcessCompletion
<1>1. PICK q \in {won(c), lost, p} : prophecies' = [prophecies EXCEPT ![id] = q]
  BY <1>0
<1>2. c \in ClaimsMade(p) /\ c \in Contents
  BY DEF HighestClaims, ClaimsMade
<1>3. /\ q \in Prophecy
      /\ q.claimValidators = p.claimValidators
      /\ q.validatorClaims = p.validatorClaims
      /\ \/ q.status = Success /\ q.finalClaim = c
         \/ q.status \in {Failed, p.status} /\ q.finalClaim = p.finalClaim
  <2>1. CASE q = won(c)
    BY <2>1, <1>2 DEF Prophecy
  <2>2. CASE q = lost
    BY <2>2 DEF Prophecy
  <2>3. CASE q = p
    BY <2>3
  <2>. QED
    BY <1>1, <2>1, <2>2, <2>3
<1>. QED
  BY <1>1, <1>2, <1>3

\* What an accepted claim does: it concerns one pending prophecy, which gets
\* a final claim exactly when it succeeds.
LEMMA ProcessClaimEffect ==
    ASSUME TypeOK,
           NEW v \in Validators, NEW id \in IDs, NEW c \in Contents,
           ProcessClaim(v, id, c)
    PROVE  /\ prophecies[id].status = Pending
           /\ prophecies[id].finalClaim = NoContent
           /\ prophecies' \in [IDs -> Prophecy]
           /\ \A other \in IDs \ {id} : prophecies'[other] = prophecies[other]
           /\ \/ /\ prophecies'[id].status = Success
                 /\ prophecies'[id].finalClaim \in Contents
              \/ /\ prophecies'[id].status \in {Failed, Pending}
                 /\ prophecies'[id].finalClaim = NoContent
<1> DEFINE q == AddClaim(prophecies[id], v, c)
<1>1. /\ prophecies[id] \in Prophecy
      /\ prophecies[id].status = Pending
      /\ prophecies[id].finalClaim = NoContent
  BY DEF TypeOK, ProcessClaim, Pending, Success
<1>2. /\ q \in Prophecy
      /\ q.status = Pending
      /\ q.finalClaim = NoContent
  BY <1>1, AddClaimType
<1>3. ProcessCompletion(id, q)
  BY DEF ProcessClaim
<1> HIDE DEF q
<1>4. /\ prophecies' \in [IDs -> Prophecy]
      /\ \A other \in IDs \ {id} : prophecies'[other] = prophecies[other]
      /\ \/ /\ prophecies'[id].status = Success
            /\ prophecies'[id].finalClaim \in ClaimsMade(q)
         \/ /\ prophecies'[id].status \in {Failed, Pending}
            /\ prophecies'[id].finalClaim = NoContent
  BY <1>2, <1>3, ProcessCompletionFrame DEF TypeOK
<1>. QED
  BY <1>1, <1>4 DEF ClaimsMade

\* Every claim, list change and power change keeps the types.
LEMMA TypeStep == TypeOK /\ [Next]_oracleVars => TypeOK'
<1> SUFFICES ASSUME TypeOK, [Next]_oracleVars PROVE TypeOK'
  OBVIOUS
<1>1. ASSUME NEW v \in Validators, NEW id \in IDs, NEW c \in Contents,
             ProcessClaim(v, id, c)
      PROVE  TypeOK'
  <2>1. prophecies'[id].status = Success <=> prophecies'[id].finalClaim # NoContent
    BY <1>1, ProcessClaimEffect, NoContentAssumption DEF Success, Failed, Pending
  <2>2. /\ prophecies' \in [IDs -> Prophecy]
        /\ \A other \in IDs \ {id} : prophecies'[other] = prophecies[other]
    BY <1>1, ProcessClaimEffect
  <2>. QED
    BY <1>1, <2>1, <2>2 DEF ProcessClaim, TypeOK
<1>2. ASSUME NEW v \in Validators, AddOracleWhiteList(v) PROVE TypeOK'
  BY <1>2 DEF AddOracleWhiteList, TypeOK
<1>3. ASSUME NEW v \in Validators, RemoveOracleWhiteList(v) PROVE TypeOK'
  BY <1>3 DEF RemoveOracleWhiteList, TypeOK
<1>4. ASSUME NEW v \in Validators, NEW p \in Powers \cup {Unbonded},
             StakingUpdate(v, p)
      PROVE  TypeOK'
  BY <1>4 DEF StakingUpdate, TypeOK
<1>5. CASE UNCHANGED oracleVars
  BY <1>5 DEF oracleVars, TypeOK
<1>. QED
  BY <1>1, <1>2, <1>3, <1>4, <1>5 DEF Next, ClaimStep

\* The keeper starts with no prophecy.
LEMMA TypeInit == Init => TypeOK
BY DEF Init, TypeOK, NewProphecy, Prophecy, Pending, Success

\* Every value of the state stays in its type.
THEOREM TypeCorrect == Spec => []TypeOK
BY TypeInit, TypeStep, PTL DEF Spec

-----------------------------------------------------------------------------
(***************************************************************************)
(* VotesConsistent is inductive together with TypeOK: what AddClaim adds   *)
(* is a validator that ValidatorClaims shows as not having claimed, hence, *)
(* by the agreement of the two maps, one that no list names.               *)
(***************************************************************************)
LEMMA AddClaimConsistent ==
    ASSUME NEW p \in Prophecy, NEW v \in Validators, NEW c \in Contents,
           p.validatorClaims[v] = NoContent,
           ClaimsAgree(p), ListedOnce(p)
    PROVE  ClaimsAgree(AddClaim(p, v, c)) /\ ListedOnce(AddClaim(p, v, c))
<1> DEFINE q     == AddClaim(p, v, c)
           list  == p.claimValidators[c]
           lists == [p.claimValidators EXCEPT ![c] = Append(list, v)]
           votes == [p.validatorClaims EXCEPT ![v] = c]
<1>1. q.claimValidators = lists /\ q.validatorClaims = votes
  BY AddClaimMaps
<1>2. /\ p.claimValidators \in [Contents -> Seq(Validators)]
      /\ p.validatorClaims \in [Validators -> Contents \cup {NoContent}]
      /\ list \in Seq(Validators)
  BY DEF Prophecy
<1>3. \A d \in Contents : \A i \in DOMAIN p.claimValidators[d] : p.claimValidators[d][i] # v
  BY NoContentAssumption DEF ClaimsAgree
<1>4. /\ lists[c] = Append(list, v)
      /\ \A d \in Contents \ {c} : lists[d] = p.claimValidators[d]
      /\ votes[v] = c
      /\ \A w \in Validators \ {v} : votes[w] = p.validatorClaims[w]
  BY <1>2
<1>5. /\ DOMAIN Append(list, v) = 1 .. Len(list) + 1
      /\ DOMAIN list = 1 .. Len(list)
      /\ Len(list) \in Nat
      /\ \A i \in 1 .. Len(list) : Append(list, v)[i] = list[i]
      /\ Append(list, v)[Len(list) + 1] = v
  BY <1>2
<1> HIDE DEF lists, votes, list
<1>6. ASSUME NEW w \in Validators, NEW d \in Contents
      PROVE  votes[w] = d <=> \E i \in DOMAIN lists[d] : lists[d][i] = w
  <2>1. CASE d # c
    <3>1. lists[d] = p.claimValidators[d]
      BY <2>1, <1>4
    <3>2. CASE w = v
      BY <2>1, <3>1, <3>2, <1>3, <1>4
    <3>3. CASE w # v
      BY <3>1, <3>3, <1>4 DEF ClaimsAgree
    <3>. QED
      BY <3>2, <3>3
  <2>2. CASE d = c /\ w = v
    <3>1. lists[c][Len(list) + 1] = v /\ Len(list) + 1 \in DOMAIN lists[c]
      BY <1>4, <1>5
    <3>. QED
      BY <2>2, <3>1, <1>4
  <2>3. CASE d = c /\ w # v
    <3>1. votes[w] = c <=> \E i \in DOMAIN list : list[i] = w
      BY <2>3, <1>4 DEF ClaimsAgree, list
    <3>2. (\E i \in DOMAIN list : list[i] = w) <=> (\E i \in DOMAIN lists[c] : lists[c][i] = w)
      BY <2>3, <1>4, <1>5
    <3>. QED
      BY <2>3, <3>1, <3>2
  <2>. QED
    BY <2>1, <2>2, <2>3
<1>7. ASSUME NEW d \in Contents, NEW i \in DOMAIN lists[d], NEW j \in DOMAIN lists[d],
             lists[d][i] = lists[d][j]
      PROVE  i = j
  <2>1. CASE d # c
    BY <2>1, <1>4, <1>7 DEF ListedOnce
  <2>2. CASE d = c
    <3>1. \A k \in 1 .. Len(list) : list[k] # v
      BY <1>3, <1>5 DEF list
    <3>2. \A k, l \in 1 .. Len(list) : list[k] = list[l] => k = l
      BY <1>5 DEF ListedOnce, list
    <3>. QED
      BY <2>2, <3>1, <3>2, <1>4, <1>5, <1>7
  <2>. QED
    BY <2>1, <2>2
<1>. QED
  BY <1>1, <1>6, <1>7 DEF ClaimsAgree, ListedOnce

\* The two claim maps of every prophecy agree and no validator is listed
\* twice, whatever claims, list changes and staking changes came before.
THEOREM VotesConsistentInvariant == Spec => []VotesConsistent
<1>1. Init => VotesConsistent
  BY NoContentAssumption DEF Init, VotesConsistent, ClaimsAgree, ListedOnce, NewProphecy
<1>2. TypeOK /\ VotesConsistent /\ [Next]_oracleVars => VotesConsistent'
  <2> SUFFICES ASSUME TypeOK, VotesConsistent, [Next]_oracleVars
               PROVE  VotesConsistent'
    OBVIOUS
  <2>1. ASSUME NEW v \in Validators, NEW id \in IDs, NEW c \in Contents,
               ProcessClaim(v, id, c)
        PROVE  VotesConsistent'
    <3> DEFINE q == AddClaim(prophecies[id], v, c)
    <3>1. prophecies[id] \in Prophecy /\ prophecies \in [IDs -> Prophecy]
      BY DEF TypeOK
    <3>2. ClaimsAgree(q) /\ ListedOnce(q)
      BY <2>1, <3>1, AddClaimConsistent DEF ProcessClaim, VotesConsistent
    <3>3. q \in Prophecy
      BY <3>1, AddClaimType
    <3>4. ProcessCompletion(id, q)
      BY <2>1 DEF ProcessClaim
    <3> HIDE DEF q
    <3>5. /\ \A other \in IDs \ {id} : prophecies'[other] = prophecies[other]
          /\ prophecies'[id].claimValidators = q.claimValidators
          /\ prophecies'[id].validatorClaims = q.validatorClaims
      BY <3>1, <3>3, <3>4, ProcessCompletionFrame
    <3>6. ClaimsAgree(prophecies'[id]) /\ ListedOnce(prophecies'[id])
      BY <3>2, <3>5 DEF ClaimsAgree, ListedOnce
    <3>. QED
      BY <3>5, <3>6 DEF VotesConsistent
  <2>2. CASE UNCHANGED prophecies
    BY <2>2 DEF VotesConsistent
  <2>. QED
    BY <2>1, <2>2 DEF Next, ClaimStep, AddOracleWhiteList, RemoveOracleWhiteList,
                      StakingUpdate, oracleVars
<1>. QED
  BY <1>1, <1>2, TypeCorrect, PTL DEF Spec

\* No step of any actor changes a prophecy that is no longer pending.
THEOREM FinalizedStaysFinal == Spec => FinalizedIsFinal
<1>1. TypeOK /\ [Next]_oracleVars
      => [\A id \in IDs : prophecies[id].status # Pending
                            => prophecies'[id] = prophecies[id]]_oracleVars
  <2> SUFFICES ASSUME TypeOK, [Next]_oracleVars,
                      NEW id \in IDs, prophecies[id].status # Pending
               PROVE  prophecies'[id] = prophecies[id]
    OBVIOUS
  <2>1. ASSUME NEW v \in Validators, NEW other \in IDs, NEW c \in Contents,
               ProcessClaim(v, other, c)
        PROVE  prophecies'[id] = prophecies[id]
    <3>1. id # other
      BY <2>1 DEF ProcessClaim
    <3>2. AddClaim(prophecies[other], v, c) \in Prophecy
      BY AddClaimType DEF TypeOK
    <3>. QED
      BY <2>1, <3>1, <3>2, ProcessCompletionFrame DEF ProcessClaim, TypeOK
  <2>2. CASE UNCHANGED prophecies
    BY <2>2
  <2>. QED
    BY <2>1, <2>2 DEF Next, ClaimStep, AddOracleWhiteList, RemoveOracleWhiteList,
                      StakingUpdate, oracleVars
<1>. QED
  BY <1>1, TypeCorrect, PTL DEF Spec, FinalizedIsFinal
=============================================================================

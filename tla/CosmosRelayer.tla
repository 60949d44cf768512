---------------------------- MODULE CosmosRelayer ---------------------------
(***************************************************************************)
(* The Cosmos half of ebrelayer (CosmosSub): it follows the blocks of      *)
(* akhirachain, and sends each burn or lock message in them to the         *)
(* CosmosBridge contract as a transaction of the validator's Ethereum      *)
(* account, waiting for its receipt.  After each block it saves the        *)
(* block's number.  replayCosmos handles the missed messages of given      *)
(* blocks, in a process of its own that uses the same account.             *)
(***************************************************************************)
EXTENDS Integers, Sequences, FiniteSets, SequencesExt

CONSTANTS
    Msgs,               \* burn and lock messages users may send, by number
    MaxRetries,         \* attempts to send one transaction (5)
    MaxBlocks,          \* bound on the height of akhirachain
    MaxMsgsPerBlock,    \* bound on messages in a block
    MaxStops,           \* bound on stops of the relayer
    MaxReplays          \* bound on runs of replayCosmos

ASSUME MsgsAssumption == IsFiniteSet(Msgs) /\ Msgs \subseteq Nat
ASSUME CosmosRelayerAssumption ==
    /\ MaxRetries \in Nat
    /\ MaxBlocks \in Nat
    /\ MaxMsgsPerBlock \in Nat
    /\ MaxStops \in Nat
    /\ MaxReplays \in Nat

Processes == {"relayer", "replay"}

VARIABLES
    blocks,             \* blocks[n]: the messages of block n, in order
    pool,               \* the account's transactions Ethereum nodes hold: nonce, msg
    mined,              \* mined[n]: the message of its transaction with nonce n
    notified,           \* number of the next block the subscription reports
    blockHeight,        \* block last reported
    lastProcessedBlock,
    firstBlock,         \* block taken as processed when the database was empty
    stored,             \* cosmosLastProcessedBlock in the database, 0 if never saved
    stops, replays,
    stage, todo,        \* per process: where it is, messages left to handle
    nonce, attempts,    \* per process: of the transaction being sent
    handled             \* per process: how often a message was handled

chainVars == <<blocks, notified>>
accountVars == <<pool, mined>>
positionVars == <<blockHeight, lastProcessedBlock, firstBlock, stored, stops, replays>>
processVars == <<stage, todo, nonce, attempts, handled>>
vars == <<blocks, notified, pool, mined, blockHeight, lastProcessedBlock, firstBlock,
          stored, stops, replays, stage, todo, nonce, attempts, handled>>

Stages == {"stopped", "waiting", "block", "messages", "sending", "receipt"}

Nonces == {tx.nonce : tx \in pool}

\* PendingNonceAt: the first nonce neither mined nor held.
PendingNonce == CHOOSE n \in (Len(mined) + 1)..(Len(mined) + Cardinality(pool) + 1) :
    /\ n \notin Nonces
    /\ (Len(mined) + 1)..(n - 1) \subseteq Nonces

MsgsOf(n) == {blocks[n][i] : i \in DOMAIN blocks[n]}
Committed == UNION {MsgsOf(n) : n \in DOMAIN blocks}

-----------------------------------------------------------------------------
(***************************************************************************)
(* The two chains.                                                         *)
(***************************************************************************)
\* Messages are numbered from block to block.
CommitBlock(msgs) ==
    /\ Len(blocks) < MaxBlocks
    /\ msgs \cap Committed = {}
    /\ \A m \in msgs, k \in Msgs : k < m => k \in Committed \cup msgs
    /\ \E block \in SetToSeqs(msgs) : blocks' = Append(blocks, block)
    /\ UNCHANGED <<notified, accountVars, positionVars, processVars>>

\* A transaction is mined once all earlier nonces are, whether the contract
\* accepts the claim or reverts.
MineTransaction(tx) ==
    /\ tx \in pool
    /\ tx.nonce = Len(mined) + 1
    /\ mined' = Append(mined, tx.msg)
    /\ pool' = pool \ {tx}
    /\ UNCHANGED <<chainVars, positionVars, processVars>>

DropTransaction(tx) ==
    /\ tx \in pool
    /\ pool' = pool \ {tx}
    /\ UNCHANGED <<mined, chainVars, positionVars, processVars>>

-----------------------------------------------------------------------------
(***************************************************************************)
(* CosmosSub.Start.  A failing BlockResults is tried again at once.        *)
(***************************************************************************)
Start ==
    /\ stage["relayer"] = "stopped"
    /\ stage' = [stage EXCEPT !["relayer"] = "waiting"]
    /\ notified' = Len(blocks) + 1
    /\ lastProcessedBlock' = stored
    /\ UNCHANGED <<blocks, accountVars, blockHeight, firstBlock, stored, stops, replays,
                   todo, nonce, attempts, handled>>

Stop ==
    /\ stops < MaxStops
    /\ stage["relayer"] # "stopped"
    /\ stops' = stops + 1
    /\ stage' = [stage EXCEPT !["relayer"] = "stopped"]
    /\ todo' = [todo EXCEPT !["relayer"] = <<>>]
    /\ nonce' = [nonce EXCEPT !["relayer"] = 0]
    /\ attempts' = [attempts EXCEPT !["relayer"] = 0]
    /\ blockHeight' = 0
    /\ lastProcessedBlock' = 0
    /\ UNCHANGED <<chainVars, accountVars, firstBlock, stored, replays, handled>>

\* The next NewBlock event.  With an empty database its block counts as
\* processed, and the loop over blocks has none to go through.
TakeResult ==
    LET last == IF lastProcessedBlock = 0 THEN notified ELSE lastProcessedBlock
    IN  /\ stage["relayer"] = "waiting"
        /\ notified <= Len(blocks)
        /\ notified' = notified + 1
        /\ blockHeight' = notified
        /\ lastProcessedBlock' = last
        /\ firstBlock' = IF lastProcessedBlock = 0 THEN notified ELSE firstBlock
        /\ stage' = [stage EXCEPT !["relayer"] =
                        IF last < notified THEN "block" ELSE "waiting"]
        /\ UNCHANGED <<blocks, accountVars, stored, stops, replays, todo, nonce, attempts,
                       handled>>

ReadBlock ==
    /\ stage["relayer"] = "block"
    /\ stage' = [stage EXCEPT !["relayer"] = "messages"]
    /\ todo' = [todo EXCEPT !["relayer"] = blocks[lastProcessedBlock + 1]]
    /\ UNCHANGED <<chainVars, accountVars, positionVars, nonce, attempts, handled>>

\* Defect: saved once for all blocks up to the reported one.
SaveBlockAtEnd ==
    /\ stage["relayer"] = "messages"
    /\ todo["relayer"] = <<>>
    /\ lastProcessedBlock' = lastProcessedBlock + 1
    /\ stored' = IF lastProcessedBlock' = blockHeight THEN blockHeight ELSE stored
    /\ stage' = [stage EXCEPT !["relayer"] =
                    IF lastProcessedBlock' < blockHeight THEN "block" ELSE "waiting"]
    /\ UNCHANGED <<chainVars, accountVars, blockHeight, firstBlock, stops, replays,
                   todo, nonce, attempts, handled>>

\* Defect: the reported block is saved with the first of the blocks before it.
SaveReportedBlock ==
    /\ stage["relayer"] = "messages"
    /\ todo["relayer"] = <<>>
    /\ lastProcessedBlock' = lastProcessedBlock + 1
    /\ stored' = blockHeight
    /\ stage' = [stage EXCEPT !["relayer"] =
                    IF lastProcessedBlock' < blockHeight THEN "block" ELSE "waiting"]
    /\ UNCHANGED <<chainVars, accountVars, blockHeight, firstBlock, stops, replays,
                   todo, nonce, attempts, handled>>

\* DB.Put once the block's messages are handled, and on to the next block.
SaveBlock ==
    /\ stage["relayer"] = "messages"
    /\ todo["relayer"] = <<>>
    /\ lastProcessedBlock' = lastProcessedBlock + 1
    /\ stored' = lastProcessedBlock + 1
    /\ stage' = [stage EXCEPT !["relayer"] =
                    IF lastProcessedBlock' < blockHeight THEN "block" ELSE "waiting"]
    /\ UNCHANGED <<chainVars, accountVars, blockHeight, firstBlock, stops, replays,
                   todo, nonce, attempts, handled>>

-----------------------------------------------------------------------------
(***************************************************************************)
(* CosmosSub.Replay, for the blocks of the given range that could be read: *)
(* messages for which the account has a mined transaction, successful or   *)
(* not, are left out.                                                      *)
(***************************************************************************)
Replay(read) ==
    LET mine == {mined[n] : n \in DOMAIN mined}
        msgs == FoldLeft(LAMBDA s, n : s \o blocks[n], <<>>, SetToSortSeq(read, <))
    IN  /\ replays < MaxReplays
        /\ stage["replay"] = "stopped"
        /\ replays' = replays + 1
        /\ todo' = [todo EXCEPT !["replay"] = SelectSeq(msgs, LAMBDA m : m \notin mine)]
        /\ stage' = [stage EXCEPT !["replay"] = "messages"]
        /\ UNCHANGED <<chainVars, accountVars, blockHeight, lastProcessedBlock, firstBlock,
                       stored, stops, nonce, attempts, handled>>

ReplayEnds ==
    /\ stage["replay"] = "messages"
    /\ todo["replay"] = <<>>
    /\ stage' = [stage EXCEPT !["replay"] = "stopped"]
    /\ UNCHANGED <<chainVars, accountVars, positionVars, todo, nonce, attempts, handled>>

-----------------------------------------------------------------------------
(***************************************************************************)
(* handleBurnLockMsg, for either process.                                  *)
(***************************************************************************)
\* The message is done with: sent, or given up.
Done(p) ==
    /\ todo' = [todo EXCEPT ![p] = Tail(@)]
    /\ stage' = [stage EXCEPT ![p] = "messages"]
    /\ nonce' = [nonce EXCEPT ![p] = 0]
    /\ attempts' = [attempts EXCEPT ![p] = 0]

\* InitRelayConfig takes the nonce all attempts use.
InitRelayConfig(p) == nonce' = [nonce EXCEPT ![p] = PendingNonce]

\* When InitRelayConfig fails five times the message is given up.
HandleMessage(p) ==
    /\ stage[p] = "messages"
    /\ todo[p] # <<>>
    /\ handled' = [handled EXCEPT ![p][Head(todo[p])] = @ + 1]
    /\ \/ /\ InitRelayConfig(p)
          /\ stage' = [stage EXCEPT ![p] = "sending"]
          /\ UNCHANGED <<todo, attempts>>
       \/ Done(p)
    /\ UNCHANGED <<chainVars, accountVars, positionVars>>

\* NewProphecyClaim fails when the node cannot be reached or refuses: it does
\* when the nonce is mined or a transaction with it is held.
SendFails(p) ==
    /\ stage[p] = "sending"
    /\ attempts[p] < MaxRetries
    /\ attempts' = [attempts EXCEPT ![p] = @ + 1]
    /\ UNCHANGED <<chainVars, accountVars, positionVars, stage, todo, nonce, handled>>

\* Defect: each attempt asks for a nonce of its own.
SendFreshNonce(p) ==
    /\ stage[p] = "sending"
    /\ attempts[p] < MaxRetries
    /\ nonce' = [nonce EXCEPT ![p] = PendingNonce]
    /\ pool' = pool \cup {[nonce |-> PendingNonce, msg |-> Head(todo[p])]}
    /\ stage' = [stage EXCEPT ![p] = "receipt"]
    /\ UNCHANGED <<mined, chainVars, positionVars, todo, attempts, handled>>

Send(p) ==
    /\ stage[p] = "sending"
    /\ attempts[p] < MaxRetries
    /\ nonce[p] > Len(mined)
    /\ nonce[p] \notin Nonces
    /\ pool' = pool \cup {[nonce |-> nonce[p], msg |-> Head(todo[p])]}
    /\ stage' = [stage EXCEPT ![p] = "receipt"]
    /\ UNCHANGED <<mined, chainVars, positionVars, todo, nonce, attempts, handled>>

\* The receipt is found, whatever its status.
ReceiptFound(p) ==
    /\ stage[p] = "receipt"
    /\ nonce[p] <= Len(mined)
    /\ mined[nonce[p]] = Head(todo[p])
    /\ Done(p)
    /\ UNCHANGED <<chainVars, accountVars, positionVars, handled>>

\* Defect: waiting for a receipt is not counted as an attempt.
ReceiptMissingUncounted(p) ==
    /\ stage[p] = "receipt"
    /\ stage' = [stage EXCEPT ![p] = "sending"]
    /\ UNCHANGED <<chainVars, accountVars, positionVars, todo, nonce, attempts, handled>>

\* "hit max tx receipt query retries".
ReceiptMissing(p) ==
    /\ stage[p] = "receipt"
    /\ stage' = [stage EXCEPT ![p] = "sending"]
    /\ attempts' = [attempts EXCEPT ![p] = @ + 1]
    /\ UNCHANGED <<chainVars, accountVars, positionVars, todo, nonce, handled>>

\* "failed to broadcast transaction after 5 attempts".
GiveUp(p) ==
    /\ stage[p] = "sending"
    /\ attempts[p] = MaxRetries
    /\ Done(p)
    /\ UNCHANGED <<chainVars, accountVars, positionVars, handled>>

-----------------------------------------------------------------------------
Init ==
    /\ blocks = <<>>
    /\ notified = 1
    /\ pool = {}
    /\ mined = <<>>
    /\ blockHeight = 0
    /\ lastProcessedBlock = 0
    /\ firstBlock = 0
    /\ stored = 0
    /\ stops = 0
    /\ replays = 0
    /\ stage = [p \in Processes |-> "stopped"]
    /\ todo = [p \in Processes |-> <<>>]
    /\ nonce = [p \in Processes |-> 0]
    /\ attempts = [p \in Processes |-> 0]
    /\ handled = [p \in Processes |-> [m \in Msgs |-> 0]]

HandlerStep(p) ==
    \/ HandleMessage(p)
    \/ Send(p)
    \/ SendFails(p)
    \/ ReceiptFound(p)
    \/ ReceiptMissing(p)
    \/ GiveUp(p)

ChainStep ==
    \/ \E msgs \in SUBSET Msgs :
           Cardinality(msgs) <= MaxMsgsPerBlock /\ CommitBlock(msgs)
    \/ \E tx \in pool : MineTransaction(tx) \/ DropTransaction(tx)

StartStep == TakeResult \/ ReadBlock \/ SaveBlock

ReplayStep ==
    \/ \E read \in SUBSET (1..Len(blocks)) : Replay(read)
    \/ ReplayEnds

Next ==
    \/ ChainStep
    \/ Start
    \/ Stop
    \/ StartStep
    \/ ReplayStep
    \/ \E p \in Processes : HandlerStep(p)

Spec == Init /\ [][Next]_vars

(***************************************************************************)
(* The relayer's loop goes on as long as the process lives: every call     *)
(* returns.  Nothing is assumed of Ethereum: it may refuse everything.     *)
(***************************************************************************)
LoopSpec == Spec /\ WF_vars(StartStep \/ HandlerStep("relayer"))

-----------------------------------------------------------------------------
(***************************************************************************)
(* Properties.                                                             *)
(***************************************************************************)
\* Where the relayer goes on after a restart.
Position == IF stored = 0 THEN firstBlock ELSE stored

\* Wherever the relayer was stopped, every message between the first block it
\* saw and its position has been handled: a restart leaves no gap.
NoMessageSkipped ==
    stored > 0 => \A n \in (firstBlock + 1)..stored :
                      \A m \in MsgsOf(n) : handled["relayer"][m] > 0

\* A restart repeats the block in progress only: what the relayer has handled
\* lies at most one block beyond its position, and no message is handled
\* more often than the relayer was started.
RestartRepeatsOneBlock ==
    \A m \in Msgs : handled["relayer"][m] > 0 =>
        /\ handled["relayer"][m] <= stops + 1
        /\ \E n \in DOMAIN blocks : n <= Position + 1 /\ m \in MsgsOf(n)

\* The attempts of one handling share a nonce, so however many receipts are
\* late, a message costs at most one transaction each time it is handled.
OneTransactionPerHandling ==
    \A m \in Msgs :
        Cardinality({n \in DOMAIN mined : mined[n] = m})
            + Cardinality({tx \in pool : tx.msg = m})
        <= handled["relayer"][m] + handled["replay"][m]

\* A message of a block the subscription has reported, beyond the position, is
\* handled, unless the relayer is stopped, though Ethereum may never accept a
\* transaction: retries are bounded and one message cannot hold up the others.
EveryMessageHandled ==
    \A m \in Msgs :
        (/\ stage["relayer"] # "stopped"
         /\ stored > 0
         /\ notified <= Len(blocks)
         /\ \E n \in (stored + 1)..Len(blocks) : m \in MsgsOf(n))
        ~> (handled["relayer"][m] > 0 \/ stage["relayer"] = "stopped")
=============================================================================

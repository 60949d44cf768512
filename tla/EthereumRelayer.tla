--------------------------- MODULE EthereumRelayer --------------------------
(***************************************************************************)
(* The Ethereum half of ebrelayer (EthereumSub): it follows the heads of   *)
(* the chain, reads the BridgeBank's logs of blocks that are trailingBlocks*)
(* deep, sends them to Cosmos as the claims of its validator, in one       *)
(* transaction for all blocks read at once, and then saves in its database *)
(* where to go on.  The chain may be reorganized and the process may stop  *)
(* between any two calls.  replayEthereum sends missed events one by one.  *)
(***************************************************************************)
EXTENDS Integers, Sequences, FiniteSets

CONSTANTS
    Logs,               \* LogLock and LogBurn logs users may cause, by nonce
    NoLog,              \* a block without such a log
    TrailingBlocks,
    MaxHeight,          \* bound on the height of the chain
    MaxHeads,           \* bound on heads received and not yet handled
    MaxStops,           \* bound on stops of the process
    MaxReorgs           \* bound on reorganizations

ASSUME NoLogAssumption == Logs \subseteq Nat /\ NoLog \notin Logs
ASSUME RelayerBoundsAssumption ==
    /\ TrailingBlocks \in Nat \ {0}
    /\ MaxHeight \in Nat
    /\ MaxHeads \in Nat
    /\ MaxStops \in Nat
    /\ MaxReorgs \in Nat

VARIABLES
    chain,              \* Seq(Logs \cup {NoLog}): chain[n] is the log of block n
    highest,            \* the greatest height the chain ever had
    reorgs,             \* reorganizations so far
    heads,              \* numbers of the heads received and not yet handled
    stage,              \* where Start is: see Stages
    lastProcessedBlock,
    endingBlock,        \* of the head being handled
    batch,              \* logs read for that head
    stored,             \* ethereumLastProcessedBlock in the database, 0 if never saved
    stops,              \* stops of the process so far
    firstBlock,         \* first block read since the database was empty
    relayed,            \* logs given to RelayToCosmos
    mempool,            \* claim transactions on their way, a set of logs each
    claimed,            \* logs the validator's claim was accepted for
    finalized,          \* logs whose prophecy other validators finalized
    replaying           \* logs replayEthereum still has to send

chainVars == <<chain, highest, reorgs>>
processVars == <<stage, lastProcessedBlock, endingBlock, batch>>
cosmosVars == <<mempool, claimed, finalized>>
vars == <<chain, highest, reorgs, heads, stage, lastProcessedBlock, endingBlock,
          batch, stored, stops, firstBlock, relayed, mempool, claimed, finalized,
          replaying>>

Stages == {"stopped", "waiting", "read", "relayed"}

\* What FilterLogs and logToEvent make of a range of blocks: the lock and burn
\* logs in it.  An empty range has none.
FilterLogs(from, to) == {chain[n] : n \in (from..to) \cap DOMAIN chain} \ {NoLog}

Mined == FilterLogs(1, Len(chain))

-----------------------------------------------------------------------------
(***************************************************************************)
(* Ethereum.                                                               *)
(***************************************************************************)
\* A new block; the node announces its number to the subscription.  The bridge
\* bank numbers the logs of a chain one after the other.
Mine(log) ==
    /\ Len(chain) < MaxHeight
    /\ log \in {NoLog, Cardinality(Mined) + 1}
    /\ chain' = Append(chain, log)
    /\ highest' = IF Len(chain') > highest THEN Len(chain') ELSE highest
    /\ \/ /\ stage # "stopped"
          /\ Len(heads) < MaxHeads
          /\ heads' = Append(heads, Len(chain'))
       \/ /\ stage = "stopped"
          /\ UNCHANGED heads
    /\ UNCHANGED <<reorgs, processVars, stored, stops, firstBlock, relayed,
                   cosmosVars, replaying>>

\* Blocks that are trailingBlocks deep stay; newer ones may be replaced.
Reorganize(depth) ==
    /\ reorgs < MaxReorgs
    /\ depth <= Len(chain)
    /\ Len(chain) - depth >= highest - TrailingBlocks
    /\ reorgs' = reorgs + 1
    /\ chain' = SubSeq(chain, 1, Len(chain) - depth)
    /\ UNCHANGED <<highest, heads, processVars, stored, stops, firstBlock, relayed,
                   cosmosVars, replaying>>

-----------------------------------------------------------------------------
(***************************************************************************)
(* EthereumSub.Start.                                                      *)
(***************************************************************************)
\* Subscribes, then reads the database.
Start ==
    /\ stage = "stopped"
    /\ stage' = "waiting"
    /\ lastProcessedBlock' = stored
    /\ heads' = <<>>
    /\ UNCHANGED <<chainVars, endingBlock, batch, stored, stops, firstBlock, relayed,
                   cosmosVars, replaying>>

\* The process is killed, a call ends in log.Fatal, or the subscription fails
\* and Start returns, to be started again.
Stop ==
    /\ stops < MaxStops
    /\ stage # "stopped"
    /\ stops' = stops + 1
    /\ stage' = "stopped"
    /\ heads' = <<>>
    /\ lastProcessedBlock' = 0
    /\ endingBlock' = 0
    /\ batch' = {}
    /\ UNCHANGED <<chainVars, stored, firstBlock, relayed, cosmosVars, replaying>>

\* Less than trailingBlocks blocks: "Ending block index negative".
SkipHead ==
    /\ stage = "waiting"
    /\ heads # <<>>
    /\ Head(heads) < TrailingBlocks
    /\ heads' = Tail(heads)
    /\ UNCHANGED <<chainVars, processVars, stored, stops, firstBlock, relayed,
                   cosmosVars, replaying>>

\* Defect: reads one block too close to the head.
ReadHeadTooClose ==
    LET ending == Head(heads) - TrailingBlocks + 1
        from   == IF lastProcessedBlock = 0 THEN ending ELSE lastProcessedBlock
    IN  /\ stage = "waiting"
        /\ heads # <<>>
        /\ ending >= 0
        /\ heads' = Tail(heads)
        /\ lastProcessedBlock' = from
        /\ firstBlock' = IF lastProcessedBlock = 0 THEN ending ELSE firstBlock
        /\ endingBlock' = ending
        /\ batch' = FilterLogs(from, ending)
        /\ stage' = "read"
        /\ UNCHANGED <<chainVars, stored, stops, relayed, cosmosVars, replaying>>

\* Defect: a failed query counts as an empty one.
ReadHeadSkippingFailures ==
    LET ending == Head(heads) - TrailingBlocks
        from   == IF lastProcessedBlock = 0 THEN ending ELSE lastProcessedBlock
    IN  /\ stage = "waiting"
        /\ heads # <<>>
        /\ ending >= 0
        /\ heads' = Tail(heads)
        /\ lastProcessedBlock' = from
        /\ firstBlock' = IF lastProcessedBlock = 0 THEN ending ELSE firstBlock
        /\ endingBlock' = ending
        /\ batch' \in {{}, FilterLogs(from, ending)}
        /\ stage' = "read"
        /\ UNCHANGED <<chainVars, stored, stops, relayed, cosmosVars, replaying>>

\* Defect: after a failed query the relayer starts over.
ReadHeadStartingOver ==
    LET ending == Head(heads) - TrailingBlocks
        from   == IF lastProcessedBlock = 0 THEN ending ELSE lastProcessedBlock
    IN  /\ stage = "waiting"
        /\ heads # <<>>
        /\ ending >= 0
        /\ heads' = Tail(heads)
        /\ firstBlock' = IF lastProcessedBlock = 0 THEN ending ELSE firstBlock
        /\ \/ /\ endingBlock' = ending
              /\ batch' = FilterLogs(from, ending)
              /\ stage' = "read"
              /\ lastProcessedBlock' = from
              /\ UNCHANGED stored
           \/ /\ lastProcessedBlock' = 0
              /\ stored' = 0
              /\ UNCHANGED <<endingBlock, batch, stage>>
        /\ UNCHANGED <<chainVars, stops, relayed, cosmosVars, replaying>>

\* FilterLogs from lastProcessedBlock, the ending block itself if that is not
\* set, to the block trailingBlocks below the head.  When it fails the head is
\* given up, and lastProcessedBlock keeps its value.
ReadHead ==
    LET ending == Head(heads) - TrailingBlocks
        from   == IF lastProcessedBlock = 0 THEN ending ELSE lastProcessedBlock
    IN  /\ stage = "waiting"
        /\ heads # <<>>
        /\ ending >= 0
        /\ heads' = Tail(heads)
        /\ lastProcessedBlock' = from
        /\ firstBlock' = IF lastProcessedBlock = 0 THEN ending ELSE firstBlock
        /\ \/ /\ endingBlock' = ending
              /\ batch' = FilterLogs(from, ending)
              /\ stage' = "read"
           \/ UNCHANGED <<endingBlock, batch, stage>>
        /\ UNCHANGED <<chainVars, stored, stops, relayed, cosmosVars, replaying>>

\* RelayToCosmos signs one transaction for all logs and broadcasts it.  That
\* may fail: the node cannot be reached or refuses the transaction.  It does
\* refuse one sent while another of the account is on its way, since both are
\* signed with the sequence number of the last block.
RelayToCosmos(logs) ==
    \/ /\ mempool = {}
       /\ mempool' = {logs}
    \/ UNCHANGED mempool

\* The logs read are given to handleEthereumEvent, whose failure is only
\* logged.
HandleEvents ==
    /\ stage = "read"
    /\ stage' = "relayed"
    /\ relayed' = relayed \cup batch
    /\ IF batch = {} THEN UNCHANGED mempool ELSE RelayToCosmos(batch)
    /\ UNCHANGED <<chainVars, heads, lastProcessedBlock, endingBlock, batch, stored,
                   stops, firstBlock, claimed, finalized, replaying>>

\* DB.Put.
SavePosition ==
    /\ stage = "relayed"
    /\ stage' = "waiting"
    /\ stored' = endingBlock + 1
    /\ lastProcessedBlock' = endingBlock + 1
    /\ endingBlock' = 0
    /\ batch' = {}
    /\ UNCHANGED <<chainVars, heads, stops, firstBlock, relayed,
                   cosmosVars, replaying>>

-----------------------------------------------------------------------------
(***************************************************************************)
(* Cosmos.                                                                 *)
(***************************************************************************)
\* A transaction succeeds if every claim in it is new and its prophecy still
\* pending; otherwise it fails as a whole.
Deliver(tx) ==
    /\ tx \in mempool
    /\ mempool' = mempool \ {tx}
    /\ claimed' = IF tx \cap (claimed \cup finalized) = {} THEN claimed \cup tx ELSE claimed
    /\ UNCHANGED <<chainVars, heads, processVars, stored, stops, firstBlock, relayed,
                   finalized, replaying>>

\* The node forgets a transaction it had accepted.
Drop(tx) ==
    /\ tx \in mempool
    /\ mempool' = mempool \ {tx}
    /\ UNCHANGED <<chainVars, heads, processVars, stored, stops, firstBlock, relayed,
                   claimed, finalized, replaying>>

\* The other validators finalize the prophecy of a confirmed log.  For a log
\* the validator has claimed that makes no difference: either refuses a claim.
FinalizeByOthers(log) ==
    /\ log \in FilterLogs(1, highest - TrailingBlocks) \ (claimed \cup finalized)
    /\ finalized' = finalized \cup {log}
    /\ UNCHANGED <<chainVars, heads, processVars, stored, stops, firstBlock, relayed,
                   mempool, claimed, replaying>>

-----------------------------------------------------------------------------
(***************************************************************************)
(* replayEthereum, given blocks that are trailingBlocks deep.  It compares *)
(* the validator of past claims with a ValidatorAddress that nobody sets,  *)
(* so it takes no event for processed and sends all of them, in an order   *)
(* that makes no difference here.  The operator runs it when no claim of   *)
(* the validator is on its way.                                            *)
(***************************************************************************)
Replay(from, to) ==
    /\ replaying = {}
    /\ mempool = {}
    /\ to <= highest - TrailingBlocks
    /\ replaying' = FilterLogs(from, to)
    /\ UNCHANGED <<chainVars, heads, processVars, stored, stops, firstBlock, relayed,
                   cosmosVars>>

\* Defect: all events in one transaction.
ReplayLogInBatch(log) ==
    /\ log \in replaying
    /\ replaying' = {}
    /\ relayed' = relayed \cup replaying
    /\ RelayToCosmos(replaying)
    /\ UNCHANGED <<chainVars, heads, processVars, stored, stops, firstBlock,
                   claimed, finalized>>

ReplayLog(log) ==
    /\ log \in replaying
    /\ replaying' = replaying \ {log}
    /\ relayed' = relayed \cup {log}
    /\ RelayToCosmos({log})
    /\ UNCHANGED <<chainVars, heads, processVars, stored, stops, firstBlock,
                   claimed, finalized>>

Init ==
    /\ chain = <<>>
    /\ highest = 0
    /\ reorgs = 0
    /\ heads = <<>>
    /\ stage = "stopped"
    /\ lastProcessedBlock = 0
    /\ endingBlock = 0
    /\ batch = {}
    /\ stored = 0
    /\ stops = 0
    /\ firstBlock = 0
    /\ relayed = {}
    /\ mempool = {}
    /\ claimed = {}
    /\ finalized = {}
    /\ replaying = {}

EthereumStep ==
    \/ \E log \in Logs \cup {NoLog} : Mine(log)
    \/ \E depth \in 1..TrailingBlocks : Reorganize(depth)

RelayerStep == Start \/ Stop \/ SkipHead \/ ReadHead \/ HandleEvents \/ SavePosition

CosmosStep ==
    \/ \E tx \in mempool : Deliver(tx) \/ Drop(tx)
    \/ \E log \in Logs : FinalizeByOthers(log)

ReplayStep ==
    \/ \E from, to \in 1..MaxHeight : Replay(from, to)
    \/ \E log \in Logs : ReplayLog(log)

Next == EthereumStep \/ RelayerStep \/ CosmosStep \/ ReplayStep

Spec == Init /\ [][Next]_vars

(***************************************************************************)
(* The operator replays missed blocks; a transaction sent again and again  *)
(* is accepted by the node and delivered, and no transaction stays on its  *)
(* way for ever.  Nothing is assumed of Start.                             *)
(***************************************************************************)
ReplayFairness ==
    /\ \A log \in Logs :
           /\ SF_vars(\E from, to \in 1..MaxHeight : Replay(from, to) /\ log \in replaying')
           /\ SF_vars(ReplayLog(log) /\ {log} \in mempool')
           /\ SF_vars(Deliver({log}))
    /\ WF_vars(\E log \in Logs : ReplayLog(log))
    /\ WF_vars(\E tx \in mempool : Deliver(tx) \/ Drop(tx))

ReplaySpec == Spec /\ ReplayFairness

-----------------------------------------------------------------------------
(***************************************************************************)
(* Properties.                                                             *)
(***************************************************************************)
\* Every log Start or Replay has sent to Cosmos is in a block no
\* reorganization can remove any more: trailingBlocks protects against
\* claims for transfers that did not happen.
ClaimsAreConfirmed == relayed \subseteq FilterLogs(1, highest - TrailingBlocks)

\* Wherever Start was interrupted and whatever FilterLogs failed, every log
\* between the first block it read and the position in the database has been
\* given to RelayToCosmos: a restart goes on without a gap.
NoBlockSkipped == stored > 0 => FilterLogs(firstBlock, stored - 1) \subseteq relayed

\* The saved position follows the heads: after a reorganization it goes back,
\* and blocks are read again, but by less than trailingBlocks.
PositionGoesBackLess == [][stored' > stored - TrailingBlocks]_vars

\* Every confirmed log is at last claimed or no longer needs the claim, though
\* Start sends a batch once and the batch fails if any claim in it does:
\* Replay sends each log in a transaction of its own.
EveryLogClaimed ==
    \A log \in Logs :
        log \in FilterLogs(1, highest - TrailingBlocks) ~> log \in claimed \cup finalized
=============================================================================

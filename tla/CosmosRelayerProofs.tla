------------------------- MODULE CosmosRelayerProofs ------------------------
(***************************************************************************)
(* Safety of the Cosmos half of the relayer for any number of messages,    *)
(* blocks, retries, stops and replays: the argument follows one block, the *)
(* one after the position, through handleBurnLockMsg.                      *)
(***************************************************************************)
EXTENDS CosmosRelayer, FiniteSetTheorems, TLAPS

Relayer == "relayer"

InBlock == stage[Relayer] \in {"messages", "sending", "receipt"}

Handled(m) == handled[Relayer][m] > 0

\* Only the relayer's part of the processes' state matters here.
TypeInv ==
    /\ blocks \in Seq(Seq(Msgs))
    /\ notified \in Nat \ {0}
    /\ blockHeight \in Nat
    /\ lastProcessedBlock \in Nat
    /\ firstBlock \in Nat
    /\ stored \in Nat
    /\ Relayer \in DOMAIN stage /\ stage[Relayer] \in Stages
    /\ Relayer \in DOMAIN todo /\ todo[Relayer] \in Seq(Msgs)
    /\ Relayer \in DOMAIN handled /\ handled[Relayer] \in [Msgs -> Nat]

\* Once a position was saved the relayer goes on from there; before that from
\* the first block it saw.  The block it is working on has been reported.
PositionInv ==
    /\ stored <= Len(blocks)
    /\ stage[Relayer] # "stopped" /\ stored > 0 => lastProcessedBlock = stored
    /\ stage[Relayer] # "stopped" /\ stored = 0 => lastProcessedBlock \in {0, firstBlock}
    /\ InBlock \/ stage[Relayer] = "block"
          => /\ lastProcessedBlock > 0
             /\ lastProcessedBlock < blockHeight
             /\ blockHeight <= Len(blocks)

\* The messages of the block in progress are handled or still to do; the one
\* being sent counts as handled.
BlockInv ==
    /\ InBlock => \A m \in MsgsOf(lastProcessedBlock + 1) :
                     Handled(m) \/ \E i \in 1..Len(todo[Relayer]) : todo[Relayer][i] = m
    /\ stage[Relayer] \in {"sending", "receipt"}
          => todo[Relayer] # <<>> /\ Handled(Head(todo[Relayer]))

IInv == TypeInv /\ PositionInv /\ BlockInv /\ NoMessageSkipped

\* Init has nothing to remember.
LEMMA InitHolds == Init => IInv
BY DEF Init, IInv, TypeInv, PositionInv, BlockInv, NoMessageSkipped, InBlock, Relayer,
       Processes, Stages

\* A new block leaves the others alone.
LEMMA CommitKeeps ==
    ASSUME IInv, NEW msgs \in SUBSET Msgs, CommitBlock(msgs)
    PROVE  IInv'
<1>0. TypeInv /\ PositionInv /\ BlockInv /\ NoMessageSkipped
  BY DEF IInv
<1>1. PICK block \in SetToSeqs(msgs) : blocks' = Append(blocks, block)
  BY DEF CommitBlock
<1>2. block \in Seq(Msgs)
  <2>1. Cardinality(msgs) \in Nat
    BY MsgsAssumption, FS_Subset, FS_CardinalityType
  <2>2. block \in [1..Cardinality(msgs) -> msgs]
    BY <1>1 DEF SetToSeqs
  <2> QED BY <2>1, <2>2
<1>3. UNCHANGED <<notified, blockHeight, lastProcessedBlock, firstBlock, stored, stage, todo,
                  handled>>
  BY DEF CommitBlock, positionVars, processVars
<1>4. /\ blocks' \in Seq(Seq(Msgs)) /\ Len(blocks') = Len(blocks) + 1
      /\ \A n \in 1..Len(blocks) : blocks'[n] = blocks[n]
  BY <1>0, <1>1, <1>2 DEF TypeInv
<1>5. \A n \in 1..Len(blocks) : MsgsOf(n)' = MsgsOf(n)
  BY <1>4 DEF MsgsOf
<1>6. TypeInv'
  BY <1>0, <1>3, <1>4 DEF TypeInv
<1>7. PositionInv'
  BY <1>0, <1>3, <1>4 DEF TypeInv, PositionInv, InBlock
<1>8. BlockInv'
  <2>1. InBlock => lastProcessedBlock + 1 \in 1..Len(blocks)
    BY <1>0 DEF TypeInv, PositionInv
  <2> QED BY <2>1, <1>0, <1>3, <1>5 DEF BlockInv, InBlock, Handled
<1>9. NoMessageSkipped'
  <2>1. \A n \in (firstBlock + 1)..stored : n \in 1..Len(blocks)
    BY <1>0 DEF TypeInv, PositionInv
  <2> QED BY <2>1, <1>0, <1>3, <1>5 DEF NoMessageSkipped
<1> QED BY <1>6, <1>7, <1>8, <1>9 DEF IInv

\* What happens on Ethereum and in replayCosmos is no concern of the relayer's
\* position.
LEMMA OthersKeep ==
    ASSUME IInv,
           UNCHANGED <<blocks, notified, blockHeight, lastProcessedBlock, firstBlock, stored>>,
           Relayer \in DOMAIN stage', stage'[Relayer] = stage[Relayer],
           Relayer \in DOMAIN todo', todo'[Relayer] = todo[Relayer],
           Relayer \in DOMAIN handled', handled'[Relayer] = handled[Relayer]
    PROVE  IInv'
<1>1. \A n : MsgsOf(n)' = MsgsOf(n)
  BY DEF MsgsOf
<1>2. TypeInv'
  BY DEF IInv, TypeInv
<1>3. PositionInv'
  BY DEF IInv, PositionInv, InBlock
<1>4. BlockInv'
  BY <1>1 DEF IInv, BlockInv, InBlock, Handled
<1>5. NoMessageSkipped'
  BY <1>1 DEF IInv, NoMessageSkipped, Relayer
<1> QED BY <1>2, <1>3, <1>4, <1>5 DEF IInv

\* Start and Stop: the position of the database is taken up again.
LEMMA RestartKeeps ==
    ASSUME IInv, Start \/ Stop
    PROVE  IInv'
<1>0. TypeInv /\ PositionInv /\ BlockInv /\ NoMessageSkipped
  BY DEF IInv
<1>1. UNCHANGED <<blocks, firstBlock, stored, handled>>
  BY DEF Start, Stop, chainVars
<1>2. /\ stage' = [stage EXCEPT ![Relayer] = stage'[Relayer]]
      /\ \/ stage'[Relayer] = "waiting" /\ lastProcessedBlock' = stored
         \/ stage'[Relayer] = "stopped" /\ lastProcessedBlock' = 0
      /\ Relayer \in DOMAIN stage'
  BY <1>0 DEF Start, Stop, TypeInv, Relayer
<1>3. notified' \in Nat \ {0} /\ blockHeight' \in Nat
  <2>1. CASE Start
    BY <2>1, <1>0 DEF Start, TypeInv
  <2>2. CASE Stop
    BY <2>2, <1>0 DEF Stop, TypeInv, chainVars
  <2> QED BY <2>1, <2>2
<1>4. Relayer \in DOMAIN todo' /\ todo'[Relayer] \in Seq(Msgs)
  <2>1. todo' = todo \/ todo' = [todo EXCEPT ![Relayer] = <<>>]
    BY DEF Start, Stop, Relayer
  <2>2. <<>> \in Seq(Msgs)
    OBVIOUS
  <2> QED BY <2>1, <2>2, <1>0 DEF TypeInv
<1>5. \A n : MsgsOf(n)' = MsgsOf(n)
  BY <1>1 DEF MsgsOf
<1>6. TypeInv'
  BY <1>0, <1>1, <1>2, <1>3, <1>4 DEF TypeInv, Stages
<1>7. PositionInv'
  BY <1>0, <1>1, <1>2 DEF PositionInv, TypeInv, InBlock
<1>8. BlockInv'
  BY <1>2 DEF BlockInv, InBlock
<1>9. NoMessageSkipped'
  BY <1>0, <1>1, <1>5 DEF NoMessageSkipped
<1> QED BY <1>6, <1>7, <1>8, <1>9 DEF IInv

\* A new block is reported.
LEMMA TakeResultKeeps ==
    ASSUME IInv, TakeResult
    PROVE  IInv'
<1> DEFINE last == IF lastProcessedBlock = 0 THEN notified ELSE lastProcessedBlock
           next == IF last < notified THEN "block" ELSE "waiting"
<1>0. TypeInv /\ PositionInv /\ BlockInv /\ NoMessageSkipped
  BY DEF IInv
<1>1. /\ stage[Relayer] = "waiting" /\ notified <= Len(blocks)
      /\ notified' = notified + 1 /\ blockHeight' = notified
      /\ lastProcessedBlock' = last
      /\ firstBlock' = (IF lastProcessedBlock = 0 THEN notified ELSE firstBlock)
      /\ stage' = [stage EXCEPT ![Relayer] = next]
      /\ UNCHANGED <<blocks, stored, todo, handled>>
  BY DEF TakeResult, Relayer
<1>2. last \in Nat \ {0} /\ next \in {"block", "waiting"}
      /\ (next = "block" => last < notified)
  BY <1>0 DEF TypeInv
<1>3. Relayer \in DOMAIN stage' /\ stage'[Relayer] = next
  BY <1>0, <1>1 DEF TypeInv
<1>4. lastProcessedBlock \in Nat
      /\ (stored > 0 => lastProcessedBlock = stored /\ last = stored /\ firstBlock' = firstBlock)
      /\ (stored = 0 => last = firstBlock')
  BY <1>0, <1>1 DEF TypeInv, PositionInv
<1>5. \A n : MsgsOf(n)' = MsgsOf(n)
  BY <1>1 DEF MsgsOf
<1> HIDE DEF last, next
<1>6. TypeInv'
  <2>1. firstBlock' \in Nat
    BY <1>0, <1>1 DEF TypeInv
  <2> QED BY <2>1, <1>0, <1>1, <1>2, <1>3 DEF TypeInv, Stages
<1>7. PositionInv'
  BY <1>0, <1>1, <1>2, <1>3, <1>4 DEF PositionInv, TypeInv, InBlock
<1>8. BlockInv'
  BY <1>2, <1>3 DEF BlockInv, InBlock
<1>9. NoMessageSkipped'
  BY <1>0, <1>1, <1>4, <1>5 DEF NoMessageSkipped
<1> QED BY <1>6, <1>7, <1>8, <1>9 DEF IInv

\* The messages of the next block are all to do.
LEMMA ReadBlockKeeps ==
    ASSUME IInv, ReadBlock
    PROVE  IInv'
<1>0. TypeInv /\ PositionInv /\ BlockInv /\ NoMessageSkipped
  BY DEF IInv
<1> DEFINE block == blocks[lastProcessedBlock + 1]
<1>1. /\ stage[Relayer] = "block"
      /\ stage' = [stage EXCEPT ![Relayer] = "messages"]
      /\ todo' = [todo EXCEPT ![Relayer] = block]
      /\ UNCHANGED <<blocks, notified, blockHeight, lastProcessedBlock, firstBlock, stored,
                     handled>>
  BY DEF ReadBlock, Relayer, chainVars, positionVars
<1>2. lastProcessedBlock + 1 \in 1..Len(blocks) /\ block \in Seq(Msgs)
  <2>1. lastProcessedBlock \in Nat /\ blockHeight \in Nat /\ blocks \in Seq(Seq(Msgs))
    BY <1>0 DEF TypeInv
  <2>2. lastProcessedBlock > 0 /\ lastProcessedBlock < blockHeight /\ blockHeight <= Len(blocks)
    BY <1>0, <1>1 DEF PositionInv
  <2>3. lastProcessedBlock + 1 \in 1..Len(blocks)
    BY <2>1, <2>2
  <2> QED BY <2>1, <2>3
<1>3. /\ Relayer \in DOMAIN stage' /\ stage'[Relayer] = "messages"
      /\ Relayer \in DOMAIN todo' /\ todo'[Relayer] = block
  BY <1>0, <1>1 DEF TypeInv
<1>4. \A n : MsgsOf(n)' = MsgsOf(n)
  BY <1>1 DEF MsgsOf
<1>5. \A m \in MsgsOf(lastProcessedBlock + 1) : \E i \in 1..Len(block) : block[i] = m
  BY <1>2 DEF MsgsOf
<1> HIDE DEF block
<1>6. TypeInv'
  BY <1>0, <1>1, <1>2, <1>3 DEF TypeInv, Stages
<1>7. PositionInv'
  BY <1>0, <1>1, <1>3 DEF PositionInv, InBlock
<1>8. BlockInv'
  BY <1>1, <1>3, <1>4, <1>5 DEF BlockInv, InBlock
<1>9. NoMessageSkipped'
  BY <1>0, <1>1, <1>4 DEF NoMessageSkipped
<1> QED BY <1>6, <1>7, <1>8, <1>9 DEF IInv

\* The position moves over a block with nothing left to do.
LEMMA SaveBlockKeeps ==
    ASSUME IInv, SaveBlock
    PROVE  IInv'
<1>0. TypeInv /\ PositionInv /\ BlockInv /\ NoMessageSkipped
  BY DEF IInv
<1> DEFINE next == IF lastProcessedBlock + 1 < blockHeight THEN "block" ELSE "waiting"
<1>1. /\ stage[Relayer] = "messages" /\ todo[Relayer] = <<>>
      /\ lastProcessedBlock' = lastProcessedBlock + 1
      /\ stored' = lastProcessedBlock + 1
      /\ stage' = [stage EXCEPT ![Relayer] = next]
      /\ UNCHANGED <<blocks, notified, blockHeight, firstBlock, todo, handled>>
  BY DEF SaveBlock, Relayer, chainVars
<1>2. /\ lastProcessedBlock \in Nat \ {0} /\ stored \in Nat /\ firstBlock \in Nat
      /\ blockHeight \in Nat /\ Len(blocks) \in Nat
      /\ lastProcessedBlock + 1 <= Len(blocks)
      /\ blockHeight <= Len(blocks)
      /\ stored > 0 => lastProcessedBlock = stored
      /\ stored = 0 => lastProcessedBlock = firstBlock
  BY <1>0, <1>1 DEF TypeInv, PositionInv, InBlock
<1>3. Relayer \in DOMAIN stage' /\ stage'[Relayer] = next
  BY <1>0, <1>1 DEF TypeInv
<1>4. next \in {"block", "waiting"} /\ (next = "block" => lastProcessedBlock + 1 < blockHeight)
  OBVIOUS
<1>5. \A m \in MsgsOf(lastProcessedBlock + 1) : Handled(m)
  BY <1>0, <1>1 DEF BlockInv, InBlock
<1>6. \A n : MsgsOf(n)' = MsgsOf(n)
  BY <1>1 DEF MsgsOf
<1> HIDE DEF next
<1>7. TypeInv'
  BY <1>0, <1>1, <1>2, <1>3, <1>4 DEF TypeInv, Stages
<1>8. PositionInv'
  BY <1>1, <1>2, <1>3, <1>4 DEF PositionInv, InBlock
<1>9. BlockInv'
  BY <1>3, <1>4 DEF BlockInv, InBlock
<1>10. NoMessageSkipped'
  <2>1. ASSUME NEW n \in (firstBlock + 1)..(lastProcessedBlock + 1), NEW m \in MsgsOf(n)
        PROVE  handled["relayer"][m] > 0
    <3>1. CASE n = lastProcessedBlock + 1
      BY <2>1, <3>1, <1>5 DEF Handled, Relayer
    <3>2. CASE n # lastProcessedBlock + 1
      <4>1. stored > 0 /\ n \in (firstBlock + 1)..stored
        BY <2>1, <3>2, <1>2
      <4> QED BY <4>1, <2>1, <1>0 DEF NoMessageSkipped
    <3> QED BY <3>1, <3>2
  <2> QED BY <2>1, <1>1, <1>6 DEF NoMessageSkipped
<1> QED BY <1>7, <1>8, <1>9, <1>10 DEF IInv

\* The relayer takes up the first message to do, and is done with it once sent
\* or given up.
LEMMA HandlerKeeps ==
    ASSUME IInv, HandlerStep(Relayer)
    PROVE  IInv'
<1>0. TypeInv /\ PositionInv /\ BlockInv /\ NoMessageSkipped
  BY DEF IInv
<1>1. UNCHANGED <<blocks, notified, blockHeight, lastProcessedBlock, firstBlock, stored>>
  BY DEF HandlerStep, HandleMessage, Send, SendFails, ReceiptFound, ReceiptMissing, GiveUp,
         chainVars, positionVars
<1>2. InBlock /\ todo[Relayer] # <<>>
  BY <1>0 DEF HandlerStep, HandleMessage, Send, SendFails, ReceiptFound, ReceiptMissing, GiveUp,
              InBlock, BlockInv
<1> DEFINE first == Head(todo[Relayer])
           rest  == Tail(todo[Relayer])
<1>3. /\ first \in Msgs /\ rest \in Seq(Msgs)
      /\ \A i \in 1..Len(todo[Relayer]) :
            todo[Relayer][i] = first \/ \E j \in 1..Len(rest) : rest[j] = todo[Relayer][i]
  <2>1. todo[Relayer] \in Seq(Msgs) /\ Len(todo[Relayer]) \in Nat \ {0}
    BY <1>0, <1>2 DEF TypeInv
  <2>2. first = todo[Relayer][1] /\ rest \in Seq(Msgs) /\ Len(rest) = Len(todo[Relayer]) - 1
        /\ \A j \in 1..Len(rest) : rest[j] = todo[Relayer][j + 1]
    BY <2>1
  <2>3. ASSUME NEW i \in 1..Len(todo[Relayer]), i # 1
        PROVE  i - 1 \in 1..Len(rest) /\ rest[i - 1] = todo[Relayer][i]
    BY <2>1, <2>2, <2>3
  <2> QED BY <2>1, <2>2, <2>3
<1> HIDE DEF first, rest
\* Which messages count as handled only grows, and has the first one from now on.
<1>4. /\ Relayer \in DOMAIN handled' /\ handled'[Relayer] \in [Msgs -> Nat]
      /\ \A m \in Msgs : handled[Relayer][m] > 0 => handled'[Relayer][m] > 0
      /\ handled'[Relayer][first] > 0
  <2>1. CASE HandleMessage(Relayer)
    <3>1. handled' = [handled EXCEPT ![Relayer][first] = @ + 1]
      BY <2>1 DEF HandleMessage, first
    <3>2. handled'[Relayer] = [handled[Relayer] EXCEPT ![first] = @ + 1]
          /\ Relayer \in DOMAIN handled'
      BY <3>1, <1>0 DEF TypeInv
    <3> QED BY <3>2, <1>0, <1>3 DEF TypeInv
  <2>2. CASE ~HandleMessage(Relayer)
    <3>1. handled' = handled /\ stage[Relayer] \in {"sending", "receipt"}
      BY <2>2 DEF HandlerStep, Send, SendFails, ReceiptFound, ReceiptMissing, GiveUp
    <3> QED BY <3>1, <1>0 DEF TypeInv, BlockInv, Handled, first
  <2> QED BY <2>1, <2>2
<1>5. /\ Relayer \in DOMAIN stage' /\ Relayer \in DOMAIN todo'
      /\ \/ stage'[Relayer] = "messages" /\ todo'[Relayer] = rest
         \/ stage'[Relayer] \in {"sending", "receipt"} /\ todo'[Relayer] = todo[Relayer]
  BY <1>0 DEF HandlerStep, HandleMessage, Send, SendFails, ReceiptFound, ReceiptMissing, GiveUp,
              Done, TypeInv, rest
<1>6. \A n : MsgsOf(n)' = MsgsOf(n)
  BY <1>1 DEF MsgsOf
<1>7. TypeInv'
  BY <1>0, <1>1, <1>3, <1>4, <1>5 DEF TypeInv, Stages
<1>8. PositionInv'
  BY <1>0, <1>1, <1>2, <1>5 DEF PositionInv, InBlock
<1>9. BlockInv'
  <2>1. MsgsOf(lastProcessedBlock + 1) \subseteq Msgs
    BY <1>0, <1>2 DEF TypeInv, PositionInv, MsgsOf
  <2>2. ASSUME NEW m \in MsgsOf(lastProcessedBlock + 1)
        PROVE  handled'[Relayer][m] > 0
               \/ \E i \in 1..Len(todo'[Relayer]) : todo'[Relayer][i] = m
    <3>1. CASE Handled(m)
      BY <3>1, <2>1, <1>4 DEF Handled
    <3>2. CASE \E i \in 1..Len(todo[Relayer]) : todo[Relayer][i] = m
      BY <3>2, <1>3, <1>4, <1>5
    <3> QED BY <3>1, <3>2, <1>0, <1>2 DEF BlockInv
  <2>3. stage'[Relayer] \in {"sending", "receipt"}
           => todo'[Relayer] # <<>> /\ handled'[Relayer][Head(todo'[Relayer])] > 0
    BY <1>2, <1>4, <1>5 DEF first
  <2> QED BY <2>2, <2>3, <1>1, <1>6 DEF BlockInv, Handled
<1>10. NoMessageSkipped'
  <2>1. \A n \in (firstBlock + 1)..stored : MsgsOf(n) \subseteq Msgs
    BY <1>0 DEF TypeInv, PositionInv, MsgsOf
  <2> QED BY <2>1, <1>0, <1>1, <1>4, <1>6 DEF NoMessageSkipped, Relayer
<1> QED BY <1>7, <1>8, <1>9, <1>10 DEF IInv

\* Every step keeps the invariant.
LEMMA StepKeeps ==
    ASSUME IInv, [Next]_vars
    PROVE  IInv'
<1>0. TypeInv
  BY DEF IInv
<1>1. CASE \E msgs \in SUBSET Msgs : CommitBlock(msgs)
  BY <1>1, CommitKeeps
<1>2. CASE \E tx \in pool : MineTransaction(tx) \/ DropTransaction(tx)
  BY <1>0, <1>2, OthersKeep
     DEF MineTransaction, DropTransaction, chainVars, positionVars, processVars, TypeInv
<1>3. CASE Start \/ Stop
  BY <1>3, RestartKeeps
<1>4. CASE StartStep
  BY <1>4, TakeResultKeeps, ReadBlockKeeps, SaveBlockKeeps DEF StartStep
<1>5. CASE ReplayStep
  BY <1>0, <1>5, OthersKeep
     DEF ReplayStep, Replay, ReplayEnds, chainVars, positionVars, TypeInv, Relayer
<1>6. CASE HandlerStep("relayer")
  BY <1>6, HandlerKeeps DEF Relayer
<1>7. CASE HandlerStep("replay")
  <2>1. /\ UNCHANGED <<blocks, notified, blockHeight, lastProcessedBlock, firstBlock, stored>>
        /\ Relayer \in DOMAIN stage' /\ stage'[Relayer] = stage[Relayer]
        /\ Relayer \in DOMAIN todo' /\ todo'[Relayer] = todo[Relayer]
        /\ Relayer \in DOMAIN handled' /\ handled'[Relayer] = handled[Relayer]
    BY <1>0, <1>7 DEF HandlerStep, HandleMessage, Send, SendFails, ReceiptFound, ReceiptMissing,
                      GiveUp, Done, TypeInv, Relayer, chainVars, positionVars
  <2> QED BY <2>1, OthersKeep
<1>8. CASE UNCHANGED vars
  BY <1>0, <1>8, OthersKeep DEF vars, TypeInv
<1> QED BY <1>1, <1>2, <1>3, <1>4, <1>5, <1>6, <1>7, <1>8 DEF Next, ChainStep, Processes

\* Wherever the relayer was stopped, and whatever replayCosmos does with the
\* same account meanwhile, every message between the first block the relayer
\* saw and its saved position was handled (CosmosSub.Start,
\* handleBurnLockMsg).
THEOREM RestartLeavesNoGap == Spec => []NoMessageSkipped
<1>1. IInv /\ [Next]_vars => IInv'
  BY StepKeeps
<1>2. IInv => NoMessageSkipped
  BY DEF IInv
<1> QED BY InitHolds, <1>1, <1>2, PTL DEF Spec
=============================================================================

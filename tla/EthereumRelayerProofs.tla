------------------------ MODULE EthereumRelayerProofs -----------------------
(***************************************************************************)
(* Safety of the Ethereum half of the relayer for any number of logs, any  *)
(* trailing distance and any number of stops and reorganizations.  Blocks  *)
(* trailingBlocks deep do not change, so it is enough that everything the  *)
(* relayer keeps (position, batch, heads) speaks of such blocks only.      *)
(***************************************************************************)
EXTENDS EthereumRelayer, TLAPS

ConfirmedHeight == highest - TrailingBlocks

Handling == stage \in {"read", "relayed"}

\* The chain ends between the greatest confirmed height and the greatest height.
ChainInv ==
    /\ chain \in Seq(Logs \cup {NoLog})
    /\ highest \in Nat
    /\ Len(chain) <= highest
    /\ Len(chain) >= ConfirmedHeight

\* A head may be lower than one before it, but by less than trailingBlocks.
HeadsInv ==
    /\ heads \in Seq(Nat)
    /\ \A i \in 1..Len(heads) :
          /\ heads[i] <= highest
          /\ heads[i] + 1 > stored
          /\ Handling => heads[i] > endingBlock
          /\ \A j \in 1..Len(heads) : i < j => heads[j] > heads[i] - TrailingBlocks

\* Once a position was saved Start goes on from there; before that it goes on
\* from the first block it read.
PositionInv ==
    /\ stage \in Stages
    /\ lastProcessedBlock \in Nat
    /\ endingBlock \in Nat
    /\ stored \in Nat
    /\ firstBlock \in Nat
    /\ stored > 0 => stored <= ConfirmedHeight + 1
    /\ stage # "stopped" /\ stored > 0 => lastProcessedBlock = stored
    /\ stage # "stopped" /\ stored = 0 => lastProcessedBlock \in {0, firstBlock}
    /\ Handling => /\ endingBlock <= ConfirmedHeight
                   /\ endingBlock + 1 > stored - TrailingBlocks
                   /\ stored = 0 => lastProcessedBlock = firstBlock

RelayInv ==
    /\ relayed \subseteq FilterLogs(1, ConfirmedHeight)
    /\ replaying \subseteq FilterLogs(1, ConfirmedHeight)
    /\ stage = "read" => batch = FilterLogs(lastProcessedBlock, endingBlock)
    /\ stage = "relayed" => FilterLogs(lastProcessedBlock, endingBlock) \subseteq relayed
    /\ stored > 0 => FilterLogs(firstBlock, stored - 1) \subseteq relayed

IInv == ChainInv /\ HeadsInv /\ PositionInv /\ RelayInv

-----------------------------------------------------------------------------
(***************************************************************************)
(* What FilterLogs returns.                                                *)
(***************************************************************************)
\* A wider range has all logs of a narrower one; blocks are counted from 1.
LEMMA FilterWider ==
    ASSUME chain \in Seq(Logs \cup {NoLog}),
           NEW a \in Int, NEW b \in Int, NEW c \in Int, NEW d \in Int,
           c <= a \/ c <= 1, b <= d
    PROVE  FilterLogs(a, b) \subseteq FilterLogs(c, d)
<1>1. (a..b) \cap DOMAIN chain \subseteq (c..d) \cap DOMAIN chain
  OBVIOUS
<1> QED BY <1>1 DEF FilterLogs

\* Two ranges that meet have the logs of the range they cover.
LEMMA FilterSplit ==
    ASSUME NEW a \in Int, NEW b \in Int, NEW c \in Int
    PROVE  FilterLogs(a, c) \subseteq FilterLogs(a, b - 1) \cup FilterLogs(b, c)
<1>1. a..c \subseteq (a..(b - 1)) \cup (b..c)
  OBVIOUS
<1> QED BY <1>1 DEF FilterLogs

\* Mining and reorganizations leave confirmed blocks alone.
LEMMA ConfirmedStay ==
    ASSUME ChainInv, EthereumStep
    PROVE  /\ ChainInv'
           /\ highest' >= highest
           /\ \A a, b \in Int :
                 b <= ConfirmedHeight =>
                    {chain'[n] : n \in (a..b) \cap DOMAIN chain'} \ {NoLog} = FilterLogs(a, b)
<1> USE RelayerBoundsAssumption DEF ChainInv, ConfirmedHeight
<1>1. CASE \E log \in Logs \cup {NoLog} : Mine(log)
  <2>1. PICK log \in Logs \cup {NoLog} : Mine(log)
    BY <1>1
  <2>2. chain' = Append(chain, log) /\ Len(chain') = Len(chain) + 1
    BY <2>1 DEF Mine
  <2>3. highest' \in Nat /\ highest' >= highest /\ highest' >= Len(chain')
        /\ (highest' = highest \/ highest' = Len(chain'))
    BY <2>1, <2>2 DEF Mine
  <2>4. ChainInv'
    BY <2>2, <2>3
  <2>5. ASSUME NEW a \in Int, NEW b \in Int, b <= ConfirmedHeight
        PROVE  {chain'[n] : n \in (a..b) \cap DOMAIN chain'} \ {NoLog} = FilterLogs(a, b)
    <3>1. (a..b) \cap DOMAIN chain' = (a..b) \cap DOMAIN chain
      BY <2>2, <2>5
    <3>2. \A n \in (a..b) \cap DOMAIN chain : chain'[n] = chain[n]
      BY <2>2
    <3> QED BY <3>1, <3>2 DEF FilterLogs
  <2> QED BY <2>3, <2>4, <2>5
<1>2. CASE \E depth \in 1..TrailingBlocks : Reorganize(depth)
  <2>1. PICK depth \in 1..TrailingBlocks : Reorganize(depth)
    BY <1>2
  <2>2. /\ chain' = SubSeq(chain, 1, Len(chain) - depth)
        /\ Len(chain) - depth \in Nat
        /\ Len(chain) - depth >= highest - TrailingBlocks
        /\ highest' = highest
    BY <2>1 DEF Reorganize
  <2>3. chain' \in Seq(Logs \cup {NoLog}) /\ Len(chain') = Len(chain) - depth
        /\ \A n \in 1..(Len(chain) - depth) : chain'[n] = chain[n]
    BY <2>2
  <2>4. ChainInv'
    BY <2>2, <2>3
  <2>5. ASSUME NEW a \in Int, NEW b \in Int, b <= ConfirmedHeight
        PROVE  {chain'[n] : n \in (a..b) \cap DOMAIN chain'} \ {NoLog} = FilterLogs(a, b)
    <3>1. (a..b) \cap DOMAIN chain' = (a..b) \cap DOMAIN chain
      BY <2>2, <2>3, <2>5
    <3>2. \A n \in (a..b) \cap DOMAIN chain : chain'[n] = chain[n]
      BY <2>2, <2>3, <2>5
    <3> QED BY <3>1, <3>2 DEF FilterLogs
  <2> QED BY <2>2, <2>4, <2>5
<1> QED BY <1>1, <1>2 DEF EthereumStep

-----------------------------------------------------------------------------
(***************************************************************************)
(* Every step keeps the invariant.                                         *)
(***************************************************************************)
\* Heads that are left after the first keep their order and their bounds.
LEMMA TailFacts ==
    ASSUME HeadsInv, heads # <<>>
    PROVE  /\ Tail(heads) \in Seq(Nat)
           /\ Head(heads) \in Nat /\ Head(heads) <= highest /\ Head(heads) + 1 > stored
           /\ \A i \in 1..Len(Tail(heads)) :
                 /\ i + 1 \in 1..Len(heads) /\ Tail(heads)[i] = heads[i + 1]
                 /\ Tail(heads)[i] \in Nat
                 /\ Tail(heads)[i] > Head(heads) - TrailingBlocks
<1>1. Len(heads) \in Nat \ {0} /\ heads \in Seq(Nat)
  BY DEF HeadsInv
<1>2. Head(heads) = heads[1] /\ 1 \in 1..Len(heads)
  BY <1>1
<1>3. Tail(heads) \in Seq(Nat) /\ Len(Tail(heads)) = Len(heads) - 1
  BY <1>1
<1>4. ASSUME NEW i \in 1..Len(Tail(heads))
      PROVE  i + 1 \in 1..Len(heads) /\ 1 < i + 1 /\ Tail(heads)[i] = heads[i + 1]
  BY <1>1, <1>3
<1>5. ASSUME NEW i \in 1..Len(Tail(heads))
      PROVE  Tail(heads)[i] \in Nat /\ Tail(heads)[i] > heads[1] - TrailingBlocks
  BY <1>1, <1>2, <1>4 DEF HeadsInv
<1>6. heads[1] \in Nat /\ heads[1] <= highest /\ heads[1] + 1 > stored
  BY <1>1, <1>2 DEF HeadsInv
<1> QED BY <1>2, <1>3, <1>4, <1>5, <1>6

\* Mining and reorganizations: a new head is above the confirmed height.
LEMMA EthereumKeeps ==
    ASSUME IInv, EthereumStep
    PROVE  IInv'
<1>t. TrailingBlocks \in Nat
  BY RelayerBoundsAssumption
<1>0. ChainInv /\ HeadsInv /\ PositionInv /\ RelayInv
  BY DEF IInv
<1>1. ChainInv' /\ highest' >= highest
  BY <1>t, <1>0, ConfirmedStay
<1>2. \A a, b \in Int :
         b <= ConfirmedHeight =>
            {chain'[n] : n \in (a..b) \cap DOMAIN chain'} \ {NoLog} = FilterLogs(a, b)
  BY <1>t, <1>0, ConfirmedStay
<1>3. UNCHANGED <<stage, lastProcessedBlock, endingBlock, batch, stored, firstBlock,
                  relayed, replaying>>
  BY DEF EthereumStep, Mine, Reorganize, processVars, cosmosVars
<1>4. PICK top \in Nat : highest' = top /\ top >= highest /\ highest \in Nat
  BY <1>0, <1>1 DEF ChainInv
<1>5. PositionInv'
  BY <1>t, <1>0, <1>3, <1>4 DEF PositionInv, ConfirmedHeight, Handling
<1>6. heads' = heads \/ heads' = Append(heads, Len(chain'))
  BY DEF EthereumStep, Mine, Reorganize
<1>7. Len(chain') \in Nat /\ (heads' # heads => Len(chain') >= ConfirmedHeight + 1)
  <2>1. CASE \E log \in Logs \cup {NoLog} : Mine(log)
    BY <2>1, <1>t, <1>0, <1>1 DEF Mine, ChainInv, ConfirmedHeight
  <2>2. CASE \E depth \in 1..TrailingBlocks : Reorganize(depth)
    BY <2>2, <1>t, <1>0, <1>1 DEF Reorganize, ChainInv
  <2> QED BY <2>1, <2>2 DEF EthereumStep
<1>8. HeadsInv'
  <2>1. CASE heads' = heads
    BY <2>1, <1>t, <1>0, <1>3, <1>4 DEF HeadsInv, PositionInv, Handling
  <2>2. CASE heads' # heads
    <3>1. PICK new \in Nat : heads' = Append(heads, new) /\ new >= ConfirmedHeight + 1
                             /\ new <= top
      BY <2>2, <1>t, <1>0, <1>1, <1>4, <1>6, <1>7 DEF ChainInv
    <3>2. heads' \in Seq(Nat) /\ Len(heads') = Len(heads) + 1 /\ heads'[Len(heads')] = new
          /\ \A i \in 1..Len(heads) : heads'[i] = heads[i]
      BY <3>1, <1>0 DEF HeadsInv
    <3>3. ASSUME NEW i \in 1..Len(heads')
          PROVE  /\ heads'[i] <= highest'
                 /\ heads'[i] + 1 > stored'
                 /\ Handling' => heads'[i] > endingBlock'
      BY <3>1, <3>2, <1>t, <1>0, <1>3, <1>4
         DEF HeadsInv, PositionInv, ConfirmedHeight, Handling
    <3>4. ASSUME NEW i \in 1..Len(heads'), NEW j \in 1..Len(heads'), i < j
          PROVE  heads'[j] > heads'[i] - TrailingBlocks
      <4>1. i \in 1..Len(heads) /\ heads'[i] = heads[i] /\ heads[i] \in Nat
            /\ heads[i] <= highest
        BY <3>2, <3>4, <1>0 DEF HeadsInv
      <4>2. CASE j \in 1..Len(heads)
        <5>1. heads'[j] = heads[j] /\ heads[j] > heads[i] - TrailingBlocks
          BY <4>1, <4>2, <3>2, <3>4, <1>0 DEF HeadsInv
        <5> QED BY <5>1, <4>1
      <4>3. CASE j \notin 1..Len(heads)
        <5>1. heads'[j] = new
          BY <4>3, <3>2, <1>0 DEF HeadsInv
        <5>2. new > heads[i] - TrailingBlocks
          BY <3>1, <4>1, <1>t, <1>4 DEF ConfirmedHeight
        <5> QED BY <5>1, <5>2, <4>1
      <4> QED BY <4>2, <4>3
    <3> QED BY <3>2, <3>3, <3>4 DEF HeadsInv
  <2> QED BY <2>1, <2>2
<1>9. RelayInv'
  <2>1. FilterLogs(1, ConfirmedHeight) \subseteq FilterLogs(1, ConfirmedHeight)'
    <3> DEFINE c == highest - TrailingBlocks
               c1 == top - TrailingBlocks
    <3>1. c \in Int /\ c1 \in Int /\ c <= c1
      BY <1>t, <1>4
    <3>2. FilterLogs(1, c) = {chain'[n] : n \in (1..c) \cap DOMAIN chain'} \ {NoLog}
      BY <1>2, <3>1 DEF ConfirmedHeight
    <3>3. 1..c \subseteq 1..c1
      BY <3>1
    <3> HIDE DEF c, c1
    <3>4. FilterLogs(1, c) \subseteq {chain'[n] : n \in (1..c1) \cap DOMAIN chain'} \ {NoLog}
      BY <3>2, <3>3
    <3> QED BY <3>4, <1>4 DEF c, c1, FilterLogs, ConfirmedHeight
  <2>2. Handling => FilterLogs(lastProcessedBlock, endingBlock)'
                       = FilterLogs(lastProcessedBlock, endingBlock)
    <3>1. Handling => /\ lastProcessedBlock \in Int /\ endingBlock \in Int
                      /\ endingBlock <= ConfirmedHeight
      BY <1>0 DEF PositionInv
    <3> QED BY <1>2, <1>3, <3>1 DEF FilterLogs
  <2>3. stored > 0 => FilterLogs(firstBlock, stored - 1)' = FilterLogs(firstBlock, stored - 1)
    <3>1. stored > 0 => stored - 1 \in Int /\ firstBlock \in Int /\ stored - 1 <= ConfirmedHeight
      BY <1>t, <1>0, <1>4 DEF PositionInv, ConfirmedHeight
    <3> QED BY <1>2, <1>3, <3>1 DEF FilterLogs
  <2> QED BY <2>1, <2>2, <2>3, <1>3, <1>0 DEF RelayInv, Handling
<1> QED BY <1>1, <1>5, <1>8, <1>9 DEF IInv

\* Start: what is read is confirmed, and the position moves past what was read.
LEMMA RelayerKeeps ==
    ASSUME IInv, RelayerStep
    PROVE  IInv' /\ stored' > stored - TrailingBlocks
<1>t. TrailingBlocks \in Nat \ {0}
  BY RelayerBoundsAssumption
<1>0. ChainInv /\ HeadsInv /\ PositionInv /\ RelayInv
  BY DEF IInv
<1>1. UNCHANGED <<chain, highest>>
  BY DEF RelayerStep, Start, Stop, SkipHead, ReadHead, HandleEvents, SavePosition, chainVars
<1>2. ChainInv'
  BY <1>0, <1>1 DEF ChainInv, ConfirmedHeight
<1>3. \A a, b : FilterLogs(a, b)' = FilterLogs(a, b)
  BY <1>1 DEF FilterLogs
<1>4. ConfirmedHeight \in Int /\ ConfirmedHeight' = ConfirmedHeight /\ highest \in Nat
  BY <1>t, <1>0, <1>1 DEF ChainInv, ConfirmedHeight
<1>5. chain \in Seq(Logs \cup {NoLog})
  BY <1>0 DEF ChainInv
<1>6. stored \in Nat /\ stored > stored - TrailingBlocks
  BY <1>t, <1>0 DEF PositionInv
<1>7. CASE Start
  <2>1. /\ stage' = "waiting" /\ lastProcessedBlock' = stored /\ heads' = <<>>
        /\ UNCHANGED <<endingBlock, batch, stored, firstBlock, relayed, replaying>>
    BY <1>7 DEF Start
  <2>2. HeadsInv'
    BY <2>1 DEF HeadsInv
  <2>3. PositionInv'
    BY <2>1, <1>4, <1>0 DEF PositionInv, Handling, Stages
  <2>4. RelayInv'
    BY <2>1, <1>3, <1>4, <1>0 DEF RelayInv
  <2> QED BY <2>1, <2>2, <2>3, <2>4, <1>2, <1>6 DEF IInv
<1>8. CASE Stop
  <2>1. /\ stage' = "stopped" /\ lastProcessedBlock' = 0 /\ endingBlock' = 0 /\ heads' = <<>>
        /\ UNCHANGED <<stored, firstBlock, relayed, replaying>>
    BY <1>8 DEF Stop
  <2>2. HeadsInv'
    BY <2>1 DEF HeadsInv
  <2>3. PositionInv'
    BY <2>1, <1>4, <1>0 DEF PositionInv, Handling, Stages
  <2>4. RelayInv'
    BY <2>1, <1>3, <1>4, <1>0 DEF RelayInv
  <2> QED BY <2>1, <2>2, <2>3, <2>4, <1>2, <1>6 DEF IInv
<1>9. CASE SkipHead
  <2>1. /\ heads # <<>> /\ heads' = Tail(heads)
        /\ UNCHANGED <<stage, lastProcessedBlock, endingBlock, batch, stored, firstBlock,
                       relayed, replaying>>
    BY <1>9 DEF SkipHead, processVars
  <2>2. HeadsInv'
    <3>1. /\ Tail(heads) \in Seq(Nat)
          /\ \A i \in 1..Len(Tail(heads)) :
                i + 1 \in 1..Len(heads) /\ Tail(heads)[i] = heads[i + 1]
      BY <2>1, <1>0, TailFacts
    <3> QED BY <3>1, <2>1, <1>1, <1>0 DEF HeadsInv, Handling
  <2>3. PositionInv'
    BY <2>1, <1>4, <1>0 DEF PositionInv, Handling, Stages
  <2>4. RelayInv'
    BY <2>1, <1>3, <1>4, <1>0 DEF RelayInv
  <2> QED BY <2>1, <2>2, <2>3, <2>4, <1>2, <1>6 DEF IInv
<1>10. CASE ReadHead
  <2> DEFINE ending == Head(heads) - TrailingBlocks
             from   == IF lastProcessedBlock = 0 THEN ending ELSE lastProcessedBlock
  <2>1. /\ stage = "waiting" /\ heads # <<>> /\ ending >= 0
        /\ heads' = Tail(heads) /\ lastProcessedBlock' = from
        /\ firstBlock' = (IF lastProcessedBlock = 0 THEN ending ELSE firstBlock)
        /\ \/ endingBlock' = ending /\ batch' = FilterLogs(from, ending) /\ stage' = "read"
           \/ UNCHANGED <<endingBlock, batch, stage>>
        /\ UNCHANGED <<stored, relayed, replaying>>
    BY <1>10 DEF ReadHead
  <2>2. /\ Tail(heads) \in Seq(Nat)
        /\ Head(heads) \in Nat /\ Head(heads) <= highest /\ Head(heads) + 1 > stored
        /\ \A i \in 1..Len(Tail(heads)) :
              /\ i + 1 \in 1..Len(heads) /\ Tail(heads)[i] = heads[i + 1]
              /\ Tail(heads)[i] \in Nat
              /\ Tail(heads)[i] > ending
    BY <2>1, <1>0, TailFacts
  <2>3. ending \in Nat /\ ending <= ConfirmedHeight /\ ending + 1 > stored - TrailingBlocks
    <3> DEFINE head == Head(heads)
    <3>1. head \in Nat /\ head <= highest /\ head + 1 > stored /\ ending >= 0
      BY <2>1, <2>2
    <3>2. ending = head - TrailingBlocks
      OBVIOUS
    <3>3. stored \in Nat
      BY <1>0 DEF PositionInv
    <3> HIDE DEF head, ending
    <3> QED BY <3>1, <3>2, <3>3, <1>t, <1>4 DEF ConfirmedHeight
  <2>4. lastProcessedBlock \in Nat /\ (stored > 0 => lastProcessedBlock = stored)
        /\ (stored = 0 => lastProcessedBlock \in {0, firstBlock})
    BY <2>1, <1>0 DEF PositionInv
  <2> HIDE DEF ending
  <2>5. HeadsInv'
    BY <2>1, <2>2, <1>1, <1>0 DEF HeadsInv, Handling
  <2>6. PositionInv'
    BY <2>1, <2>3, <2>4, <1>4, <1>6, <1>0 DEF PositionInv, Handling, Stages
  <2>7. RelayInv'
    <3>1. stored > 0 => firstBlock' = firstBlock
      BY <2>1, <2>4, <1>6
    <3>2. stage' = "read" => batch' = FilterLogs(lastProcessedBlock', endingBlock')
      BY <2>1
    <3>3. stage' # "relayed"
      BY <2>1
    <3> QED BY <3>1, <3>2, <3>3, <2>1, <1>3, <1>4, <1>0 DEF RelayInv
  <2> QED BY <2>1, <2>5, <2>6, <2>7, <1>2, <1>6 DEF IInv
<1>11. CASE HandleEvents
  <2>1. /\ stage = "read" /\ stage' = "relayed" /\ relayed' = relayed \cup batch
        /\ UNCHANGED <<heads, lastProcessedBlock, endingBlock, batch, stored, firstBlock,
                       replaying>>
    BY <1>11 DEF HandleEvents
  <2>2. HeadsInv'
    BY <2>1, <1>1, <1>0 DEF HeadsInv, Handling
  <2>3. PositionInv'
    BY <2>1, <1>4, <1>0 DEF PositionInv, Handling, Stages
  <2>4. batch = FilterLogs(lastProcessedBlock, endingBlock)
    BY <2>1, <1>0 DEF RelayInv
  <2>5. lastProcessedBlock \in Int /\ endingBlock \in Int /\ endingBlock <= ConfirmedHeight
    BY <2>1, <1>0 DEF PositionInv, Handling
  <2>6. batch \subseteq FilterLogs(1, ConfirmedHeight)
    BY <2>4, <2>5, <1>4, <1>5, FilterWider
  <2>7. RelayInv'
    BY <2>1, <2>4, <2>6, <1>3, <1>4, <1>0 DEF RelayInv
  <2> QED BY <2>1, <2>2, <2>3, <2>7, <1>2, <1>6 DEF IInv
<1>12. CASE SavePosition
  <2>1. /\ stage = "relayed" /\ stage' = "waiting"
        /\ stored' = endingBlock + 1 /\ lastProcessedBlock' = endingBlock + 1
        /\ endingBlock' = 0
        /\ UNCHANGED <<heads, firstBlock, relayed, replaying>>
    BY <1>12 DEF SavePosition
  <2>2. /\ lastProcessedBlock \in Nat /\ endingBlock \in Nat /\ firstBlock \in Nat
        /\ endingBlock <= ConfirmedHeight
        /\ endingBlock + 1 > stored - TrailingBlocks
        /\ stored > 0 => lastProcessedBlock = stored
        /\ stored = 0 => lastProcessedBlock = firstBlock
    BY <2>1, <1>0 DEF PositionInv, Handling
  <2>3. HeadsInv'
    BY <2>1, <2>2, <1>1, <1>0 DEF HeadsInv, Handling
  <2>4. PositionInv'
    BY <2>1, <2>2, <1>4, <1>0 DEF PositionInv, Handling, Stages
  <2>5. FilterLogs(lastProcessedBlock, endingBlock) \subseteq relayed
    BY <2>1, <1>0 DEF RelayInv
  <2>6. FilterLogs(firstBlock, endingBlock) \subseteq relayed
    <3>1. CASE stored = 0
      BY <3>1, <2>2, <2>5
    <3>2. CASE stored > 0
      <4>1. FilterLogs(firstBlock, stored - 1) \subseteq relayed
        BY <3>2, <1>0 DEF RelayInv
      <4>2. FilterLogs(stored, endingBlock) \subseteq relayed
        BY <3>2, <2>2, <2>5
      <4>3. FilterLogs(firstBlock, endingBlock)
               \subseteq FilterLogs(firstBlock, stored - 1) \cup FilterLogs(stored, endingBlock)
        BY <2>2, <1>6, FilterSplit
      <4> QED BY <4>1, <4>2, <4>3
    <3> QED BY <3>1, <3>2, <1>6
  <2>7. stored' - 1 = endingBlock
    BY <2>1, <2>2
  <2>8. RelayInv'
    BY <2>1, <2>6, <2>7, <1>3, <1>4, <1>0 DEF RelayInv
  <2>9. stored' > stored - TrailingBlocks
    BY <2>1, <2>2
  <2> QED BY <2>3, <2>4, <2>8, <2>9, <1>2 DEF IInv
<1> QED BY <1>7, <1>8, <1>9, <1>10, <1>11, <1>12 DEF RelayerStep

\* Transactions and replays: a replayed log is confirmed.
LEMMA OthersKeep ==
    ASSUME IInv, CosmosStep \/ ReplayStep \/ UNCHANGED vars
    PROVE  IInv' /\ stored' > stored - TrailingBlocks
<1>t. TrailingBlocks \in Nat \ {0}
  BY RelayerBoundsAssumption
<1>0. ChainInv /\ HeadsInv /\ PositionInv /\ RelayInv
  BY DEF IInv
<1>1. UNCHANGED <<chain, highest, heads, stage, lastProcessedBlock, endingBlock, batch,
                  stored, firstBlock>>
  BY DEF CosmosStep, ReplayStep, Deliver, Drop, FinalizeByOthers, Replay, ReplayLog, vars,
         chainVars, processVars
<1>2. \A a, b : FilterLogs(a, b)' = FilterLogs(a, b)
  BY <1>1 DEF FilterLogs
<1>3. ChainInv' /\ HeadsInv' /\ PositionInv'
  BY <1>0, <1>1 DEF ChainInv, HeadsInv, PositionInv, ConfirmedHeight, Handling
<1>4. ConfirmedHeight \in Int /\ ConfirmedHeight' = ConfirmedHeight
      /\ chain \in Seq(Logs \cup {NoLog})
  BY <1>t, <1>0, <1>1 DEF ChainInv, ConfirmedHeight
<1>5. /\ relayed' \subseteq relayed \cup replaying
      /\ relayed \subseteq relayed'
      /\ replaying' \subseteq replaying \cup FilterLogs(1, ConfirmedHeight)
  <2>1. CASE \E from, to \in 1..MaxHeight : Replay(from, to)
    <3>1. PICK from \in 1..MaxHeight, to \in 1..MaxHeight : Replay(from, to)
      BY <2>1
    <3>2. FilterLogs(from, to) \subseteq FilterLogs(1, ConfirmedHeight)
      <4>1. from \in Int /\ to \in Int /\ to <= ConfirmedHeight /\ 1 \in Int /\ 1 <= 1
        BY <3>1, RelayerBoundsAssumption DEF Replay, ConfirmedHeight
      <4> QED BY <4>1, <1>4, FilterWider
    <3> QED BY <3>1, <3>2 DEF Replay
  <2>2. CASE \E log \in Logs : ReplayLog(log)
    BY <2>2 DEF ReplayLog
  <2>3. CASE CosmosStep \/ UNCHANGED vars
    BY <2>3 DEF CosmosStep, Deliver, Drop, FinalizeByOthers, vars
  <2> QED BY <2>1, <2>2, <2>3 DEF ReplayStep
<1>6. RelayInv'
  BY <1>0, <1>1, <1>2, <1>4, <1>5 DEF RelayInv
<1>7. stored' > stored - TrailingBlocks
  BY <1>t, <1>0, <1>1 DEF PositionInv
<1> QED BY <1>3, <1>6, <1>7 DEF IInv

-----------------------------------------------------------------------------
(***************************************************************************)
(* Theorems.                                                               *)
(***************************************************************************)
\* Every step keeps the invariant and takes the saved position back by less
\* than trailingBlocks.
LEMMA StepKeeps ==
    ASSUME IInv, [Next]_vars
    PROVE  IInv' /\ stored' > stored - TrailingBlocks
<1>1. CASE EthereumStep
  <2>1. stored' = stored
    BY <1>1 DEF EthereumStep, Mine, Reorganize
  <2>2. stored \in Nat /\ TrailingBlocks \in Nat \ {0}
    BY RelayerBoundsAssumption DEF IInv, PositionInv
  <2> QED BY <1>1, <2>1, <2>2, EthereumKeeps
<1>2. CASE RelayerStep
  BY <1>2, RelayerKeeps
<1>3. CASE CosmosStep \/ ReplayStep \/ UNCHANGED vars
  BY <1>3, OthersKeep
<1> QED BY <1>1, <1>2, <1>3 DEF Next

\* The initial state has an empty chain and nothing to remember.
LEMMA InitHolds == Init => IInv
<1> SUFFICES ASSUME Init PROVE IInv
  OBVIOUS
<1>1. ChainInv
  BY RelayerBoundsAssumption DEF Init, ChainInv, ConfirmedHeight
<1>2. HeadsInv /\ PositionInv
  BY DEF Init, HeadsInv, PositionInv, Handling, Stages
<1>3. RelayInv
  BY DEF Init, RelayInv
<1> QED BY <1>1, <1>2, <1>3 DEF IInv

\* The inductive invariant holds in every reachable state.
LEMMA AlwaysIInv == Spec => []IInv
<1>1. IInv /\ [Next]_vars => IInv'
  BY StepKeeps
<1> QED BY InitHolds, <1>1, PTL DEF Spec

\* Whatever is reorganized and wherever the process stops, only logs of blocks
\* that cannot be removed any more are sent to Cosmos (EthereumSub.Start,
\* Replay).
THEOREM OnlyConfirmedClaimed == Spec => []ClaimsAreConfirmed
<1>1. IInv => ClaimsAreConfirmed
  BY DEF IInv, RelayInv, ClaimsAreConfirmed, ConfirmedHeight
<1> QED BY AlwaysIInv, <1>1, PTL

\* A restart never leaves a gap between the blocks read before and after it.
THEOREM RestartLeavesNoGap == Spec => []NoBlockSkipped
<1>1. IInv => NoBlockSkipped
  BY DEF IInv, RelayInv, NoBlockSkipped
<1> QED BY AlwaysIInv, <1>1, PTL

\* A saved position is only ever followed by one less than trailingBlocks
\* below it.
THEOREM PositionBarelyGoesBack == Spec => PositionGoesBackLess
<1>1. IInv /\ [Next]_vars => [stored' > stored - TrailingBlocks]_vars
  BY StepKeeps
<1> QED BY AlwaysIInv, <1>1, PTL DEF Spec, PositionGoesBackLess
=============================================================================

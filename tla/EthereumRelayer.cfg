SPECIFICATION ReplaySpec
CONSTANTS
    Logs = {1, 2}
    NoLog = NoLog
    TrailingBlocks = 2
    MaxHeight = 4
    MaxHeads = 1
    MaxStops = 1
    MaxReorgs = 1
INVARIANTS  NoBlockSkipped
  

SPECIFICATION LoopSpec
CONSTANTS
    Msgs = {1, 2}
    MaxRetries = 2
    MaxBlocks = 4
    MaxMsgsPerBlock = 1
    MaxStops = 1
    MaxReplays = 1
INVARIANTS NoMessageSkipped RestartRepeatsOneBlock OneTransactionPerHandling
PROPERTIES EveryMessageHandled
CHECK_DEADLOCK FALSE

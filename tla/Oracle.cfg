CONSTANTS
    Validators = {v1, v2, v3, v4}
    IDs = {id1}
    Contents = {a, b}
    NoContent = NoContent
    Powers = {0, 1, 3}
    ConsensusNum = 7
    ConsensusDen = 10
SPECIFICATION Spec
SYMMETRY Symmetry
INVARIANT VotesConsistent
PROPERTIES SuccessHasDistinctSupport FinalizedIsFinal  WinnerIndependentOfOrder LastClaimDecides

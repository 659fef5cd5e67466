SPECIFICATION FairSpec
CONSTANTS
    Calls = {c1, c2}
    Closer = Closer
    NoOne = NoOne
    MaxPieces = 2
INVARIANTS ChatOnLiveRuntime NoOrphanWorker PiecesConserved CompleteIsWhole
PROPERTIES CloseEnds HandlersGoOn

SPECIFICATION Spec
CONSTANTS
    Calls = {c1, c2}
    Closer = Closer
    NoOne = NoOne
    MaxPieces = 2
INVARIANTS FailuresExplicit

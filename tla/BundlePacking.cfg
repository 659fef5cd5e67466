SPECIFICATION Spec
CONSTANTS
    Packers = {p1, p2}
    Sources <- MCSources
    Alignments = {1, 4}
    MaxEdits = 2
INVARIANTS PublishedIsWhole AcceptedIsSound
CHECK_DEADLOCK FALSE
SYMMETRY PackerSymmetry

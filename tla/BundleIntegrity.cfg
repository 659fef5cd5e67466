SPECIFICATION Spec
CONSTANTS
    NBlocks = 2
    Versions = {v0, v1}
    Alike = {v0, v1}
    Modes = {"always", "first_load", "none", "seal"}
    MaxChanges = 2
    MaxSeals = 1
INVARIANTS VerifiedReads SealedReads SealWhole
CHECK_DEADLOCK FALSE

SPECIFICATION Spec
CONSTANTS
    MaxSubmissions = 3
    MaxEpoch = 1
    MaxPieces = 1
    Asks = {q1, q2}
INVARIANTS OneStream HistoryIsDialogue ScreenIsHistory ControlsAgree
PROPERTIES ReadinessCatchesUp

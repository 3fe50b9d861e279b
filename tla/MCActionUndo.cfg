SPECIFICATION Spec
CONSTANTS
    Undoers = {u1, u2, u3}
    None = None
    NumActions = 3
    Host <- MCHost
    Turn <- MCTurn
    MaxRecords = 2
    MaxRestarts = 1
    MaxDiagnoses = 1
SYMMETRY UndoSymmetry
INVARIANTS
    AtMostOnce
    SettledOnce
CHECK_DEADLOCK FALSE

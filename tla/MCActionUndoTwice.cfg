SPECIFICATION Spec
CONSTANTS
    Undoers = {u1, u2}
    None = None
    NumActions = 3
    Host <- MCHost
    Turn <- MCTurn
    MaxRecords = 3
    MaxRestarts = 1
    MaxDiagnoses = 0
SYMMETRY UndoSymmetry
INVARIANTS
    StrictlyOnce
CHECK_DEADLOCK FALSE

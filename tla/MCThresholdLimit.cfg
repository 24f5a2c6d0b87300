SPECIFICATION Spec
CONSTANTS
    Rows = {1, 2, 3}
    Scores = {0, 1, 2}
    Models = {"logistic"}
    Grades = {0}
    Limit <- Half
INVARIANTS
    ThresholdWithinLimit

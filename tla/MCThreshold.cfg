SPECIFICATION Spec
CONSTANTS
    Rows = {1, 2, 3}
    Scores = {0, 1, 2}
    Models = {"logistic", "xgboost"}
    Grades = {0, 1}
    Limit <- Half
INVARIANTS
    CleanCutIsOptimal
    ReportedRecallIsReached
    PassedGateFindsNoLess

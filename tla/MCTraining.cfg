SPECIFICATION TrainingSpec
CONSTANTS
    x1 = x1
    x2 = x2
    l1 = l1
    Runs = {x1, x2, l1}
    Type <- MCType
    Absent = Absent
    Torn = Torn
INVARIANTS
    FinishedRunIsCoherent
    WholeUnlessDisturbed

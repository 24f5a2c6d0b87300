SPECIFICATION Spec
CONSTANTS
    Configurations <- MCConfigurations
    Totals = {1, 4, 6}
    MaxCalls = 2
CHECK_DEADLOCK FALSE
INVARIANTS
    IdsNeverRepeat
    ScenariosKeepTheirShape
    FileIsOneCall
    FiveSuffice

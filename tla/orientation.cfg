SPECIFICATION Spec
CONSTANTS
    Order <- MCOrder
    Markers <- MCMarkers
    MaxDay = 1
    MaxEdits = 2
    MaxRuns = 2
    MaxKills = 1
INVARIANTS ReconSettles RunMeetsM0
PROPERTIES WordsSurvive
CHECK_DEADLOCK FALSE

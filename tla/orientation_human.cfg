SPECIFICATION Spec
CONSTANTS
    Order <- MCOrder
    Markers <- MCMarkers
    MaxDay = 1
    MaxEdits = 2
    MaxRuns = 2
    MaxKills = 1
PROPERTIES HumanSectionsSurvive
CHECK_DEADLOCK FALSE

SPECIFICATION PlanningSpec
CHECK_DEADLOCK FALSE
CONSTANTS
    Files = {1}
    Lines = {1, 2, 3, 4}
    Layouts <- MCLayouts
    MinimumConfidence = 800
    Foreign = foreign
    MaxForeign = 1
INVARIANT
    SiblingsIndependent

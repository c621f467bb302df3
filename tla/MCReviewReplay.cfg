SPECIFICATION ReviewSpec
CONSTANTS
    Reviewers = {ada}
    Plans = {plan}
    Units <- MCUnits
    Shapes <- MCShapes
    Derived <- Whole
    Contents = {edited, reverted}
    Reverted = reverted
    MaxPlan = 1
    MaxRevision = 2
PROPERTIES
    ReplayPublishesNothing

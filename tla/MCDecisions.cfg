SPECIFICATION DecisionSpec
SYMMETRY MCSymmetry
CONSTANTS
    Reviewers = {ada, bob}
    Plans = {plan}
    Units <- MCUnits
    Shapes <- MCShapes
    Derived <- Halves
    Contents = {edited, reverted}
    Reverted = reverted
    MaxPlan = 1
    MaxRevision = 1
    one = one
    two = two
    Operators = {one, two}
    Crew <- MCCrew
    Maintainers = {one}
    Views = {v}
    Filters = {{}, {2}}
    Elsewhere <- MCElsewhere
    MaxCommit <- MCMaxCommit
    MaxDeath <- MCMaxDeath
INVARIANTS
    ReviewTypeOK
    ReferencesResolve
    OneDecision
    OneAccepted
    SerialDecisionDelivered
    ViewShowsVerified

SPECIFICATION DeliverySpec
CONSTANTS
    Commands = {one, two}
    Units <- MCUnits
    Parent <- MCParent
    Plans = {plan}
    Contents = {first, second}
    MaxDecision = 2
    MaxProjection <- MCMaxProjection
    MaxTime <- MCMaxTime
INVARIANTS
    EvidenceAlways

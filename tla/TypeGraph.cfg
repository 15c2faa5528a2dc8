SPECIFICATION Spec
CONSTANTS
    Messages <- SomeMessages
    Enums <- SomeEnums
    Graphs <- AllGraphs
    Changes <- OneChange
    Depths <- SomeDepths
    Levels <- SomeLevels
    Names <- SomeNames
INVARIANT TypeOK
INVARIANT ImpactIsExact
INVARIANT LineageIsComplete
INVARIANT LevelsAreDistances

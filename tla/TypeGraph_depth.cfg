SPECIFICATION Spec
CONSTANTS
    Messages <- SampleMessages
    Enums = {}
    Graphs <- Sample
    Changes <- AddressChanges
    Depths = {3}
    Levels <- SomeLevels
    Names = {}
INVARIANT ImpactAsDocumented

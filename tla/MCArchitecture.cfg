CONSTANTS
    Module <- MCModule
    Dotted <- MCDotted
    Partial = {"a*"}
    Universe <- MCUniverse
    Tags <- MCTags
    Reflective <- MCReflective
    Ignored <- MCIgnored
    Base <- MCBase
    Written <- MCWritten
    Linked <- MCLinked
    Added <- MCAdded
    Foreign <- MCForeign
    Layout <- MCLayout
    MaxEdits = 2
SPECIFICATION Spec
INVARIANTS
    LayersHold
    SpecIsConstant

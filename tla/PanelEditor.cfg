SPECIFICATION EditorSpec
CONSTANTS
    NodeSets <- MCNodeSets
    Texts <- MCTexts
    Targets <- MCTargets
    MaxEdits = 3
INVARIANTS
    ChoiceNeverBreaks
    CanBeRepaired
    VerdictHolds
    IncludedIsEmitted
    DocumentTagsUnique
    SameNameEverywhere

CONSTANTS
    Size = 4
    MaxPlays = 3
    MaxGenerations = 2
    Openings <- MCOpenings
    Weights <- MCWeights
SPECIFICATION Spec
INVARIANTS
    TypeOK
    UndoIsExact
PROPERTY
    MachineAnswers
CHECK_DEADLOCK FALSE

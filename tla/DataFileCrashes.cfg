SPECIFICATION Spec
CONSTANTS
    Base = 16
    Models <- MCModels
    MaxModels = 2
INVARIANTS TypeOK WholeModelsLoad CutDamagesLastItem
PROPERTIES LoadEnds

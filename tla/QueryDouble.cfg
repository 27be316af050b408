SPECIFICATION Spec
CONSTANTS
    Operations <- WhereFirst
    ArgLists <- DoubleArgs
    FieldKinds <- CreatableFields
    MaxRows = 2
    MaxConstraints = 2
    Addresses <- MCAddresses
INVARIANTS BoundAsWritten

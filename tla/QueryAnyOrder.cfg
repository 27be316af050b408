SPECIFICATION Spec
CONSTANTS
    Operations <- AllOperations
    ArgLists <- SupportedArgs
    FieldKinds <- CreatableFields
    MaxRows = 2
    MaxConstraints = 3
    Addresses <- MCAddresses
INVARIANTS TypeOK BindValuesLive BoundAsWritten

SPECIFICATION Spec
CONSTANTS
    Programs <- CustomRename
    Evolutions <- AnyEvolution
    FirstPrograms <- CustomRename
    Calls <- TwoCalls
    DefaultTable <- MCDefaultTable
    FieldOfColumn <- MCFieldOfColumn
    ColumnsIn <- MCColumnsIn
    Respelled <- MCRespelled
    GeneratedName = "generated"
    MaxFailed = 0
INVARIANTS RecordsCurrent

SPECIFICATION Spec
CONSTANTS
    Programs <- MCPrograms
    Evolutions <- MCEvolutions
    FirstPrograms <- MCFirstPrograms
    Calls <- OneCall
    DefaultTable <- MCDefaultTable
    FieldOfColumn <- MCFieldOfColumn
    ColumnsIn <- MCColumnsIn
    Respelled <- MCRespelled
    GeneratedName = "generated"
    MaxFailed = 1
INVARIANTS TypeOK Migrated FieldKeepsData RecordsCurrent
PROPERTIES RerunLeavesSchemaAlone

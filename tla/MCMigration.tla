---------------------------- MODULE MCMigration ----------------------------
(***************************************************************************)
(* Programs of two classes.  Class "A" varies in every way a model can;    *)
(* class "B" stays the same, so that its record shares the data file.      *)
(***************************************************************************)
EXTENDS Migration, TLC

MCDefaultTable == [A |-> "a", B |-> "b"]

\* Field f may be mapped to a column whose name does not lead back to it.
MCFieldOfColumn == [id |-> "id", f |-> "f", fx |-> "fx", g |-> "g", h |-> "h"]

\* add_index(u, f, g) keeps its list in one string.
MCColumnsIn == "f, g" :> <<"f", "g">> @@ "fx, g" :> <<"fx", "g">>

\* The default "" of the example's name column comes back without its quotes.
Quoted == "''"
MCRespelled == Quoted :> ""

Field(name, col, type, extra, dflt) ==
    [field |-> name, col |-> col, def |-> [type |-> type, extra |-> extra], dflt |-> dflt]
Index(type, columns) == [type |-> type, columns |-> columns]

ModelB == [table |-> "b", fields |-> {Field("h", "h", "int", "", "")}, idx |-> << >>]

\* id is the primary key; f carries the column tags "index"/"unique", whose
\* index is named after the column, and in a later version an extra word; u is
\* an index that add_index puts over two columns.
ModelA(table, fCol, fExtra, hasG, fIndex, hasU) ==
    LET names == {"PRIMARY"} \cup (IF fIndex # "none" THEN {fCol} ELSE {})
                             \cup (IF hasU THEN {"u"} ELSE {})
        list == IF fCol = "f" THEN "f, g" ELSE "fx, g"
    IN  [table |-> table,
         fields |-> {Field("id", "id", "int", "", ""),
                     Field("f", fCol, IF fExtra = "" THEN "int" ELSE "bigint", fExtra, Quoted)}
                    \cup (IF hasG THEN {Field("g", "g", "timestamp", "", "now()")} ELSE {}),
         idx |-> [n \in names |-> CASE n = "PRIMARY" -> Index("pri", <<"id">>)
                                    [] n = "u" -> Index("mul", <<list>>)
                                    [] OTHER -> Index(fIndex, <<fCol>>)]]

Program(a) == [A |-> a, B |-> ModelB]

\* The evolutions the migrator supports: columns added, retyped or renamed to
\* names no other column had; the table renamed from its default name; indices
\* other than the primary key added, dropped or redefined.
MCPrograms ==
    {Program(ModelA(table, fCol, fExtra, x[1], x[2], x[3])) :
        table \in {"a", "ta"}, fCol \in {"f", "fx"}, fExtra \in {"", "extra"},
        x \in {<<FALSE, "none", FALSE>>, <<FALSE, "uni", FALSE>>,
               <<TRUE, "mul", TRUE>>, <<TRUE, "none", FALSE>>}}

MCFirstPrograms == {p \in MCPrograms : Creatable(p.A)}

Supported(p, q) ==
    /\ p.A.table \in {q.A.table, "a"}
    /\ \A f \in p.A.fields : \E g \in q.A.fields : f.field = g.field

MCEvolutions == {pq \in MCPrograms \X MCPrograms : Supported(pq[1], pq[2])}

\* The hypothesis of the theorems about Migrated and FieldKeepsData holds of the
\* instance they are checked on.
ASSUME SupportedInstance == Evolutions = MCEvolutions => SupportedHistory

OneCall == <<<<"A", "B">>>>
TwoCalls == <<<<"A">>, <<"B">>>>

-----------------------------------------------------------------------------
(* Two-version histories outside that set. *)

Plain == ModelA("a", "f", "", TRUE, "none", FALSE)

\* From one custom table name to another.
CustomRename == {Program([Plain EXCEPT !.table = "ta"]), Program([Plain EXCEPT !.table = "tb"])}

AnyEvolution == Programs \X Programs

=============================================================================

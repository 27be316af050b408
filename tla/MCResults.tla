------------------------------ MODULE MCResults -----------------------------
(* Instances of Results for TLC. *)
EXTENDS Results, TLC

Column(name, type) == [name |-> name, type |-> type]

\* Three columns, two of one name; a type without a buffer; no columns.
MCQueries == {<<Column("a", "int"), Column("b", "text"), Column("a", "int")>>,
              <<Column("a", "decimal")>>, << >>}

\* No row; two, with a NULL in the second column of one and the first of the other.
MCTables == {<< >>, <<{2}, {1}>>}

Symmetry == Permutations(Stmts) \cup Permutations(Sets)

=============================================================================

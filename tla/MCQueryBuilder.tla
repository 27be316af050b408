--------------------------- MODULE MCQueryBuilder ---------------------------
(* Instances of QueryBuilder for TLC. *)
EXTENDS QueryBuilder

AllOperations == {"Select", "Where", "Or", "Page", "Raw", "First", "All", "Update",
                  "Delete", "Create", "Exec", "Fetch"}
WhereFirst == {"Where", "First"}

\* Kinds bindParams knows, in lists of zero to two arguments.
SupportedArgs == {<< >>, <<"int">>, <<"string", "timestamp">>, <<"const_str", "float">>}
DoubleArgs == {<<"double", "int">>}
CreatableFields == <<"int", "string">>
MCAddresses == 1..4

\* The hypothesis of PlaceholdersBound holds of the instance BoundAsWritten is
\* checked on.
ASSUME SupportedInstance == ArgLists = SupportedArgs => SupportedKinds

=============================================================================

----------------------------- MODULE MCDataFile -----------------------------
(* Instances of DataFile for TLC. *)
EXTENDS DataFile

Column(name, flags, default, extra) ==
    [column |-> name, field |-> name, dbType |-> <<1>>, cppType |-> <<2>>, flags |-> flags,
     default |-> default, extra |-> extra]

Plain(name) == Column(name, <<0, 0, 0, 0>>, << >>, << >>)

Model(name, table, columns, indices) ==
    [class |-> name, table |-> table, columns |-> columns, indices |-> indices]

\* Models whose lengths fit: with and without defaults, extras and indices.
Users == Model(<<1>>, <<4>>,
               <<Column(<<1>>, <<1, 1, 0, 0>>, << >>, <<3, 3>>),
                 Column(<<2>>, <<0, 0, 1, 1>>, <<5>>, << >>), Plain(<<3>>)>>,
               <<[type |-> 0, name |-> <<6>>, columns |-> <<<<1>>>>],
                 [type |-> 1, name |-> <<5>>, columns |-> <<<<2>>>>]>>)
Roles == Model(<<2>>, <<2>>, <<Plain(<<1>>), Column(<<2>>, <<0, 0, 0, 1>>, << >>, <<2>>)>>, << >>)
Links == Model(<<3>>, <<3>>, <<Column(<<1>>, <<0, 0, 0, 0>>, <<1, 2>>, <<4>>), Plain(<<2>>)>>,
               <<[type |-> 2, name |-> <<1>>, columns |-> <<<<1>>>>]>>)

\* A model of more than ShortMax bytes, a table name and a default too long for
\* a char, and an index whose length wraps.
Wide == Model(<<4>>, <<1>>, [i \in 1..11 |-> Plain(<<1>>)], << >>)
LongTable == Model(<<5>>, <<1, 1>>, <<Plain(<<1>>)>>, << >>)
LongDefault == Model(<<6>>, <<1>>, <<Column(<<1>>, <<0, 0, 0, 0>>, [i \in 1..9 |-> 1], << >>)>>, << >>)
LongIndex == Model(<<1, 1>>, <<1>>, <<Plain(<<1>>)>>,
                   <<[type |-> 0, name |-> <<1>>, columns |-> <<<<1>>, <<2>>>>]>>)

MCModels == {Users, Roles, Links, Wide, LongTable, LongDefault, LongIndex}

=============================================================================

----------------------------- MODULE MCMetadata -----------------------------
(* Instances of Metadata for TLC. *)
EXTENDS Metadata

Column(name, offset, taglist) == [field |-> name, offset |-> offset, tags |-> taglist]
Class(columns, inds) == [columns |-> columns, indices |-> inds]
Named(name) == [key |-> "name", value |-> <<Space>> \o name]
Typed == [key |-> "type", value |-> "int"]
Commented == [key |-> "other", value |-> "x"]
Tagged(words) == [key |-> "words", value |-> words]
UpTo(n, S) == UNION {[1..k -> S] : k \in 0..n}

\* Every name of up to five characters, without tags.
AnyNames == {Class(<<Column(name, 0, << >>)>>, << >>) :
                name \in UpTo(5, {1, -1, Digit, Underscore}) \ {<< >>}}

\* Every list of up to three words, with a column name before it, behind it, of
\* one character, or not given.
AnyWords ==
    {Class(<<Column(<<1, -2>>, 0, taglist)>>, << >>) :
        taglist \in UNION {{<<Tagged(words)>>, <<Named(<<3, 3>>), Typed, Tagged(words)>>,
                            <<Tagged(words), Named(<<3, 3>>)>>, <<Named(<<3>>), Tagged(words), Commented>>} :
                              words \in UpTo(3, {"pk", "unique", "not", "null", "default", "x"})}}

\* Two columns whose order in the class is not that of their names, each with up
\* to two attributes, and an index declared by a macro.
Attributes == {Tagged(<<"pk">>), Tagged(<<"index">>), Tagged(<<"not", "null">>), Tagged(<<"default", "x">>),
               Tagged(<<"default", "null">>), Tagged(<<"auto_increment">>), Tagged(<<"ignore">>)}
TwoColumns ==
    {Class(<<Column(<<1>>, 4, <<Named(<<3, 3>>)>> \o first), Column(<<2>>, 0, second)>>,
           <<[name |-> <<5>>, type |-> "UNI", columns |-> <<<<3, 3>>, <<2>>>>]>>) :
        first \in UpTo(2, Attributes), second \in UpTo(1, Attributes)}

MCClasses == AnyNames \cup AnyWords \cup TwoColumns

=============================================================================

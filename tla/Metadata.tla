------------------------------ MODULE Metadata ------------------------------
(***************************************************************************)
(* From the declaration of a class (the macros column, add_index,          *)
(* add_unique and primary_key of reflection.h) to the metadata of          *)
(* Model<T>: the constructor of FieldMeta reads the tags of a column word  *)
(* by word, and Model's constructor collects the columns and indices.      *)
(* Names are sequences of characters, so that the conversions of naming.h  *)
(* and the helpers of common.cpp are the ones of the code.                 *)
(***************************************************************************)
EXTENDS Integers, Sequences, FiniteSets, SequencesExt

CONSTANTS
    Classes  \* declarations: [columns, indices]

\* Characters: a letter n in lower case, -n in upper case; no letter has the
\* number of a digit, a blank or an underscore.
Underscore == 0
Digit == 90
Space == 91
isupper(ch) == ch < 0
islower(ch) == ch \in 1..89
tolower(ch) == IF isupper(ch) THEN -ch ELSE ch

\* A tag is a pair key = value, or words, none of them empty (split).
IsTag(t) ==
    /\ t.key \in {"name", "type", "other", "words"}
    /\ t.key = "words" => t.value \in Seq(STRING \ {""})

IsSequence(s) == s \in Seq(Range(s))

\* No two members of a class have one name.
ASSUME ClassAssumption ==
    \A c \in Classes :
        /\ IsSequence(c.columns) /\ IsSequence(c.indices)
        /\ \A i \in DOMAIN c.columns :
              /\ c.columns[i].field # << >>
              /\ IsSequence(c.columns[i].tags)
              /\ \A j \in DOMAIN c.columns[i].tags : IsTag(c.columns[i].tags[j])
        /\ \A i, j \in DOMAIN c.columns : c.columns[i].field = c.columns[j].field => i = j

VARIABLES
    class,        \* the class whose Model is constructed
    metadata,     \* FieldMeta objects finished so far
    field,        \* the one under construction
    tag, word,    \* the tag and the word it looks at
    checkNotNull, \* the tag's last words were "not ..."
    checkDefault, \* the tag has had the word "default"
    indices,      \* Model::indices
    phase         \* "fields", "indices", "done"

vars == <<class, metadata, field, tag, word, checkNotNull, checkDefault, indices, phase>>

-----------------------------------------------------------------------------
(* common.cpp and naming.h *)

\* Util::strip: a single character is stripped as well.
Strip(s) ==
    IF s = << >> THEN s
    ELSE LET i == Min({k \in DOMAIN s : k = Len(s) \/ s[k] # Space})
             j == Max({k \in i..Len(s) : k = i \/ s[k] # Space})
         IN  IF i = Len(s) THEN << >> ELSE SubSeq(s, i, j)

\* Util::split with one separator: the nonempty pieces.
Split(s, sep) ==
    LET starts == SetToSortSeq({i \in DOMAIN s : s[i] # sep /\ (i = 1 \/ s[i - 1] = sep)}, <)
        end(i) == Max({j \in i..Len(s) : \A k \in i..j : s[k] # sep})
    IN  [p \in DOMAIN starts |-> SubSeq(s, starts[p], end(starts[p]))]

\* Faulty variant of cppToDb: a word is cut off one character too late.
cppToDbCutLate(name) ==
    FlattenSeq([i \in DOMAIN name |->
        IF i > 1 /\ isupper(name[i]) /\ ~isupper(name[i - 1])
        THEN <<tolower(name[i]), Underscore>> ELSE <<tolower(name[i])>>])

\* A word starts at an upper-case letter behind one that is not.
cppToDb(name) ==
    FlattenSeq([i \in DOMAIN name |->
        IF i > 1 /\ isupper(name[i]) /\ ~isupper(name[i - 1])
        THEN <<Underscore, tolower(name[i])>> ELSE <<tolower(name[i])>>])

capitalize(s) == IF s # << >> /\ islower(s[1]) THEN [s EXCEPT ![1] = -@] ELSE s

dbToCpp(name, capIni) ==
    LET v == Split(name, Underscore)
    IN  FlattenSeq([i \in DOMAIN v |-> IF capIni \/ i > 1 THEN capitalize(v[i]) ELSE v[i]])

-----------------------------------------------------------------------------
(* FieldMeta *)

\* std::nullopt
NoName == <<1000>>

NewField(c) ==
    [fieldName |-> c.field, offset |-> c.offset, columnName |-> NoName, columnType |-> "",
     isPk |-> FALSE, autoInc |-> FALSE, ignore |-> FALSE, hasIndex |-> FALSE, notNull |-> FALSE,
     default |-> "", extra |-> << >>, index |-> [type |-> "unset", columns |-> << >>]]

getColumnName(f) == IF f.columnName = NoName THEN cppToDb(f.fieldName) ELSE f.columnName

Declared == class.columns[Len(metadata) + 1]
AtField == phase = "fields" /\ Len(metadata) < Len(class.columns)
Tag == Declared.tags[tag]

Init ==
    /\ class \in Classes
    /\ metadata = << >>
    /\ field = IF class.columns = << >> THEN << >> ELSE NewField(class.columns[1])
    /\ tag = 1 /\ word = 1
    /\ checkNotNull = FALSE /\ checkDefault = FALSE
    /\ indices = << >>
    /\ phase = IF class.columns = << >> THEN "indices" ELSE "fields"

\* name = ... and type = ...; other keys are passed over.
KeyValue ==
    /\ AtField /\ tag <= Len(Declared.tags) /\ Tag.key # "words"
    /\ field' = IF Tag.key = "name" THEN [field EXCEPT !.columnName = Strip(Tag.value)]
                ELSE IF Tag.key = "type" THEN [field EXCEPT !.columnType = Tag.value]
                ELSE field
    /\ tag' = tag + 1
    /\ UNCHANGED <<class, metadata, word, checkNotNull, checkDefault, indices, phase>>

\* Faulty variant of Indexed: hasIndex is only set for a primary key.
IndexedPrimaryOnly(type) ==
    [field EXCEPT !.hasIndex = @ \/ type = "PRI",
                  !.index = [type |-> type, columns |-> Append(@.columns, getColumnName(field))],
                  !.isPk = @ \/ type = "PRI"]

\* Every index word appends the column, under the name it has so far.
Indexed(type) ==
    [field EXCEPT !.hasIndex = TRUE,
                  !.index = [type |-> type, columns |-> Append(@.columns, getColumnName(field))],
                  !.isPk = @ \/ type = "PRI"]

IndexType == [pk |-> "PRI", index |-> "MUL", unique |-> "UNI"]

\* One word of a tag.  Behind "default" every word is taken as the value.
Word ==
    /\ AtField /\ tag <= Len(Declared.tags) /\ Tag.key = "words" /\ word <= Len(Tag.value)
    /\ LET w == Tag.value[word]
       IN  /\ \/ /\ checkDefault
                 /\ field' = [field EXCEPT !.default = w]
                 /\ UNCHANGED <<checkNotNull, checkDefault>>
              \/ /\ ~checkDefault /\ checkNotNull /\ w = "null"
                 /\ field' = [field EXCEPT !.notNull = TRUE]
                 /\ checkNotNull' = FALSE
                 /\ UNCHANGED checkDefault
              \/ /\ ~checkDefault /\ ~(checkNotNull /\ w = "null")
                 /\ field' = CASE w \in DOMAIN IndexType -> Indexed(IndexType[w])
                               [] w = "auto_increment" -> [field EXCEPT !.autoInc = TRUE]
                               [] w = "ignore" -> [field EXCEPT !.ignore = TRUE]
                               [] w \in {"not", "default"} -> field
                               [] OTHER -> [field EXCEPT !.extra = Append(@, w)]
                 /\ checkNotNull' = (checkNotNull \/ w = "not")
                 /\ checkDefault' = (w = "default")
    /\ word' = word + 1
    /\ UNCHANGED <<class, metadata, tag, indices, phase>>

\* Faulty variant of EndTag: the two flags outlive the tag.
EndTagKeepingFlags ==
    /\ AtField /\ tag <= Len(Declared.tags) /\ Tag.key = "words" /\ word > Len(Tag.value)
    /\ tag' = tag + 1 /\ word' = 1
    /\ UNCHANGED <<class, metadata, field, checkNotNull, checkDefault, indices, phase>>

EndTag ==
    /\ AtField /\ tag <= Len(Declared.tags) /\ Tag.key = "words" /\ word > Len(Tag.value)
    /\ tag' = tag + 1 /\ word' = 1
    /\ checkNotNull' = FALSE /\ checkDefault' = FALSE
    /\ UNCHANGED <<class, metadata, field, indices, phase>>

\* What sort(metadata.begin(), metadata.end()) may make of fields: std::sort puts
\* fields of one offset in any order.
ByOffset(fields) ==
    {[i \in DOMAIN fields |-> fields[p[i]]] :
        p \in {q \in Bijection(DOMAIN fields, DOMAIN fields) :
                  \A i, j \in DOMAIN fields : i < j => ~(fields[q[j]].offset < fields[q[i]].offset)}}

\* The end of FieldMeta's constructor, and the next field.
EndField ==
    /\ AtField /\ tag > Len(Declared.tags)
    /\ LET done == [field EXCEPT !.ignore = @ \/ (field.isPk /\ field.autoInc),
                                 !.notNull = @ \/ field.isPk]
       IN  metadata' \in ByOffset(Append(metadata, done))
    /\ field' = IF Len(metadata) + 1 < Len(class.columns)
                THEN NewField(class.columns[Len(metadata) + 2]) ELSE << >>
    /\ tag' = 1
    /\ phase' = IF Len(metadata) + 1 < Len(class.columns) THEN "fields" ELSE "indices"
    /\ UNCHANGED <<class, word, checkNotNull, checkDefault, indices>>

-----------------------------------------------------------------------------
(* Model's constructor *)

\* The name "PRIMARY", which no variable has.
Primary == <<1001>>

\* Faulty variant of IndexName: a named column's index gets its default name.
IndexNameDefault(f) == IF f.index.type = "PRI" THEN Primary ELSE cppToDb(f.fieldName)

IndexName(f) == IF f.index.type = "PRI" THEN Primary ELSE getColumnName(f)

\* indices[i.name] = i for the macros' indices, then for the tags' ones: of those
\* with one name the last stays.
CollectIndices ==
    /\ phase = "indices"
    /\ LET declared(n) == {i \in DOMAIN class.indices : class.indices[i].name = n}
           tagged(n) == {i \in DOMAIN metadata : metadata[i].hasIndex /\ IndexName(metadata[i]) = n}
           names == {class.indices[i].name : i \in DOMAIN class.indices}
                    \cup {IndexName(metadata[i]) : i \in {j \in DOMAIN metadata : metadata[j].hasIndex}}
       IN  indices' = [n \in names |->
                          IF tagged(n) # {} THEN metadata[Max(tagged(n))].index
                          ELSE [type |-> class.indices[Max(declared(n))].type,
                                columns |-> class.indices[Max(declared(n))].columns]]
    /\ phase' = "done"
    /\ UNCHANGED <<class, metadata, field, tag, word, checkNotNull, checkDefault>>

Finished == phase = "done" /\ UNCHANGED vars

Next == KeyValue \/ Word \/ EndTag \/ EndField \/ CollectIndices \/ Finished

Spec == Init /\ [][Next]_vars

-----------------------------------------------------------------------------
(* Properties *)

\* An index type is read only where one was written: Index has no initial type.
TypeOK ==
    /\ \A i \in DOMAIN metadata : metadata[i].hasIndex <=> metadata[i].index.type # "unset"
    /\ checkNotNull \in BOOLEAN /\ checkDefault \in BOOLEAN
    /\ phase \in {"fields", "indices", "done"}

\* The k-th word of the j-th tag of column c asks for an index.
IndexWord(c, j, k) ==
    /\ j \in DOMAIN c.tags /\ c.tags[j].key = "words"
    /\ k \in DOMAIN c.tags[j].value /\ c.tags[j].value[k] \in DOMAIN IndexType

\* One kind of index per column.
OneIndex(c) ==
    \A j, l \in DOMAIN c.tags : c.tags[j].key = "words" /\ c.tags[l].key = "words" =>
        \A k \in DOMAIN c.tags[j].value, n \in DOMAIN c.tags[l].value :
            IndexWord(c, j, k) /\ IndexWord(c, l, n) => j = l /\ k = n

\* The order the README writes tags in, name = first.
NameFirst(c) == \A j \in DOMAIN c.tags : c.tags[j].key = "name" => j = 1

\* One primary key per class, and no two columns or indices of one name.
Documented ==
    /\ \A i \in DOMAIN class.columns : NameFirst(class.columns[i]) /\ OneIndex(class.columns[i])
    /\ \A i \in DOMAIN metadata : getColumnName(metadata[i]) # Primary
    /\ \A i, j \in DOMAIN metadata : i # j =>
          /\ getColumnName(metadata[i]) # getColumnName(metadata[j])
          /\ ~(metadata[i].isPk /\ metadata[j].isPk)
    /\ \A i, j \in DOMAIN class.indices : class.indices[i].name = class.indices[j].name => i = j
    /\ \A i \in DOMAIN class.indices :
          /\ class.indices[i].name # Primary
          /\ \A j \in DOMAIN metadata : class.indices[i].name # getColumnName(metadata[j])

\* Every index the declaration asks for is in the model, and no other: the ones of
\* the macros as written, and for every column tagged pk, index or unique one over
\* exactly that column, under the name the table will have for it.
IndicesComplete ==
    phase = "done" /\ Documented =>
        LET name(i) == IF metadata[i].isPk THEN Primary ELSE getColumnName(metadata[i])
        IN  /\ \A i \in DOMAIN metadata : metadata[i].hasIndex =>
                  /\ name(i) \in DOMAIN indices
                  /\ indices[name(i)].columns = <<getColumnName(metadata[i])>>
                  /\ indices[name(i)].type = metadata[i].index.type
            /\ \A i \in DOMAIN class.indices :
                  /\ class.indices[i].name \in DOMAIN indices
                  /\ indices[class.indices[i].name].columns = class.indices[i].columns
            /\ \A n \in DOMAIN indices :
                  \/ \E i \in DOMAIN class.indices : class.indices[i].name = n
                  \/ \E i \in DOMAIN metadata : metadata[i].hasIndex /\ name(i) = n

\* A tag of words that holds one attribute only.
OneAttribute(t) ==
    t.key = "words" =>
        \/ t.value \in {<<"pk">>, <<"index">>, <<"unique">>, <<"auto_increment">>, <<"ignore">>}
        \/ t.value = <<"not", "null">>
        \/ Len(t.value) = 2 /\ t.value[1] = "default"

\* What the first n tags of column c say.
Says(c, n, words) == \E j \in 1..n : c.tags[j].key = "words" /\ c.tags[j].value = words
SaysDefault(c, n) == \E j \in 1..n : c.tags[j].key = "words" /\ c.tags[j].value[1] = "default"
SaysIndex(c, n) == Says(c, n, <<"pk">>) \/ Says(c, n, <<"index">>) \/ Says(c, n, <<"unique">>)

\* Attributes in tags of their own do not disturb one another, in whatever order
\* they are written: every column has its FieldMeta, which is what the tags say and
\* nothing else.
AttributesIndependent ==
    phase = "done" =>
        \A k \in DOMAIN class.columns :
            LET c == class.columns[k]
                n == Len(c.tags)
            IN  (\A j \in 1..n : OneAttribute(c.tags[j])) =>
                    \E i \in DOMAIN metadata :
                        /\ metadata[i].fieldName = c.field
                        /\ metadata[i].isPk <=> Says(c, n, <<"pk">>)
                        /\ metadata[i].hasIndex <=> SaysIndex(c, n)
                        /\ metadata[i].notNull <=> Says(c, n, <<"not", "null">>) \/ Says(c, n, <<"pk">>)
                        /\ metadata[i].ignore <=> \/ Says(c, n, <<"ignore">>)
                                                  \/ Says(c, n, <<"pk">>) /\ Says(c, n, <<"auto_increment">>)
                        /\ metadata[i].default # "" <=> SaysDefault(c, n)
                        /\ metadata[i].extra = << >>

\* Names as the README writes them: no underscore, and no two upper-case letters
\* in a row.
Camel(name) ==
    /\ \A i \in DOMAIN name : name[i] # Underscore
    /\ \A i \in 1..(Len(name) - 1) : ~(isupper(name[i]) /\ isupper(name[i + 1]))

\* What loadFromDB makes of the name of a column that was named after its variable:
\* the variable, its first letter in lower case.  A variable that starts with a
\* lower-case letter is found again; RoleKey is not, and if its column has another
\* name by then a second one is added for it.
NamesFoundAgain ==
    phase = "done" =>
        \A i \in DOMAIN metadata :
            LET name == metadata[i].fieldName IN
            metadata[i].columnName = NoName /\ Camel(name) =>
                dbToCpp(getColumnName(metadata[i]), FALSE) = [name EXCEPT ![1] = tolower(@)]

-----------------------------------------------------------------------------
(* The inductive invariant *)

\* The members of a FieldMeta, and its index.
IsField(f) ==
    /\ f = [fieldName |-> f.fieldName, offset |-> f.offset, columnName |-> f.columnName,
            columnType |-> f.columnType, isPk |-> f.isPk, autoInc |-> f.autoInc,
            ignore |-> f.ignore, hasIndex |-> f.hasIndex, notNull |-> f.notNull,
            default |-> f.default, extra |-> f.extra,
            index |-> [type |-> f.index.type, columns |-> f.index.columns]]
    /\ {f.isPk, f.autoInc, f.ignore, f.hasIndex, f.notNull} \subseteq BOOLEAN
    /\ f.hasIndex <=> f.index.type # "unset"

\* The index of a column written the way the README does it.
IndexInv(c, f) ==
    NameFirst(c) /\ OneIndex(c) =>
        /\ f.isPk <=> f.index.type = "PRI"
        /\ f.index.columns = IF f.hasIndex THEN <<getColumnName(f)>> ELSE << >>

\* What the first n tags made of a column whose tags hold one attribute each.
AllOne(c) == \A j \in 1..Len(c.tags) : OneAttribute(c.tags[j])
ReadInv(c, n, f) ==
    AllOne(c) =>
        /\ f.isPk <=> Says(c, n, <<"pk">>)
        /\ f.hasIndex <=> SaysIndex(c, n)
        /\ f.notNull <=> Says(c, n, <<"not", "null">>)
        /\ f.ignore <=> Says(c, n, <<"ignore">>)
        /\ f.autoInc <=> Says(c, n, <<"auto_increment">>)
        /\ f.default # "" <=> SaysDefault(c, n)
        /\ f.extra = << >>

\* The tags read to their end, before word w of tag t.
AtEnd(c, t, w) == t <= Len(c.tags) /\ c.tags[t].key = "words" /\ w > Len(c.tags[t].value)
TagsRead(c, t, w) == IF AtEnd(c, t, w) THEN t ELSE t - 1

\* The flags at that point.
FlagsInv(c, t, w, notNull, default) ==
    /\ w = 1 => ~notNull /\ ~default
    /\ AllOne(c) /\ t <= Len(c.tags) /\ c.tags[t].key = "words" =>
          /\ notNull <=> w = 2 /\ c.tags[t].value = <<"not", "null">>
          /\ default <=> w > 1 /\ c.tags[t].value[1] = "default"

\* An index word has been read.
IndexRead(c, t, w) ==
    \E j \in DOMAIN c.tags :
        /\ c.tags[j].key = "words"
        /\ \E k \in DOMAIN c.tags[j].value : IndexWord(c, j, k) /\ (j < t \/ (j = t /\ k < w))

\* The field f of column c under construction, before word w of tag t.
FieldInv(c, f, t, w, notNull, default) ==
    /\ IsField(f) /\ f.fieldName = c.field
    /\ t \in 1..(Len(c.tags) + 1) /\ w \in Nat \ {0}
    /\ w = 1 \/ (t <= Len(c.tags) /\ c.tags[t].key = "words" /\ w <= Len(c.tags[t].value) + 1)
    /\ f.hasIndex => IndexRead(c, t, w)
    /\ IndexInv(c, f)
    /\ FlagsInv(c, t, w, notNull, default)
    /\ ReadInv(c, TagsRead(c, t, w), f)

\* f is what column c became.
MadeFrom(c, f) ==
    /\ IsField(f) /\ f.fieldName = c.field
    /\ IndexInv(c, f)
    /\ AllOne(c) =>
          LET n == Len(c.tags)
          IN  /\ f.isPk <=> Says(c, n, <<"pk">>)
              /\ f.hasIndex <=> SaysIndex(c, n)
              /\ f.notNull <=> Says(c, n, <<"not", "null">>) \/ Says(c, n, <<"pk">>)
              /\ f.ignore <=> \/ Says(c, n, <<"ignore">>)
                              \/ Says(c, n, <<"pk">>) /\ Says(c, n, <<"auto_increment">>)
              /\ f.default # "" <=> SaysDefault(c, n)
              /\ f.extra = << >>

\* Whatever sort did, every column has its field and every field its column.
ColumnsInv ==
    /\ metadata \in Seq(Range(metadata)) /\ Len(metadata) <= Len(class.columns)
    /\ \A k \in 1..Len(metadata) : \E i \in 1..Len(metadata) : MadeFrom(class.columns[k], metadata[i])
    /\ \A i \in 1..Len(metadata) : \E k \in 1..Len(metadata) : MadeFrom(class.columns[k], metadata[i])

PhaseInv ==
    /\ class \in Classes /\ phase \in {"fields", "indices", "done"}
    /\ {checkNotNull, checkDefault} \subseteq BOOLEAN
    /\ word = 1 => ~checkNotNull /\ ~checkDefault
    /\ phase = "fields" <=> Len(metadata) < Len(class.columns)
    /\ phase # "fields" => word = 1

IndInv ==
    /\ PhaseInv
    /\ ColumnsInv
    /\ phase = "fields" => FieldInv(Declared, field, tag, word, checkNotNull, checkDefault)
    /\ IndicesComplete

=============================================================================

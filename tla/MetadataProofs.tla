--------------------------- MODULE MetadataProofs ---------------------------
(***************************************************************************)
(* Proofs about Metadata, for any declarations: any columns, tags, words   *)
(* and macros in any order.                                                *)
(***************************************************************************)
EXTENDS Metadata, TLAPS

-----------------------------------------------------------------------------
(* What the assignments of FieldMeta's constructor leave alone *)

\* The twelve members of a FieldMeta one by one.
LEMMA NewFieldIsField ==
  ASSUME NEW c, NEW f, f = NewField(c)
  PROVE  /\ IsField(f) /\ f.fieldName = c.field
         /\ ~f.isPk /\ ~f.autoInc /\ ~f.ignore /\ ~f.hasIndex /\ ~f.notNull
         /\ f.default = "" /\ f.extra = << >>
         /\ f.index.type = "unset" /\ f.index.columns = << >>
  BY DEF NewField, IsField

\* f with other values of the five members that are not assigned alone.
With(f, pk, ig, hi, nn, ix) ==
    [fieldName |-> f.fieldName, offset |-> f.offset, columnName |-> f.columnName,
     columnType |-> f.columnType, isPk |-> pk, autoInc |-> f.autoInc, ignore |-> ig,
     hasIndex |-> hi, notNull |-> nn, default |-> f.default, extra |-> f.extra, index |-> ix]

\* name =
LEMMA SetName ==
  ASSUME NEW f, IsField(f), NEW v, NEW g, g = [f EXCEPT !.columnName = v]
  PROVE  /\ IsField(g)
         /\ <<g.fieldName, g.isPk, g.autoInc, g.ignore, g.hasIndex, g.notNull, g.default, g.extra, g.index>>
            = <<f.fieldName, f.isPk, f.autoInc, f.ignore, f.hasIndex, f.notNull, f.default, f.extra, f.index>>
  BY DEF IsField

\* type =
LEMMA SetType ==
  ASSUME NEW f, IsField(f), NEW v, NEW g, g = [f EXCEPT !.columnType = v]
  PROVE  /\ IsField(g) /\ g.columnName = f.columnName
         /\ <<g.fieldName, g.isPk, g.autoInc, g.ignore, g.hasIndex, g.notNull, g.default, g.extra, g.index>>
            = <<f.fieldName, f.isPk, f.autoInc, f.ignore, f.hasIndex, f.notNull, f.default, f.extra, f.index>>
  BY DEF IsField

\* An index word.
WithIndex(f, type, name) ==
    [f EXCEPT !.hasIndex = TRUE, !.index = [type |-> type, columns |-> Append(@.columns, name)],
              !.isPk = @ \/ type = "PRI"]

\* The members pk, index and unique assign, with their values.
LEMMA IndexedRecord ==
  ASSUME NEW f, IsField(f), NEW type \in {"PRI", "MUL", "UNI"}, NEW name, NEW g,
         g = WithIndex(f, type, name)
  PROVE  \E b, h \in BOOLEAN : \E ix :
            /\ h /\ (b <=> f.isPk \/ type = "PRI")
            /\ ix = [type |-> type, columns |-> Append(f.index.columns, name)]
            /\ g = With(f, b, f.ignore, h, f.notNull, ix)
<1> PICK jx : jx = [type |-> type, columns |-> Append(f.index.columns, name)]
  OBVIOUS
<1> PICK b \in BOOLEAN : b = (f.isPk \/ type = "PRI")
  BY DEF IsField
<1> PICK h \in BOOLEAN : h = TRUE
  OBVIOUS
<1>1. f = With(f, f.isPk, f.ignore, f.hasIndex, f.notNull, f.index)
  BY DEF IsField, With
<1>2. g = With(f, b, f.ignore, h, f.notNull, jx)
  BY <1>1 DEF With, WithIndex
<1> QED BY <1>2, Zenon

IndexSet(f, g, type, name) ==
    /\ IsField(g)
    /\ g.hasIndex /\ g.index.type = type /\ g.index.columns = Append(f.index.columns, name)
    /\ g.isPk <=> f.isPk \/ type = "PRI"
    /\ <<g.fieldName, g.columnName, g.autoInc, g.ignore, g.notNull, g.default, g.extra>>
       = <<f.fieldName, f.columnName, f.autoInc, f.ignore, f.notNull, f.default, f.extra>>

\* What With() says of a record is what its members are.
LEMMA IndexedParts ==
  ASSUME NEW f, IsField(f), NEW type \in {"PRI", "MUL", "UNI"}, NEW name, NEW b \in BOOLEAN,
         b <=> f.isPk \/ type = "PRI", NEW h \in BOOLEAN, h, NEW ix,
         ix = [type |-> type, columns |-> Append(f.index.columns, name)],
         NEW g, g = With(f, b, f.ignore, h, f.notNull, ix)
  PROVE  IndexSet(f, g, type, name)
  BY DEF IsField, With, IndexSet

\* pk, index and unique leave the other members alone.
LEMMA SetIndex ==
  ASSUME NEW f, IsField(f), NEW type \in {"PRI", "MUL", "UNI"}, NEW name,
         NEW g, g = WithIndex(f, type, name)
  PROVE  IndexSet(f, g, type, name)
<1>1. PICK b, h \in BOOLEAN : \E ix :
         /\ h /\ (b <=> f.isPk \/ type = "PRI")
         /\ ix = [type |-> type, columns |-> Append(f.index.columns, name)]
         /\ g = With(f, b, f.ignore, h, f.notNull, ix)
  BY IndexedRecord
<1>2. PICK ix :
         /\ h /\ (b <=> f.isPk \/ type = "PRI")
         /\ ix = [type |-> type, columns |-> Append(f.index.columns, name)]
         /\ g = With(f, b, f.ignore, h, f.notNull, ix)
  BY <1>1, Zenon
<1> QED BY <1>2, IndexedParts

\* auto_increment
LEMMA SetAutoInc ==
  ASSUME NEW f, IsField(f), NEW v \in BOOLEAN, NEW g, g = [f EXCEPT !.autoInc = v]
  PROVE  /\ IsField(g) /\ g.autoInc = v
         /\ <<g.fieldName, g.columnName, g.isPk, g.ignore, g.hasIndex, g.notNull, g.default, g.extra, g.index>>
            = <<f.fieldName, f.columnName, f.isPk, f.ignore, f.hasIndex, f.notNull, f.default, f.extra, f.index>>
  BY DEF IsField

\* ignore
LEMMA SetIgnore ==
  ASSUME NEW f, IsField(f), NEW v \in BOOLEAN, NEW g, g = [f EXCEPT !.ignore = v]
  PROVE  /\ IsField(g) /\ g.ignore = v
         /\ <<g.fieldName, g.columnName, g.isPk, g.autoInc, g.hasIndex, g.notNull, g.default, g.extra, g.index>>
            = <<f.fieldName, f.columnName, f.isPk, f.autoInc, f.hasIndex, f.notNull, f.default, f.extra, f.index>>
  BY DEF IsField

\* not null
LEMMA SetNotNull ==
  ASSUME NEW f, IsField(f), NEW v \in BOOLEAN, NEW g, g = [f EXCEPT !.notNull = v]
  PROVE  /\ IsField(g) /\ g.notNull = v
         /\ <<g.fieldName, g.columnName, g.isPk, g.autoInc, g.ignore, g.hasIndex, g.default, g.extra, g.index>>
            = <<f.fieldName, f.columnName, f.isPk, f.autoInc, f.ignore, f.hasIndex, f.default, f.extra, f.index>>
  BY DEF IsField

\* default, and its value
LEMMA SetDefault ==
  ASSUME NEW f, IsField(f), NEW v, NEW g, g = [f EXCEPT !.default = v]
  PROVE  /\ IsField(g) /\ g.default = v
         /\ <<g.fieldName, g.columnName, g.isPk, g.autoInc, g.ignore, g.hasIndex, g.notNull, g.extra, g.index>>
            = <<f.fieldName, f.columnName, f.isPk, f.autoInc, f.ignore, f.hasIndex, f.notNull, f.extra, f.index>>
  BY DEF IsField

\* Any other word.
WithExtra(f, v) == [f EXCEPT !.extra = v]

\* Any other word goes to extra and nowhere else.
LEMMA SetExtra ==
  ASSUME NEW f, IsField(f), NEW v, NEW g, g = WithExtra(f, v)
  PROVE  /\ IsField(g) /\ g.extra = v
         /\ <<g.fieldName, g.columnName, g.isPk, g.autoInc, g.ignore, g.hasIndex, g.notNull, g.default, g.index>>
            = <<f.fieldName, f.columnName, f.isPk, f.autoInc, f.ignore, f.hasIndex, f.notNull, f.default, f.index>>
  BY DEF IsField, WithExtra

\* The end of the constructor.
LEMMA FinishedRecord ==
  ASSUME NEW f, IsField(f), NEW g,
         g = [f EXCEPT !.ignore = @ \/ (f.isPk /\ f.autoInc), !.notNull = @ \/ f.isPk]
  PROVE  \E a, b \in BOOLEAN :
            /\ a <=> f.ignore \/ (f.isPk /\ f.autoInc)
            /\ b <=> f.notNull \/ f.isPk
            /\ g = With(f, f.isPk, a, f.hasIndex, b, f.index)
<1> PICK a \in BOOLEAN : a = (f.ignore \/ (f.isPk /\ f.autoInc))
  BY DEF IsField
<1> PICK b \in BOOLEAN : b = (f.notNull \/ f.isPk)
  BY DEF IsField
<1>1. f = With(f, f.isPk, f.ignore, f.hasIndex, f.notNull, f.index)
  BY DEF IsField, With
<1>2. g = With(f, f.isPk, a, f.hasIndex, b, f.index)
  BY <1>1 DEF With
<1> QED BY <1>2, Zenon

\* A primary key is NOT NULL, and one with auto_increment is left to the server.
LEMMA FinishedField ==
  ASSUME NEW f, IsField(f), NEW a \in BOOLEAN, NEW b \in BOOLEAN, NEW g,
         g = With(f, f.isPk, a, f.hasIndex, b, f.index)
  PROVE  /\ IsField(g) /\ g.ignore = a /\ g.notNull = b
         /\ <<g.fieldName, g.columnName, g.isPk, g.autoInc, g.hasIndex, g.default, g.extra, g.index>>
            = <<f.fieldName, f.columnName, f.isPk, f.autoInc, f.hasIndex, f.default, f.extra, f.index>>
  BY DEF IsField, With

-----------------------------------------------------------------------------
(* Tags *)

\* A column of a class: a sequence of tags.
IsColumn(c) == IsSequence(c.tags) /\ \A j \in DOMAIN c.tags : IsTag(c.tags[j])

\* Its tags have the numbers 1 to Len(c.tags), and so have the words of a tag.
LEMMA Numbers ==
  ASSUME NEW c, IsColumn(c)
  PROVE  /\ Len(c.tags) \in Nat /\ DOMAIN c.tags = 1..Len(c.tags)
         /\ \A t \in 1..Len(c.tags) : c.tags[t].key = "words" =>
               /\ Len(c.tags[t].value) \in Nat /\ DOMAIN c.tags[t].value = 1..Len(c.tags[t].value)
               /\ \A k \in 1..Len(c.tags[t].value) : c.tags[t].value[k] \in STRING \ {""}
<1>1. Len(c.tags) \in Nat /\ DOMAIN c.tags = 1..Len(c.tags)
  BY DEF IsColumn, IsSequence
<1>2. ASSUME NEW t \in 1..Len(c.tags), c.tags[t].key = "words"
      PROVE  c.tags[t].value \in Seq(STRING \ {""})
  BY <1>1, <1>2 DEF IsColumn, IsTag
<1>3. ASSUME NEW S, NEW v \in Seq(S)
      PROVE  /\ Len(v) \in Nat /\ DOMAIN v = 1..Len(v)
             /\ \A k \in 1..Len(v) : v[k] \in S
  OBVIOUS
<1> QED BY <1>1, <1>2, <1>3, Zenon

\* What one more tag adds to what the tags say.
LEMMA SaysNext ==
  ASSUME NEW c, NEW n \in Nat, NEW ws
  PROVE  Says(c, n + 1, ws) <=> Says(c, n, ws) \/ (c.tags[n + 1].key = "words" /\ c.tags[n + 1].value = ws)
  BY DEF Says

\* The same of default and its value.
LEMMA SaysDefaultNext ==
  ASSUME NEW c, NEW n \in Nat
  PROVE  SaysDefault(c, n + 1) <=> \/ SaysDefault(c, n)
                                   \/ c.tags[n + 1].key = "words" /\ c.tags[n + 1].value[1] = "default"
  BY DEF SaysDefault

\* A pair changes nothing that ReadInv is about.
LEMMA ReadPair ==
  ASSUME NEW c, NEW n \in Nat, NEW f, NEW g, ReadInv(c, n, f), c.tags[n + 1].key # "words",
         <<g.isPk, g.autoInc, g.ignore, g.hasIndex, g.notNull, g.default, g.extra>>
         = <<f.isPk, f.autoInc, f.ignore, f.hasIndex, f.notNull, f.default, f.extra>>
  PROVE  ReadInv(c, n + 1, g)
<1>1. \A ws : Says(c, n + 1, ws) <=> Says(c, n, ws)
  BY SaysNext, Zenon
<1>2. SaysDefault(c, n + 1) <=> SaysDefault(c, n)
  BY SaysDefaultNext, Zenon
<1>3. SaysIndex(c, n + 1) <=> SaysIndex(c, n)
  BY <1>1, Zenon DEF SaysIndex
<1> QED BY <1>1, <1>2, <1>3, Zenon DEF ReadInv

\* The attributes of g are those of f and the one the words v name.
Adds(f, g, v) ==
    /\ g.isPk <=> f.isPk \/ v = <<"pk">>
    /\ g.hasIndex <=> f.hasIndex \/ v = <<"pk">> \/ v = <<"index">> \/ v = <<"unique">>
    /\ g.notNull <=> f.notNull \/ v = <<"not", "null">>
    /\ g.ignore <=> f.ignore \/ v = <<"ignore">>
    /\ g.autoInc <=> f.autoInc \/ v = <<"auto_increment">>
    /\ g.default # "" <=> f.default # "" \/ v[1] = "default"
    /\ g.extra = f.extra

\* One more tag of words adds to what was read.
LEMMA ReadWords ==
  ASSUME NEW c, NEW n \in Nat, NEW f, NEW g, ReadInv(c, n, f), c.tags[n + 1].key = "words", NEW v,
         v = c.tags[n + 1].value, Adds(f, g, v)
  PROVE  ReadInv(c, n + 1, g)
<1>1. \A ws : Says(c, n + 1, ws) <=> Says(c, n, ws) \/ v = ws
  BY SaysNext, Zenon
<1>2. SaysDefault(c, n + 1) <=> SaysDefault(c, n) \/ v[1] = "default"
  BY SaysDefaultNext, Zenon
<1>3. SaysIndex(c, n + 1) <=> SaysIndex(c, n) \/ v = <<"pk">> \/ v = <<"index">> \/ v = <<"unique">>
  BY <1>1, Zenon DEF SaysIndex
<1> SUFFICES ASSUME AllOne(c)
             PROVE  /\ g.isPk <=> Says(c, n + 1, <<"pk">>)
                    /\ g.hasIndex <=> SaysIndex(c, n + 1)
                    /\ g.notNull <=> Says(c, n + 1, <<"not", "null">>)
                    /\ g.ignore <=> Says(c, n + 1, <<"ignore">>)
                    /\ g.autoInc <=> Says(c, n + 1, <<"auto_increment">>)
                    /\ g.default # "" <=> SaysDefault(c, n + 1)
                    /\ g.extra = << >>
  BY Zenon DEF ReadInv
<1>4. g.isPk <=> Says(c, n + 1, <<"pk">>)
  BY <1>1, Zenon DEF ReadInv, Adds
<1>5. g.hasIndex <=> SaysIndex(c, n + 1)
  BY <1>3, Zenon DEF ReadInv, Adds
<1>6. g.notNull <=> Says(c, n + 1, <<"not", "null">>)
  BY <1>1, Zenon DEF ReadInv, Adds
<1>7. /\ g.ignore <=> Says(c, n + 1, <<"ignore">>)
      /\ g.autoInc <=> Says(c, n + 1, <<"auto_increment">>)
  BY <1>1, Zenon DEF ReadInv, Adds
<1>8. g.default # "" <=> SaysDefault(c, n + 1)
  BY <1>2, Zenon DEF ReadInv, Adds
<1>9. g.extra = << >>
  BY Zenon DEF ReadInv, Adds
<1> QED BY <1>4, <1>5, <1>6, <1>7, <1>8, <1>9, Zenon

\* The index of a field is kept as long as nothing of it is assigned.
LEMMA IndexKept ==
  ASSUME NEW c, NEW f, NEW g, IndexInv(c, f),
         <<g.fieldName, g.columnName, g.isPk, g.hasIndex, g.index>>
         = <<f.fieldName, f.columnName, f.isPk, f.hasIndex, f.index>>
  PROVE  IndexInv(c, g)
<1>1. getColumnName(g) = getColumnName(f)
  BY Zenon DEF getColumnName
<1> QED BY <1>1, Zenon DEF IndexInv

\* An index word read stays read.
LEMMA ReadLater ==
  ASSUME NEW c, IsColumn(c), NEW t \in Nat, NEW w \in Nat, NEW s \in Nat, NEW x \in Nat,
         t < s \/ (t = s /\ w <= x), IndexRead(c, t, w)
  PROVE  IndexRead(c, s, x)
<1>1. PICK j \in DOMAIN c.tags :
         /\ c.tags[j].key = "words"
         /\ \E k \in DOMAIN c.tags[j].value : IndexWord(c, j, k) /\ (j < t \/ (j = t /\ k < w))
  BY Zenon DEF IndexRead
<1>2. PICK k \in DOMAIN c.tags[j].value : IndexWord(c, j, k) /\ (j < t \/ (j = t /\ k < w))
  BY <1>1, Zenon
<1>3. j \in 1..Len(c.tags) /\ k \in 1..Len(c.tags[j].value)
  BY <1>1, Numbers, Zenon
<1>4. Len(c.tags) \in Nat /\ Len(c.tags[j].value) \in Nat
  BY <1>1, <1>3, Numbers, Zenon
<1>5. j < s \/ (j = s /\ k < x)
  BY <1>2, <1>3, <1>4
<1> QED BY <1>1, <1>2, <1>5, Zenon DEF IndexRead

\* Before the first word of the first tag there is nothing.
LEMMA NothingRead ==
  ASSUME NEW c, IsColumn(c)
  PROVE  ~IndexRead(c, 1, 1)
<1> SUFFICES ASSUME IndexRead(c, 1, 1) PROVE FALSE
  OBVIOUS
<1>1. PICK j \in DOMAIN c.tags :
         /\ c.tags[j].key = "words"
         /\ \E k \in DOMAIN c.tags[j].value : IndexWord(c, j, k) /\ (j < 1 \/ (j = 1 /\ k < 1))
  BY Zenon DEF IndexRead
<1>2. PICK k \in DOMAIN c.tags[j].value : j < 1 \/ (j = 1 /\ k < 1)
  BY <1>1, Zenon
<1>3. j \in 1..Len(c.tags) /\ k \in 1..Len(c.tags[j].value)
  BY <1>1, Numbers, Zenon
<1>4. Len(c.tags) \in Nat /\ Len(c.tags[j].value) \in Nat
  BY <1>1, <1>3, Numbers, Zenon
<1> QED BY <1>2, <1>3, <1>4

\* A tag of one attribute has one word, or two.
LEMMA Shapes ==
  ASSUME NEW c, AllOne(c), NEW t \in 1..Len(c.tags), c.tags[t].key = "words", NEW v, v = c.tags[t].value
  PROVE  \/ Len(v) = 1 /\ v \in {<<"pk">>, <<"index">>, <<"unique">>, <<"auto_increment">>, <<"ignore">>}
         \/ Len(v) = 2 /\ v = <<"not", "null">>
         \/ Len(v) = 2 /\ v[1] = "default"
<1>1. \/ v \in {<<"pk">>, <<"index">>, <<"unique">>, <<"auto_increment">>, <<"ignore">>}
      \/ v = <<"not", "null">>
      \/ Len(v) = 2 /\ v[1] = "default"
  BY Zenon DEF AllOne, OneAttribute
<1>2. CASE v \in {<<"pk">>, <<"index">>, <<"unique">>, <<"auto_increment">>, <<"ignore">>}
  <2>1. Len(v) = 1
    BY <1>2
  <2> QED BY <1>2, <2>1, Zenon
<1>3. CASE v = <<"not", "null">>
  <2>1. Len(v) = 2
    BY <1>3
  <2> QED BY <1>3, <2>1, Zenon
<1> QED BY <1>1, <1>2, <1>3, Zenon

\* A tag that has not been begun is not at its end.
LEMMA NotAtEnd ==
  ASSUME NEW c, IsColumn(c), AllOne(c), NEW t \in Nat \ {0}
  PROVE  TagsRead(c, t, 1) = t - 1
<1>1. CASE ~AtEnd(c, t, 1)
  BY <1>1, Zenon DEF TagsRead
<1>2. CASE AtEnd(c, t, 1)
  <2>1. t <= Len(c.tags) /\ c.tags[t].key = "words" /\ 1 > Len(c.tags[t].value)
    BY <1>2, Zenon DEF AtEnd
  <2>2. Len(c.tags) \in Nat
    BY Numbers, Zenon
  <2>3. t \in 1..Len(c.tags)
    BY <2>1, <2>2
  <2>4. Len(c.tags[t].value) = 1 \/ Len(c.tags[t].value) = 2
    BY <2>1, <2>3, Shapes, Zenon
  <2>5. \A l : (l = 1 \/ l = 2) => ~(1 > l)
    OBVIOUS
  <2> QED BY <2>1, <2>4, <2>5, Zenon
<1> QED BY <1>1, <1>2, Zenon

\* key = value.
LEMMA PairInd ==
  ASSUME NEW c, IsColumn(c), NEW f, NEW t, NEW w, NEW nn, NEW dv, FieldInv(c, f, t, w, nn, dv),
         t <= Len(c.tags), c.tags[t].key # "words", NEW g, IsField(g),
         <<g.fieldName, g.isPk, g.autoInc, g.ignore, g.hasIndex, g.notNull, g.default, g.extra, g.index>>
         = <<f.fieldName, f.isPk, f.autoInc, f.ignore, f.hasIndex, f.notNull, f.default, f.extra, f.index>>,
         c.tags[t].key = "name" \/ g.columnName = f.columnName
  PROVE  FieldInv(c, g, t + 1, w, nn, dv)
<1>1. /\ IsField(f) /\ f.fieldName = c.field /\ t \in 1..(Len(c.tags) + 1) /\ w = 1
      /\ f.hasIndex => IndexRead(c, t, w)
      /\ IndexInv(c, f) /\ FlagsInv(c, t, w, nn, dv) /\ ReadInv(c, TagsRead(c, t, w), f)
  BY Zenon DEF FieldInv
<1>2. t \in 1..Len(c.tags) /\ t \in Nat \ {0} /\ t + 1 \in Nat /\ t + 1 \in 1..(Len(c.tags) + 1) /\ t < t + 1
  <2>1. Len(c.tags) \in Nat
    BY Numbers, Zenon
  <2> QED BY <1>1, <2>1
<1>3. g.hasIndex = f.hasIndex /\ g.fieldName = f.fieldName /\ g.isPk = f.isPk /\ g.index = f.index
  BY Zenon
<1>4. g.hasIndex => IndexRead(c, t + 1, w)
  <2>1. w \in Nat
    BY <1>1
  <2> QED BY <1>1, <1>2, <1>3, <2>1, ReadLater, Zenon
<1>5. IndexInv(c, g)
  <2>1. CASE g.columnName = f.columnName
    BY <1>1, <1>3, <2>1, IndexKept, Zenon
  <2>2. CASE c.tags[t].key = "name"
    <3> SUFFICES ASSUME NameFirst(c), OneIndex(c)
                 PROVE  /\ g.isPk <=> g.index.type = "PRI"
                        /\ g.index.columns = IF g.hasIndex THEN <<getColumnName(g)>> ELSE << >>
      BY Zenon DEF IndexInv
    <3>1. t = 1
      BY <1>2, <2>2, Numbers, Zenon DEF NameFirst
    <3>2. ~f.hasIndex
      BY <1>1, <3>1, NothingRead, Zenon
    <3>3. (f.isPk <=> f.index.type = "PRI") /\ f.index.columns = << >>
      BY <1>1, <3>2, Zenon DEF IndexInv
    <3> QED BY <1>3, <3>2, <3>3, Zenon
  <2> QED BY <1>3, <2>1, <2>2, Zenon
<1>6. FlagsInv(c, t + 1, w, nn, dv)
  <2>1. ~nn /\ ~dv
    BY <1>1, Zenon DEF FlagsInv
  <2>2. ~(w = 2) /\ ~(w > 1)
    BY <1>1
  <2> QED BY <2>1, <2>2, Zenon DEF FlagsInv
<1>7. ReadInv(c, TagsRead(c, t + 1, w), g)
  <2>1. CASE ~AllOne(c)
    BY <2>1, Zenon DEF ReadInv
  <2>2. CASE AllOne(c)
    <3>1. t + 1 \in Nat \ {0} /\ t - 1 \in Nat /\ (t - 1) + 1 = t /\ (t + 1) - 1 = t
      BY <1>2
    <3>2. TagsRead(c, t, w) = t - 1 /\ TagsRead(c, t + 1, w) = t
      BY <1>1, <1>2, <2>2, <3>1, NotAtEnd, Zenon
    <3> PICK n \in Nat : n = t - 1 /\ n + 1 = t
      BY <3>1
    <3> QED BY <1>1, <3>2, ReadPair, Zenon
  <2> QED BY <2>1, <2>2, Zenon
<1>8. g.fieldName = c.field /\ w \in Nat \ {0}
  BY <1>1, <1>3
<1> QED BY <1>1, <1>2, <1>3, <1>4, <1>5, <1>6, <1>7, <1>8, Zenon DEF FieldInv

\* The end of a tag.
LEMMA EndTagInd ==
  ASSUME NEW c, IsColumn(c), NEW f, NEW t, NEW w, NEW nn, NEW dv, FieldInv(c, f, t, w, nn, dv),
         AtEnd(c, t, w)
  PROVE  FieldInv(c, f, t + 1, 1, FALSE, FALSE)
<1>1. /\ IsField(f) /\ f.fieldName = c.field /\ t \in 1..(Len(c.tags) + 1) /\ w \in Nat \ {0}
      /\ f.hasIndex => IndexRead(c, t, w)
      /\ IndexInv(c, f) /\ ReadInv(c, TagsRead(c, t, w), f) /\ t <= Len(c.tags)
  BY Zenon DEF FieldInv, AtEnd
<1>2. t \in Nat /\ w \in Nat /\ 1 \in Nat \ {0} /\ 1 \in Nat /\ t + 1 \in Nat \ {0} /\ t + 1 \in Nat
      /\ t + 1 \in 1..(Len(c.tags) + 1) /\ t < t + 1 /\ (t + 1) - 1 = t
  <2>1. Len(c.tags) \in Nat
    BY Numbers, Zenon
  <2> QED BY <1>1, <2>1
<1>3. f.hasIndex => IndexRead(c, t + 1, 1)
  BY <1>1, <1>2, ReadLater, Zenon
<1>4. FlagsInv(c, t + 1, 1, FALSE, FALSE)
  <2>1. ~(1 = 2) /\ ~(1 > 1)
    OBVIOUS
  <2> QED BY <2>1, Zenon DEF FlagsInv
<1>5. ReadInv(c, TagsRead(c, t + 1, 1), f)
  <2>1. CASE ~AllOne(c)
    BY <2>1, Zenon DEF ReadInv
  <2>2. CASE AllOne(c)
    <3>1. TagsRead(c, t, w) = t /\ TagsRead(c, t + 1, 1) = t
      BY <1>2, <2>2, NotAtEnd, Zenon DEF TagsRead
    <3> QED BY <1>1, <3>1, Zenon
  <2> QED BY <2>1, <2>2, Zenon
<1> QED BY <1>1, <1>2, <1>3, <1>4, <1>5, Zenon DEF FieldInv

-----------------------------------------------------------------------------
(* Words *)

\* What word x does to the attributes of f and to the two flags.
WordEffect(f, x, nn, dv, g, nn2, dv2) ==
    \/ /\ dv /\ (nn2 <=> nn) /\ dv2 /\ g.default = x
       /\ <<g.isPk, g.autoInc, g.ignore, g.hasIndex, g.notNull, g.extra>>
          = <<f.isPk, f.autoInc, f.ignore, f.hasIndex, f.notNull, f.extra>>
    \/ /\ ~dv /\ nn /\ x = "null" /\ ~nn2 /\ ~dv2 /\ g.notNull
       /\ <<g.isPk, g.autoInc, g.ignore, g.hasIndex, g.default, g.extra>>
          = <<f.isPk, f.autoInc, f.ignore, f.hasIndex, f.default, f.extra>>
    \/ /\ ~dv /\ ~(nn /\ x = "null") /\ (nn2 <=> nn \/ x = "not") /\ (dv2 <=> x = "default")
       /\ g.notNull = f.notNull /\ g.default = f.default
       /\ x \in {"pk", "index", "unique"} =>
             /\ g.hasIndex /\ (g.isPk <=> f.isPk \/ x = "pk")
             /\ <<g.autoInc, g.ignore, g.extra>> = <<f.autoInc, f.ignore, f.extra>>
       /\ x = "auto_increment" =>
             /\ g.autoInc
             /\ <<g.isPk, g.ignore, g.hasIndex, g.extra>> = <<f.isPk, f.ignore, f.hasIndex, f.extra>>
       /\ x = "ignore" =>
             /\ g.ignore
             /\ <<g.isPk, g.autoInc, g.hasIndex, g.extra>> = <<f.isPk, f.autoInc, f.hasIndex, f.extra>>
       /\ x \in {"not", "default"} =>
             <<g.isPk, g.autoInc, g.ignore, g.hasIndex, g.extra>>
             = <<f.isPk, f.autoInc, f.ignore, f.hasIndex, f.extra>>

\* The only word of its tag.
LEMMA OneWord ==
  ASSUME NEW f, NEW g, NEW nn, NEW dv, NEW nn2, NEW dv2,
         NEW x, ~nn, ~dv, NEW v, v = <<x>>,
         x \in {"pk", "index", "unique", "auto_increment", "ignore"},
         WordEffect(f, x, nn, dv, g, nn2, dv2)
  PROVE  /\ ~nn2 /\ ~dv2 /\ v[1] # "default"
         /\ Adds(f, g, v)
<1>1. v[1] = x /\ v # <<"not", "null">>
  OBVIOUS
<1>2. /\ v = <<"pk">> <=> x = "pk"
      /\ v = <<"index">> <=> x = "index"
      /\ v = <<"unique">> <=> x = "unique"
      /\ v = <<"ignore">> <=> x = "ignore"
      /\ v = <<"auto_increment">> <=> x = "auto_increment"
  OBVIOUS
<1>3. ~nn2 /\ ~dv2 /\ g.notNull = f.notNull /\ g.default = f.default
  <2>1. x # "not" /\ x # "default"
    OBVIOUS
  <2> QED BY <2>1, Zenon DEF WordEffect
<1>4. CASE x \in {"pk", "index", "unique"}
  <2>1. /\ g.hasIndex /\ (g.isPk <=> f.isPk \/ x = "pk")
        /\ <<g.autoInc, g.ignore, g.extra>> = <<f.autoInc, f.ignore, f.extra>>
    BY <1>4, Zenon DEF WordEffect
  <2>2. x # "ignore" /\ x # "auto_increment" /\ x # "default" /\ (x = "pk" \/ x = "index" \/ x = "unique")
    BY <1>4
  <2> QED BY <1>1, <1>2, <1>3, <2>1, <2>2, Zenon DEF Adds
<1>5. CASE x = "auto_increment"
  <2>1. /\ g.autoInc
        /\ <<g.isPk, g.ignore, g.hasIndex, g.extra>> = <<f.isPk, f.ignore, f.hasIndex, f.extra>>
    BY <1>5, Zenon DEF WordEffect
  <2>2. x # "ignore" /\ x # "default" /\ x # "pk" /\ x # "index" /\ x # "unique"
    BY <1>5
  <2> QED BY <1>1, <1>2, <1>3, <1>5, <2>1, <2>2, Zenon DEF Adds
<1>6. CASE x = "ignore"
  <2>1. /\ g.ignore
        /\ <<g.isPk, g.autoInc, g.hasIndex, g.extra>> = <<f.isPk, f.autoInc, f.hasIndex, f.extra>>
    BY <1>6, Zenon DEF WordEffect
  <2>2. x # "auto_increment" /\ x # "default" /\ x # "pk" /\ x # "index" /\ x # "unique"
    BY <1>6
  <2> QED BY <1>1, <1>2, <1>3, <1>6, <2>1, <2>2, Zenon DEF Adds
<1> QED BY <1>4, <1>5, <1>6, Zenon

\* Nothing but the words matters for what was read.
LEMMA ReadSame ==
  ASSUME NEW c, NEW n, NEW f, NEW g, ReadInv(c, n, f),
         <<g.isPk, g.autoInc, g.ignore, g.hasIndex, g.notNull, g.default, g.extra>>
         = <<f.isPk, f.autoInc, f.ignore, f.hasIndex, f.notNull, f.default, f.extra>>
  PROVE  ReadInv(c, n, g)
  BY Zenon DEF ReadInv

\* One word more of a tag with one attribute: the flags and what was read follow it.
LEMMA WordRead ==
  ASSUME NEW c, IsColumn(c), NEW t \in 1..Len(c.tags), c.tags[t].key = "words",
         NEW v, v = c.tags[t].value, NEW w \in 1..Len(v), NEW x, x = v[w],
         NEW f, NEW g, NEW nn, NEW dv, NEW nn2, NEW dv2,
         FlagsInv(c, t, w, nn, dv), ReadInv(c, TagsRead(c, t, w), f),
         WordEffect(f, x, nn, dv, g, nn2, dv2)
  PROVE  FlagsInv(c, t, w + 1, nn2, dv2) /\ ReadInv(c, TagsRead(c, t, w + 1), g)
<1>1. \A k \in 1..Len(v) : v[k] # ""
  BY Numbers, Zenon
<1>2. Len(c.tags) \in Nat /\ Len(v) \in Nat
  BY Numbers, Zenon
<1>3. t \in Nat \ {0} /\ t <= Len(c.tags) /\ w \in Nat \ {0} /\ w <= Len(v) /\ w + 1 # 1 /\ ~(w > Len(v))
  BY <1>2
<1>4. CASE ~AllOne(c)
  BY <1>3, <1>4, Zenon DEF FlagsInv, ReadInv
<1>5. ASSUME AllOne(c)
      PROVE  FlagsInv(c, t, w + 1, nn2, dv2) /\ ReadInv(c, TagsRead(c, t, w + 1), g)
  <2>1. PICK n \in Nat : n = t - 1 /\ n + 1 = t
    BY <1>3
  <2>2. ReadInv(c, n, f)
    BY <1>3, <2>1, Zenon DEF TagsRead, AtEnd
  <2>3. \A u : TagsRead(c, t, u) = IF u > Len(v) THEN n + 1 ELSE n
    BY <1>3, <2>1, Zenon DEF TagsRead, AtEnd
  <2>4. (nn <=> w = 2 /\ v = <<"not", "null">>) /\ (dv <=> w > 1 /\ v[1] = "default")
    BY <1>3, <1>5, Zenon DEF FlagsInv
  <2>5. ASSUME nn2 <=> w + 1 = 2 /\ v = <<"not", "null">>, dv2 <=> w + 1 > 1 /\ v[1] = "default"
        PROVE  FlagsInv(c, t, w + 1, nn2, dv2)
    BY <1>3, <2>5, Zenon DEF FlagsInv
  <2>6. CASE Len(v) = 1 /\ v \in {<<"pk">>, <<"index">>, <<"unique">>, <<"auto_increment">>, <<"ignore">>}
    <3>1. w = 1 /\ w + 1 > Len(v) /\ w + 1 = 2 /\ ~(w = 2) /\ ~(w > 1)
      BY <1>3, <2>6
    <3>2. v = <<x>> /\ x \in {"pk", "index", "unique", "auto_increment", "ignore"}
      BY <2>6, <3>1
    <3>3. ~nn /\ ~dv
      BY <2>4, <3>1, Zenon
    <3>4. /\ ~nn2 /\ ~dv2 /\ v[1] # "default"
          /\ Adds(f, g, v)
      BY <3>2, <3>3, OneWord, Zenon
    <3>5. v # <<"not", "null">>
      BY <3>2
    <3>6. FlagsInv(c, t, w + 1, nn2, dv2)
      BY <2>5, <3>4, <3>5, Zenon
    <3>7. ReadInv(c, n + 1, g)
      BY <2>1, <2>2, <3>4, ReadWords, Zenon
    <3> QED BY <2>3, <3>1, <3>6, <3>7, Zenon
  <2>7. CASE Len(v) = 2 /\ v = <<"not", "null">>
    <3>1. v[1] = "not" /\ v[2] = "null" /\ v[1] # "default"
      BY <2>7
    <3>2. ~dv
      BY <2>4, <3>1, Zenon
    <3>3. CASE w = 1
      <4>1. ~(w + 1 > Len(v)) /\ w + 1 = 2
        BY <2>7, <3>3
      <4>2. x = "not"
        BY <3>1, <3>3, Zenon
      <4>3. x # "null" /\ x # "default" /\ x \in {"not", "default"}
        BY <4>2
      <4>4. /\ nn2 /\ ~dv2
            /\ <<g.isPk, g.autoInc, g.ignore, g.hasIndex, g.notNull, g.default, g.extra>>
               = <<f.isPk, f.autoInc, f.ignore, f.hasIndex, f.notNull, f.default, f.extra>>
        BY <3>2, <4>2, <4>3, Zenon DEF WordEffect
      <4>5. ReadInv(c, n, g)
        BY <2>2, <4>4, ReadSame, Zenon
      <4>6. FlagsInv(c, t, w + 1, nn2, dv2)
        BY <2>5, <2>7, <3>1, <4>1, <4>4, Zenon
      <4> QED BY <2>3, <4>1, <4>5, <4>6, Zenon
    <3>4. CASE w = 2
      <4>1. w + 1 > Len(v) /\ ~(w + 1 = 2)
        BY <2>7, <3>4
      <4>2. nn /\ x = "null"
        BY <2>4, <2>7, <3>1, <3>4, Zenon
      <4>3. x # "not"
        BY <4>2
      <4>4. /\ ~nn2 /\ ~dv2 /\ g.notNull
            /\ <<g.isPk, g.autoInc, g.ignore, g.hasIndex, g.default, g.extra>>
               = <<f.isPk, f.autoInc, f.ignore, f.hasIndex, f.default, f.extra>>
        BY <3>2, <4>2, <4>3, Zenon DEF WordEffect
      <4>5. /\ v # <<"pk">> /\ v # <<"index">> /\ v # <<"unique">>
            /\ v # <<"ignore">> /\ v # <<"auto_increment">>
        BY <2>7
      <4>6. Adds(f, g, v)
        BY <2>7, <3>1, <4>4, <4>5, Zenon DEF Adds
      <4>7. ReadInv(c, n + 1, g)
        BY <2>1, <2>2, <4>6, ReadWords, Zenon
      <4>8. FlagsInv(c, t, w + 1, nn2, dv2)
        BY <2>5, <3>1, <4>1, <4>4, Zenon
      <4> QED BY <2>3, <4>1, <4>8, <4>7, Zenon
    <3>5. w = 1 \/ w = 2
      BY <1>3, <2>7
    <3> QED BY <3>3, <3>4, <3>5, Zenon
  <2>8. CASE Len(v) = 2 /\ v[1] = "default"
    <3>1. v # <<"not", "null">> /\ v # <<"pk">> /\ v # <<"index">> /\ v # <<"unique">>
          /\ v # <<"ignore">> /\ v # <<"auto_increment">>
      BY <2>8
    <3>2. ~nn
      BY <2>4, <3>1, Zenon
    <3>3. CASE w = 1
      <4>1. ~(w + 1 > Len(v)) /\ w + 1 > 1 /\ ~(w > 1)
        BY <2>8, <3>3
      <4>2. ~dv /\ x = "default"
        BY <2>4, <2>8, <3>3, <4>1, Zenon
      <4>3. x # "null" /\ x # "not" /\ x \in {"not", "default"}
        BY <4>2
      <4>4. /\ ~nn2 /\ dv2
            /\ <<g.isPk, g.autoInc, g.ignore, g.hasIndex, g.notNull, g.default, g.extra>>
               = <<f.isPk, f.autoInc, f.ignore, f.hasIndex, f.notNull, f.default, f.extra>>
        BY <3>2, <4>2, <4>3, Zenon DEF WordEffect
      <4>5. ReadInv(c, n, g)
        BY <2>2, <4>4, ReadSame, Zenon
      <4>6. FlagsInv(c, t, w + 1, nn2, dv2)
        BY <2>5, <2>8, <3>1, <4>1, <4>4, Zenon
      <4> QED BY <2>3, <4>1, <4>5, <4>6, Zenon
    <3>4. CASE w = 2
      <4>1. w + 1 > Len(v) /\ w + 1 > 1 /\ w > 1
        BY <2>8, <3>4
      <4>2. dv
        BY <2>4, <2>8, <4>1, Zenon
      <4>3. /\ ~nn2 /\ dv2 /\ g.default = x
            /\ <<g.isPk, g.autoInc, g.ignore, g.hasIndex, g.notNull, g.extra>>
               = <<f.isPk, f.autoInc, f.ignore, f.hasIndex, f.notNull, f.extra>>
        BY <3>2, <4>2, Zenon DEF WordEffect
      <4>4. g.default # ""
        BY <1>1, <4>3, Zenon
      <4>5. Adds(f, g, v)
        BY <2>8, <3>1, <4>3, <4>4, Zenon DEF Adds
      <4>6. ReadInv(c, n + 1, g)
        BY <2>1, <2>2, <4>5, ReadWords, Zenon
      <4>7. FlagsInv(c, t, w + 1, nn2, dv2)
        BY <2>5, <2>8, <3>1, <4>1, <4>3, Zenon
      <4> QED BY <2>3, <4>1, <4>6, <4>7, Zenon
    <3>5. w = 1 \/ w = 2
      BY <1>3, <2>8
    <3> QED BY <3>3, <3>4, <3>5, Zenon
  <2> QED BY <1>5, <2>6, <2>7, <2>8, Shapes, Zenon
<1> QED BY <1>4, <1>5, Zenon

\* Where every column has one kind of index, the word that asks for it is the first.
LEMMA FirstIndexWord ==
  ASSUME NEW c, IsColumn(c), OneIndex(c), NEW t \in 1..Len(c.tags), c.tags[t].key = "words",
         NEW w \in 1..Len(c.tags[t].value), IndexWord(c, t, w)
  PROVE  ~IndexRead(c, t, w)
<1> SUFFICES ASSUME IndexRead(c, t, w) PROVE FALSE
  OBVIOUS
<1>1. PICK j \in DOMAIN c.tags :
         /\ c.tags[j].key = "words"
         /\ \E k \in DOMAIN c.tags[j].value : IndexWord(c, j, k) /\ (j < t \/ (j = t /\ k < w))
  BY Zenon DEF IndexRead
<1>2. PICK k \in DOMAIN c.tags[j].value : IndexWord(c, j, k) /\ (j < t \/ (j = t /\ k < w))
  BY <1>1, Zenon
<1>3. t \in DOMAIN c.tags /\ w \in DOMAIN c.tags[t].value
  BY Numbers, Zenon
<1>4. j = t /\ k = w
  BY <1>1, <1>2, <1>3, Zenon DEF OneIndex
<1>5. Len(c.tags) \in Nat /\ Len(c.tags[t].value) \in Nat
  BY Numbers, Zenon
<1> QED BY <1>2, <1>4, <1>5

\* The word pk, index or unique, in a column that has none before it, makes an index
\* over that column.
LEMMA IndexMade ==
  ASSUME NEW c, IsColumn(c), NEW t \in 1..Len(c.tags), c.tags[t].key = "words",
         NEW w \in 1..Len(c.tags[t].value), IndexWord(c, t, w),
         NEW f, IsField(f), f.hasIndex => IndexRead(c, t, w), IndexInv(c, f), NEW g, NEW type,
         <<g.fieldName, g.columnName>> = <<f.fieldName, f.columnName>>,
         g.hasIndex, g.index.type = type, g.index.columns = Append(f.index.columns, getColumnName(f)),
         g.isPk <=> f.isPk \/ type = "PRI"
  PROVE  IndexInv(c, g)
<1> SUFFICES ASSUME NameFirst(c), OneIndex(c)
             PROVE  /\ g.isPk <=> g.index.type = "PRI"
                    /\ g.index.columns = IF g.hasIndex THEN <<getColumnName(g)>> ELSE << >>
  BY Zenon DEF IndexInv
<1>1. ~f.hasIndex
  BY FirstIndexWord, Zenon
<1>2. f.index.columns = << >> /\ (f.isPk <=> f.index.type = "PRI")
  BY <1>1, Zenon DEF IndexInv
<1>3. f.index.type = "unset"
  BY <1>1, Zenon DEF IsField
<1>4. "unset" # "PRI"
  OBVIOUS
<1>5. ~f.isPk
  BY <1>2, <1>3, <1>4, Zenon
<1>6. \A n : Append(<< >>, n) = <<n>>
  OBVIOUS
<1>7. getColumnName(g) = getColumnName(f)
  BY Zenon DEF getColumnName
<1>8. g.index.columns = <<getColumnName(g)>>
  BY <1>2, <1>6, <1>7, Zenon
<1> QED BY <1>5, <1>8, Zenon

\* Word x was taken: its effect, also on the index.
Taken(f, x, nn, dv, g, nn2, dv2) ==
    /\ IsField(g) /\ WordEffect(f, x, nn, dv, g, nn2, dv2)
    /\ <<g.fieldName, g.columnName>> = <<f.fieldName, f.columnName>>
    /\ \/ <<g.isPk, g.hasIndex, g.index>> = <<f.isPk, f.hasIndex, f.index>>
       \/ /\ x \in DOMAIN IndexType /\ g.hasIndex /\ g.index.type = IndexType[x]
          /\ g.index.columns = Append(f.index.columns, getColumnName(f))
          /\ g.isPk <=> f.isPk \/ IndexType[x] = "PRI"

\* A word of a tag.
LEMMA WordInd ==
  ASSUME NEW c, IsColumn(c), NEW f, NEW t, NEW w, NEW nn, NEW dv,
         FieldInv(c, f, t, w, nn, dv), t <= Len(c.tags), c.tags[t].key = "words",
         w <= Len(c.tags[t].value), NEW x, x = c.tags[t].value[w],
         NEW g, NEW nn2, NEW dv2, Taken(f, x, nn, dv, g, nn2, dv2)
  PROVE  FieldInv(c, g, t, w + 1, nn2, dv2)
<1>1. /\ IsField(g) /\ WordEffect(f, x, nn, dv, g, nn2, dv2)
      /\ <<g.fieldName, g.columnName>> = <<f.fieldName, f.columnName>>
  BY Zenon DEF Taken
<1>2. /\ IsField(f) /\ f.fieldName = c.field /\ t \in 1..(Len(c.tags) + 1) /\ w \in Nat \ {0}
      /\ f.hasIndex => IndexRead(c, t, w)
      /\ IndexInv(c, f) /\ FlagsInv(c, t, w, nn, dv) /\ ReadInv(c, TagsRead(c, t, w), f)
  BY Zenon DEF FieldInv
<1>3. t \in 1..Len(c.tags)
  <2>1. Len(c.tags) \in Nat
    BY Numbers, Zenon
  <2> QED BY <1>2, <2>1
<1>4. PICK l \in Nat : l = Len(c.tags[t].value)
  BY <1>3, Numbers, Zenon
<1>5. w \in 1..l /\ w + 1 \in Nat \ {0} /\ w + 1 \in Nat /\ w + 1 <= l + 1 /\ w <= w + 1 /\ w \in Nat /\ w < w + 1
  BY <1>2, <1>4
<1>6. t \in Nat
  <2>1. Len(c.tags) \in Nat
    BY Numbers, Zenon
  <2> QED BY <1>2, <2>1
<1>7. FlagsInv(c, t, w + 1, nn2, dv2) /\ ReadInv(c, TagsRead(c, t, w + 1), g)
  <2>1. PICK v : v = c.tags[t].value /\ w \in 1..Len(v) /\ x = v[w]
    BY <1>4, <1>5, Zenon
  <2> QED BY <1>2, <1>3, <1>1, <2>1, WordRead, Zenon
<1>8. (g.hasIndex => IndexRead(c, t, w + 1)) /\ IndexInv(c, g)
  <2>1. CASE <<g.isPk, g.hasIndex, g.index>> = <<f.isPk, f.hasIndex, f.index>>
    <3>1. IndexInv(c, g)
      BY <1>2, <1>1, <2>1, IndexKept, Zenon
    <3>2. g.hasIndex => IndexRead(c, t, w + 1)
      BY <1>2, <1>5, <1>6, <2>1, ReadLater, Zenon
    <3> QED BY <3>1, <3>2, Zenon
  <2>2. CASE /\ x \in DOMAIN IndexType /\ g.hasIndex /\ g.index.type = IndexType[x]
             /\ g.index.columns = Append(f.index.columns, getColumnName(f))
             /\ g.isPk <=> f.isPk \/ IndexType[x] = "PRI"
    <3>1. t \in DOMAIN c.tags /\ w \in DOMAIN c.tags[t].value
      BY <1>3, <1>4, <1>5, Numbers, Zenon
    <3>2. IndexWord(c, t, w)
      BY <2>2, <3>1, Zenon DEF IndexWord
    <3>3. IndexRead(c, t, w + 1)
      BY <1>5, <3>1, <3>2, Zenon DEF IndexRead
    <3>4. IndexInv(c, g)
      BY <1>2, <1>3, <1>4, <1>5, <1>1, <2>2, <3>2, IndexMade, Zenon
    <3> QED BY <3>3, <3>4, Zenon
  <2> QED BY <2>1, <2>2, Zenon DEF Taken
<1>9. t <= Len(c.tags) /\ c.tags[t].key = "words" /\ w + 1 <= Len(c.tags[t].value) + 1
  BY <1>4, <1>5, Zenon
<1> QED BY <1>2, <1>5, <1>7, <1>8, <1>9, <1>1, Zenon DEF FieldInv

-----------------------------------------------------------------------------
(* The field before its first tag and after its last *)

\* Before the first tag nothing is read.
LEMMA NewFieldInd ==
  ASSUME NEW c, IsColumn(c), NEW f, f = NewField(c)
  PROVE  FieldInv(c, f, 1, 1, FALSE, FALSE)
<1>1. /\ IsField(f) /\ f.fieldName = c.field
      /\ ~f.isPk /\ ~f.autoInc /\ ~f.ignore /\ ~f.hasIndex /\ ~f.notNull
      /\ f.default = "" /\ f.extra = << >>
      /\ f.index.type = "unset" /\ f.index.columns = << >>
  BY NewFieldIsField, Zenon
<1>2. 1 \in 1..(Len(c.tags) + 1) /\ 1 \in Nat \ {0} /\ 1 - 1 = 0 /\ ~(1 = 2) /\ ~(1 > 1)
  <2>1. Len(c.tags) \in Nat
    BY Numbers, Zenon
  <2> QED BY <2>1
<1>3. IndexInv(c, f)
  <2>1. "unset" # "PRI"
    OBVIOUS
  <2> QED BY <1>1, <2>1, Zenon DEF IndexInv
<1>4. FlagsInv(c, 1, 1, FALSE, FALSE)
  BY <1>2, Zenon DEF FlagsInv
<1>5. ReadInv(c, TagsRead(c, 1, 1), f)
  <2>1. CASE ~AllOne(c)
    BY <2>1, Zenon DEF ReadInv
  <2>2. CASE AllOne(c)
    <3>1. TagsRead(c, 1, 1) = 0
      BY <1>2, <2>2, NotAtEnd, Zenon
    <3>2. \A j : ~(j \in 1..0)
      OBVIOUS
    <3>3. (\A ws : ~Says(c, 0, ws)) /\ ~SaysDefault(c, 0)
      BY <3>2, Zenon DEF Says, SaysDefault
    <3>4. ~SaysIndex(c, 0)
      BY <3>3, Zenon DEF SaysIndex
    <3>5. ReadInv(c, 0, f)
      BY <1>1, <3>3, <3>4, Zenon DEF ReadInv
    <3> QED BY <3>1, <3>5, Zenon
  <2> QED BY <2>1, <2>2, Zenon
<1> QED BY <1>1, <1>2, <1>3, <1>4, <1>5, Zenon DEF FieldInv

\* Behind the last tag the constructor has made the field its column asks for.
LEMMA FinishedInd ==
  ASSUME NEW c, IsColumn(c), NEW f, NEW t, NEW w, NEW nn, NEW dv, FieldInv(c, f, t, w, nn, dv),
         t > Len(c.tags), NEW a \in BOOLEAN, a <=> f.ignore \/ (f.isPk /\ f.autoInc),
         NEW b \in BOOLEAN, b <=> f.notNull \/ f.isPk,
         NEW g, g = With(f, f.isPk, a, f.hasIndex, b, f.index)
  PROVE  MadeFrom(c, g) /\ w = 1
<1>1. /\ IsField(f) /\ f.fieldName = c.field /\ t \in 1..(Len(c.tags) + 1)
      /\ w = 1 \/ (t <= Len(c.tags) /\ c.tags[t].key = "words" /\ w <= Len(c.tags[t].value) + 1)
      /\ IndexInv(c, f) /\ ReadInv(c, TagsRead(c, t, w), f)
  BY Zenon DEF FieldInv
<1>2. \A l \in Nat : \A k \in 1..(l + 1) : k > l => ~(k <= l) /\ k - 1 = l
  OBVIOUS
<1>3. ~(t <= Len(c.tags)) /\ t - 1 = Len(c.tags)
  BY <1>1, <1>2, Numbers, Zenon
<1>4. TagsRead(c, t, w) = Len(c.tags)
  BY <1>3, Zenon DEF TagsRead, AtEnd
<1>5. /\ IsField(g) /\ g.ignore = a /\ g.notNull = b
      /\ <<g.fieldName, g.columnName, g.isPk, g.autoInc, g.hasIndex, g.default, g.extra, g.index>>
         = <<f.fieldName, f.columnName, f.isPk, f.autoInc, f.hasIndex, f.default, f.extra, f.index>>
  BY <1>1, FinishedField
<1>6. IndexInv(c, g)
  BY <1>1, <1>5, IndexKept, Zenon
<1>7. ASSUME AllOne(c)
      PROVE  /\ g.isPk <=> Says(c, Len(c.tags), <<"pk">>)
             /\ g.hasIndex <=> SaysIndex(c, Len(c.tags))
             /\ g.notNull <=> Says(c, Len(c.tags), <<"not", "null">>) \/ Says(c, Len(c.tags), <<"pk">>)
             /\ g.ignore <=> \/ Says(c, Len(c.tags), <<"ignore">>)
                             \/ Says(c, Len(c.tags), <<"pk">>) /\ Says(c, Len(c.tags), <<"auto_increment">>)
             /\ g.default # "" <=> SaysDefault(c, Len(c.tags))
             /\ g.extra = << >>
  <2>1. /\ f.isPk <=> Says(c, Len(c.tags), <<"pk">>)
        /\ f.hasIndex <=> SaysIndex(c, Len(c.tags))
        /\ f.notNull <=> Says(c, Len(c.tags), <<"not", "null">>)
        /\ f.ignore <=> Says(c, Len(c.tags), <<"ignore">>)
        /\ f.autoInc <=> Says(c, Len(c.tags), <<"auto_increment">>)
        /\ f.default # "" <=> SaysDefault(c, Len(c.tags))
        /\ f.extra = << >>
    BY <1>1, <1>4, <1>7, Zenon DEF ReadInv
  <2>2. g.ignore <=> f.ignore \/ (f.isPk /\ f.autoInc)
    BY <1>5, Zenon
  <2>3. g.notNull <=> f.notNull \/ f.isPk
    BY <1>5, Zenon
  <2>4. /\ g.isPk <=> Says(c, Len(c.tags), <<"pk">>)
        /\ g.hasIndex <=> SaysIndex(c, Len(c.tags))
        /\ g.default # "" <=> SaysDefault(c, Len(c.tags))
        /\ g.extra = << >>
    BY <1>5, <2>1, Zenon
  <2>5. g.notNull <=> Says(c, Len(c.tags), <<"not", "null">>) \/ Says(c, Len(c.tags), <<"pk">>)
    BY <2>1, <2>3, Zenon
  <2>6. g.ignore <=> \/ Says(c, Len(c.tags), <<"ignore">>)
                     \/ Says(c, Len(c.tags), <<"pk">>) /\ Says(c, Len(c.tags), <<"auto_increment">>)
    BY <2>1, <2>2, Zenon
  <2> QED BY <2>4, <2>5, <2>6, Zenon
<1>8. g.fieldName = c.field /\ w = 1
  BY <1>1, <1>3, <1>5, Zenon
<1> QED BY <1>5, <1>6, <1>7, <1>8, Zenon DEF MadeFrom

-----------------------------------------------------------------------------
(* The collection of columns *)

\* r has the n fields of m and g, and no other.
SameFields(m, n, g, r) ==
    /\ r \in Seq(Range(r)) /\ Len(r) = n + 1
    /\ \A i \in 1..(n + 1) : r[i] = g \/ \E j \in 1..n : r[i] = m[j]
    /\ \E i \in 1..(n + 1) : r[i] = g
    /\ \A j \in 1..n : \E i \in 1..(n + 1) : r[i] = m[j]

\* sort neither loses nor invents a field.
LEMMA SortKeeps ==
  ASSUME NEW m, m \in Seq(Range(m)), NEW g, NEW r, r \in ByOffset(Append(m, g)), NEW n \in Nat, n = Len(m)
  PROVE  SameFields(m, n, g, r)
<1>1. PICK s : s = Append(m, g)
  OBVIOUS
<1>2. DOMAIN s = 1..(n + 1) /\ s[n + 1] = g /\ \A j \in 1..n : s[j] = m[j]
  BY <1>1
<1>3. PICK q \in Bijection(DOMAIN s, DOMAIN s) : r = [i \in DOMAIN s |-> s[q[i]]]
  BY <1>1, Zenon DEF ByOffset
<1>4. q \in [1..(n + 1) -> 1..(n + 1)] /\ \A j \in 1..(n + 1) : \E i \in 1..(n + 1) : q[i] = j
  BY <1>2, <1>3, Zenon DEF Bijection, Surjection
<1>5. DOMAIN r = 1..(n + 1) /\ \A i \in 1..(n + 1) : r[i] = s[q[i]]
  BY <1>2, <1>3, Zenon
<1>6. r \in [1..(n + 1) -> Range(r)]
  <2>1. r = [i \in 1..(n + 1) |-> r[i]]
    BY <1>2, <1>3
  <2> QED BY <1>5, <2>1 DEF Range
<1>7. r \in Seq(Range(r)) /\ Len(r) = n + 1
  BY <1>6
<1>8. \A k \in 1..(n + 1) : k = n + 1 \/ k \in 1..n
  OBVIOUS
<1>9. \A i \in 1..(n + 1) : r[i] = g \/ \E j \in 1..n : r[i] = m[j]
  <2> TAKE i \in 1..(n + 1)
  <2>1. q[i] \in 1..(n + 1)
    BY <1>4
  <2>2. r[i] = s[q[i]]
    BY <1>5, Zenon
  <2>3. CASE q[i] = n + 1
    BY <1>2, <2>2, <2>3
  <2>4. CASE q[i] \in 1..n
    BY <1>2, <2>2, <2>4
  <2> QED BY <1>8, <2>1, <2>3, <2>4
<1>10. n + 1 \in 1..(n + 1) /\ \A j \in 1..n : j \in 1..(n + 1)
  OBVIOUS
<1>11. \E i \in 1..(n + 1) : r[i] = g
  <2>1. PICK i \in 1..(n + 1) : q[i] = n + 1
    BY <1>4, <1>10
  <2>2. r[i] = s[q[i]]
    BY <1>5
  <2> QED BY <1>2, <2>1, <2>2
<1>12. \A j \in 1..n : \E i \in 1..(n + 1) : r[i] = m[j]
  <2> TAKE j \in 1..n
  <2>1. PICK i \in 1..(n + 1) : q[i] = j
    BY <1>4, <1>10
  <2>2. r[i] = s[q[i]]
    BY <1>5
  <2> QED BY <1>2, <2>1, <2>2
<1> QED BY <1>7, <1>9, <1>11, <1>12, Zenon DEF SameFields

\* The n fields in m are those of the first n columns.
Collected(cs, m, n) ==
    /\ m \in Seq(Range(m)) /\ Len(m) = n
    /\ \A k \in 1..n : \E i \in 1..n : MadeFrom(cs[k], m[i])
    /\ \A i \in 1..n : \E k \in 1..n : MadeFrom(cs[k], m[i])

\* One column more.
LEMMA ColumnAdded ==
  ASSUME NEW cs, NEW m, NEW n \in Nat, Collected(cs, m, n),
         NEW g, MadeFrom(cs[n + 1], g), NEW r, r \in ByOffset(Append(m, g))
  PROVE  Collected(cs, r, n + 1)
<1>1. /\ m \in Seq(Range(m)) /\ n = Len(m)
      /\ \A k \in 1..n : \E i \in 1..n : MadeFrom(cs[k], m[i])
      /\ \A i \in 1..n : \E k \in 1..n : MadeFrom(cs[k], m[i])
  BY Zenon DEF Collected
<1>2. SameFields(m, n, g, r)
  BY <1>1, SortKeeps, Zenon
<1>3. /\ r \in Seq(Range(r)) /\ Len(r) = n + 1
      /\ \A i \in 1..(n + 1) : r[i] = g \/ \E j \in 1..n : r[i] = m[j]
      /\ \E i \in 1..(n + 1) : r[i] = g
      /\ \A j \in 1..n : \E i \in 1..(n + 1) : r[i] = m[j]
  BY <1>2, Zenon DEF SameFields
<1>4. /\ n + 1 \in 1..(n + 1) /\ \A j \in 1..n : j \in 1..(n + 1)
      /\ \A k \in 1..(n + 1) : k = n + 1 \/ k \in 1..n
  OBVIOUS
<1>5. \A k \in 1..(n + 1) : \E i \in 1..(n + 1) : MadeFrom(cs[k], r[i])
  <2> TAKE k \in 1..(n + 1)
  <2>1. CASE k = n + 1
    BY <1>3, <2>1, Zenon
  <2>2. CASE k \in 1..n
    <3>1. PICK j \in 1..n : MadeFrom(cs[k], m[j])
      BY <1>1, <2>2, Zenon
    <3>2. PICK i \in 1..(n + 1) : r[i] = m[j]
      BY <1>3, Zenon
    <3> QED BY <3>1, <3>2, Zenon
  <2> QED BY <1>4, <2>1, <2>2, Zenon
<1>6. \A i \in 1..(n + 1) : \E k \in 1..(n + 1) : MadeFrom(cs[k], r[i])
  <2> TAKE i \in 1..(n + 1)
  <2>1. CASE r[i] = g
    BY <1>4, <2>1, Zenon
  <2>2. CASE \E j \in 1..n : r[i] = m[j]
    BY <1>1, <1>4, <2>2, Zenon
  <2> QED BY <1>3, <2>1, <2>2, Zenon
<1> QED BY <1>3, <1>5, <1>6, Zenon DEF Collected

\* A class of the program, and its columns.
LEMMA ClassFacts ==
  ASSUME NEW d \in Classes
  PROVE  /\ Len(d.columns) \in Nat /\ DOMAIN d.columns = 1..Len(d.columns)
         /\ (d.columns = << >> <=> Len(d.columns) = 0)
         /\ \A k \in 1..Len(d.columns) : IsColumn(d.columns[k])
<1>1. IsSequence(d.columns) /\ \A i \in DOMAIN d.columns : IsColumn(d.columns[i])
  BY ClassAssumption, Zenon DEF IsColumn
<1>2. PICK s : s = d.columns /\ s \in Seq(Range(s))
  BY <1>1, Zenon DEF IsSequence
<1>3. Len(s) \in Nat /\ DOMAIN s = 1..Len(s) /\ (s = << >> <=> Len(s) = 0)
  BY <1>2
<1> QED BY <1>1, <1>2, <1>3, Zenon

-----------------------------------------------------------------------------
(* The inductive invariant *)

\* A Model whose class has been chosen, and nothing read.
LEMMA InitInd == Init => IndInv
<1> SUFFICES ASSUME Init PROVE IndInv
  OBVIOUS
<1> USE DEF Init
<1>1. class \in Classes
  BY Zenon
<1>2. /\ Len(class.columns) \in Nat
      /\ (class.columns = << >> <=> Len(class.columns) = 0)
      /\ \A k \in 1..Len(class.columns) : IsColumn(class.columns[k])
  BY <1>1, ClassFacts, Zenon
<1>3. Len(metadata) = 0 /\ metadata \in Seq(Range(metadata))
  BY DEF Range
<1>4. phase \in {"fields", "indices"} /\ (phase = "fields" <=> class.columns # << >>)
  OBVIOUS
<1>5. Len(metadata) < Len(class.columns) <=> class.columns # << >>
  BY <1>2, <1>3
<1>6. PhaseInv
  BY <1>1, <1>4, <1>5 DEF PhaseInv
<1>7. ColumnsInv
  <2>1. Len(metadata) <= Len(class.columns)
    BY <1>2, <1>3
  <2>2. \A i : ~(i \in 1..Len(metadata))
    BY <1>3
  <2> QED BY <1>3, <2>1, <2>2, Zenon DEF ColumnsInv
<1>8. phase = "fields" => FieldInv(Declared, field, tag, word, checkNotNull, checkDefault)
  <2> SUFFICES ASSUME phase = "fields" PROVE FieldInv(Declared, field, tag, word, checkNotNull, checkDefault)
    OBVIOUS
  <2>1. class.columns # << >> /\ field = NewField(class.columns[1])
    BY <1>4
  <2>2. 1 \in 1..Len(class.columns) /\ Len(metadata) + 1 = 1
    BY <1>2, <1>3, <2>1
  <2>3. IsColumn(class.columns[1])
    BY <1>2, <2>2, Zenon
  <2>4. FieldInv(class.columns[1], field, 1, 1, FALSE, FALSE)
    BY <2>1, <2>3, NewFieldInd, Zenon
  <2> QED BY <2>2, <2>4, Zenon DEF Declared
<1>9. phase # "done"
  BY <1>4
<1> QED BY <1>6, <1>7, <1>8, <1>9, Zenon DEF IndInv, IndicesComplete

\* A step inside one field.
LEMMA FieldStep ==
  ASSUME IndInv, AtField, UNCHANGED <<class, metadata, indices, phase>>,
         {checkNotNull', checkDefault'} \subseteq BOOLEAN,
         FieldInv(Declared, field', tag', word', checkNotNull', checkDefault')
  PROVE  IndInv'
<1>1. phase = "fields" /\ phase # "done"
  BY DEF AtField
<1>2. word' = 1 => ~checkNotNull' /\ ~checkDefault'
  BY Zenon DEF FieldInv, FlagsInv
<1>3. PhaseInv'
  BY <1>1, <1>2 DEF IndInv, PhaseInv
<1>4. ColumnsInv'
  BY DEF IndInv, ColumnsInv
<1>5. Declared' = Declared
  BY DEF Declared
<1>6. FieldInv(Declared, field, tag, word, checkNotNull, checkDefault)'
  BY <1>5
<1>7. (phase # "done")'
  BY <1>1
<1> QED BY <1>3, <1>4, <1>6, <1>7 DEF IndInv, IndicesComplete

\* The field in progress and its column.
LEMMA InField ==
  ASSUME IndInv, AtField
  PROVE  /\ FieldInv(Declared, field, tag, word, checkNotNull, checkDefault)
         /\ IsColumn(Declared)
         /\ checkNotNull \in BOOLEAN /\ checkDefault \in BOOLEAN
         /\ Len(metadata) \in Nat /\ Len(metadata) + 1 \in 1..Len(class.columns)
<1>1. class \in Classes /\ phase = "fields" /\ Len(metadata) < Len(class.columns)
  BY Zenon DEF IndInv, PhaseInv, AtField
<1>2. Len(class.columns) \in Nat /\ \A k \in 1..Len(class.columns) : IsColumn(class.columns[k])
  BY <1>1, ClassFacts, Zenon
<1>3. Len(metadata) \in Nat
  BY DEF IndInv, ColumnsInv
<1>4. Len(metadata) + 1 \in 1..Len(class.columns)
  BY <1>1, <1>2, <1>3
<1>5. IsColumn(Declared)
  BY <1>2, <1>4, Zenon DEF Declared
<1>6. FieldInv(Declared, field, tag, word, checkNotNull, checkDefault)
  BY <1>1, Zenon DEF IndInv
<1>7. checkNotNull \in BOOLEAN /\ checkDefault \in BOOLEAN
  BY DEF IndInv, PhaseInv
<1> QED BY <1>3, <1>4, <1>5, <1>6, <1>7, Zenon

\* name = and type =.
LEMMA KeyValueInd ==
  ASSUME IndInv, KeyValue
  PROVE  IndInv'
<1>1. /\ AtField /\ tag <= Len(Declared.tags) /\ Tag.key # "words" /\ tag' = tag + 1
      /\ UNCHANGED <<class, metadata, indices, phase>>
      /\ word' = word /\ checkNotNull' = checkNotNull /\ checkDefault' = checkDefault
  BY Zenon DEF KeyValue
<1>2. /\ FieldInv(Declared, field, tag, word, checkNotNull, checkDefault) /\ IsColumn(Declared)
      /\ checkNotNull \in BOOLEAN /\ checkDefault \in BOOLEAN
  BY <1>1, InField, Zenon
<1>3. PICK c, f, g : c = Declared /\ f = field /\ g = field'
  OBVIOUS
<1>4. c.tags[tag] = Tag
  BY <1>3, Zenon DEF Tag
<1>5. PICK v, u : v = Strip(Tag.value) /\ u = Tag.value
  OBVIOUS
<1>6. \/ c.tags[tag].key = "name" /\ g = [f EXCEPT !.columnName = v]
      \/ g = [f EXCEPT !.columnType = u]
      \/ g = f
  BY <1>3, <1>4, <1>5, Zenon DEF KeyValue
<1>7. IsField(f)
  BY <1>2, <1>3, Zenon DEF FieldInv
<1>8. /\ IsField(g)
      /\ <<g.fieldName, g.isPk, g.autoInc, g.ignore, g.hasIndex, g.notNull, g.default, g.extra, g.index>>
         = <<f.fieldName, f.isPk, f.autoInc, f.ignore, f.hasIndex, f.notNull, f.default, f.extra, f.index>>
      /\ c.tags[tag].key = "name" \/ g.columnName = f.columnName
  <2>1. CASE c.tags[tag].key = "name" /\ g = [f EXCEPT !.columnName = v]
    BY <1>7, <2>1, SetName
  <2>2. CASE g = [f EXCEPT !.columnType = u]
    BY <1>7, <2>2, SetType
  <2>3. CASE g = f
    BY <1>7, <2>3, Zenon
  <2> QED BY <1>6, <2>1, <2>2, <2>3, Zenon
<1>9. FieldInv(c, g, tag + 1, word, checkNotNull, checkDefault)
  BY <1>1, <1>2, <1>3, <1>4, <1>8, PairInd, Zenon
<1>10. FieldInv(Declared, field', tag', word', checkNotNull', checkDefault')
  BY <1>1, <1>3, <1>9, Zenon
<1>11. {checkNotNull', checkDefault'} \subseteq BOOLEAN
  BY <1>1, <1>2, Zenon
<1> QED BY <1>1, <1>10, <1>11, FieldStep, Zenon

\* From one tag to the next.
LEMMA EndTagIndInv ==
  ASSUME IndInv, EndTag
  PROVE  IndInv'
<1>1. /\ AtField /\ tag <= Len(Declared.tags) /\ Tag.key = "words" /\ word > Len(Tag.value)
      /\ tag' = tag + 1 /\ word' = 1 /\ checkNotNull' = FALSE /\ checkDefault' = FALSE
      /\ field' = field
      /\ UNCHANGED <<class, metadata, indices, phase>>
  BY Zenon DEF EndTag
<1>2. FieldInv(Declared, field, tag, word, checkNotNull, checkDefault) /\ IsColumn(Declared)
  BY <1>1, InField, Zenon
<1>3. AtEnd(Declared, tag, word)
  BY <1>1, Zenon DEF AtEnd, Tag
<1>4. FieldInv(Declared, field, tag + 1, 1, FALSE, FALSE)
  BY <1>2, <1>3, EndTagInd, Zenon
<1>5. FieldInv(Declared, field', tag', word', checkNotNull', checkDefault')
  BY <1>1, <1>4, Zenon
<1>6. {checkNotNull', checkDefault'} \subseteq BOOLEAN
  BY <1>1, Zenon
<1> QED BY <1>1, <1>5, <1>6, FieldStep, Zenon

\* The three index words.
LEMMA IndexTypes ==
  /\ DOMAIN IndexType = {"pk", "index", "unique"}
  /\ \A x \in DOMAIN IndexType : IndexType[x] \in {"PRI", "MUL", "UNI"} /\ (IndexType[x] = "PRI" <=> x = "pk")
  BY DEF IndexType

\* What a word that is read as itself makes of f.
PlainResult(f, x) ==
    CASE x \in DOMAIN IndexType -> WithIndex(f, IndexType[x], getColumnName(f))
      [] x = "auto_increment" -> [f EXCEPT !.autoInc = TRUE]
      [] x = "ignore" -> [f EXCEPT !.ignore = TRUE]
      [] x \in {"not", "default"} -> f
      [] OTHER -> WithExtra(f, Append(f.extra, x))

\* A word that no flag is waiting for.
LEMMA PlainWord ==
  ASSUME NEW f, IsField(f), NEW x, NEW nn, NEW nn2, NEW dv2, ~(nn /\ x = "null"),
         nn2 <=> nn \/ x = "not", dv2 <=> x = "default", NEW g,
         g = PlainResult(f, x)
  PROVE  Taken(f, x, nn, FALSE, g, nn2, dv2)
<1>1. CASE x \in DOMAIN IndexType
  <2>1. x \in {"pk", "index", "unique"} /\ IndexType[x] \in {"PRI", "MUL", "UNI"} /\ (IndexType[x] = "PRI" <=> x = "pk")
    BY <1>1, IndexTypes, Zenon
  <2>2. x # "auto_increment" /\ x # "ignore" /\ ~(x \in {"not", "default"}) /\ x # "not" /\ x # "default"
    BY <2>1
  <2>3. PICK type, name : type = IndexType[x] /\ name = getColumnName(f)
    OBVIOUS
  <2>4. g = WithIndex(f, type, name)
    BY <1>1, <2>2, <2>3, Zenon DEF PlainResult
  <2>5. type \in {"PRI", "MUL", "UNI"} /\ (type = "PRI" <=> x = "pk")
    BY <2>1, <2>3, Zenon
  <2>6. /\ IsField(g)
        /\ g.hasIndex /\ g.index.type = type /\ g.index.columns = Append(f.index.columns, name)
        /\ g.isPk <=> f.isPk \/ type = "PRI"
        /\ <<g.fieldName, g.columnName, g.autoInc, g.ignore, g.notNull, g.default, g.extra>>
           = <<f.fieldName, f.columnName, f.autoInc, f.ignore, f.notNull, f.default, f.extra>>
    <3>1. IndexSet(f, g, type, name)
      BY <2>4, <2>5, SetIndex, Zenon
    <3> QED BY <3>1, Zenon DEF IndexSet
  <2>7. WordEffect(f, x, nn, FALSE, g, nn2, dv2)
    BY <2>1, <2>2, <2>5, <2>6, Zenon DEF WordEffect
  <2> QED BY <1>1, <2>3, <2>6, <2>7, Zenon DEF Taken
<1>2. CASE x = "auto_increment"
  <2>1. ~(x \in DOMAIN IndexType) /\ ~(x \in {"pk", "index", "unique"}) /\ x # "ignore"
        /\ ~(x \in {"not", "default"}) /\ x # "not" /\ x # "default"
    BY <1>2, IndexTypes
  <2>2. g = [f EXCEPT !.autoInc = TRUE]
    BY <1>2, <2>1, Zenon DEF PlainResult
  <2>3. /\ IsField(g) /\ g.autoInc
        /\ <<g.fieldName, g.columnName, g.isPk, g.ignore, g.hasIndex, g.notNull, g.default, g.extra, g.index>>
           = <<f.fieldName, f.columnName, f.isPk, f.ignore, f.hasIndex, f.notNull, f.default, f.extra, f.index>>
    BY <2>2, SetAutoInc, Zenon
  <2>4. WordEffect(f, x, nn, FALSE, g, nn2, dv2)
    BY <1>2, <2>1, <2>3, Zenon DEF WordEffect
  <2> QED BY <2>3, <2>4, Zenon DEF Taken
<1>3. CASE x = "ignore"
  <2>1. ~(x \in DOMAIN IndexType) /\ ~(x \in {"pk", "index", "unique"}) /\ x # "auto_increment"
        /\ ~(x \in {"not", "default"}) /\ x # "not" /\ x # "default"
    BY <1>3, IndexTypes
  <2>2. g = [f EXCEPT !.ignore = TRUE]
    BY <1>3, <2>1, Zenon DEF PlainResult
  <2>3. /\ IsField(g) /\ g.ignore
        /\ <<g.fieldName, g.columnName, g.isPk, g.autoInc, g.hasIndex, g.notNull, g.default, g.extra, g.index>>
           = <<f.fieldName, f.columnName, f.isPk, f.autoInc, f.hasIndex, f.notNull, f.default, f.extra, f.index>>
    BY <2>2, SetIgnore, Zenon
  <2>4. WordEffect(f, x, nn, FALSE, g, nn2, dv2)
    BY <1>3, <2>1, <2>3, Zenon DEF WordEffect
  <2> QED BY <2>3, <2>4, Zenon DEF Taken
<1>4. CASE x \in {"not", "default"}
  <2>1. ~(x \in DOMAIN IndexType) /\ ~(x \in {"pk", "index", "unique"}) /\ x # "auto_increment" /\ x # "ignore"
    BY <1>4, IndexTypes
  <2>2. g = f
    BY <1>4, <2>1, Zenon DEF PlainResult
  <2>3. WordEffect(f, x, nn, FALSE, g, nn2, dv2)
    BY <1>4, <2>1, <2>2, Zenon DEF WordEffect
  <2> QED BY <2>2, <2>3, Zenon DEF Taken
<1>5. CASE ~(x \in DOMAIN IndexType) /\ x # "auto_increment" /\ x # "ignore" /\ ~(x \in {"not", "default"})
  <2>1. ~(x \in {"pk", "index", "unique"}) /\ x # "not" /\ x # "default"
    BY <1>5, IndexTypes
  <2>2. PICK e : e = Append(f.extra, x)
    OBVIOUS
  <2>3. g = WithExtra(f, e)
    BY <1>5, <2>1, <2>2, Zenon DEF PlainResult
  <2>4. /\ IsField(g)
        /\ <<g.fieldName, g.columnName, g.isPk, g.autoInc, g.ignore, g.hasIndex, g.notNull, g.default, g.index>>
           = <<f.fieldName, f.columnName, f.isPk, f.autoInc, f.ignore, f.hasIndex, f.notNull, f.default, f.index>>
    BY <2>3, SetExtra
  <2>5. WordEffect(f, x, nn, FALSE, g, nn2, dv2)
    BY <1>5, <2>1, <2>4, Zenon DEF WordEffect
  <2> QED BY <2>4, <2>5, Zenon DEF Taken
<1> QED BY <1>1, <1>2, <1>3, <1>4, <1>5, Zenon

\* A word behind default, and null behind not.
LEMMA DefaultTaken ==
  ASSUME NEW f, IsField(f), NEW x, NEW nn, NEW dv, dv, NEW g, g = [f EXCEPT !.default = x]
  PROVE  Taken(f, x, nn, dv, g, nn, dv)
<1>1. /\ IsField(g) /\ g.default = x
      /\ <<g.fieldName, g.columnName, g.isPk, g.autoInc, g.ignore, g.hasIndex, g.notNull, g.extra, g.index>>
         = <<f.fieldName, f.columnName, f.isPk, f.autoInc, f.ignore, f.hasIndex, f.notNull, f.extra, f.index>>
  BY SetDefault
<1>2. WordEffect(f, x, nn, dv, g, nn, dv)
  BY <1>1, Zenon DEF WordEffect
<1> QED BY <1>1, <1>2, Zenon DEF Taken

\* The null behind a not.
LEMMA NullTaken ==
  ASSUME NEW f, IsField(f), NEW x, NEW nn, NEW dv, ~dv, nn, x = "null", NEW g, g = [f EXCEPT !.notNull = TRUE]
  PROVE  Taken(f, x, nn, dv, g, FALSE, dv)
<1>1. /\ IsField(g) /\ g.notNull
      /\ <<g.fieldName, g.columnName, g.isPk, g.autoInc, g.ignore, g.hasIndex, g.default, g.extra, g.index>>
         = <<f.fieldName, f.columnName, f.isPk, f.autoInc, f.ignore, f.hasIndex, f.default, f.extra, f.index>>
  BY SetNotNull, Zenon
<1>2. WordEffect(f, x, nn, dv, g, FALSE, dv)
  BY <1>1, Zenon DEF WordEffect
<1> QED BY <1>1, <1>2, Zenon DEF Taken

\* The four ways a word is taken.
LEMMA WordCases ==
  ASSUME NEW x, NEW f, NEW g, NEW nn \in BOOLEAN, NEW dv \in BOOLEAN, NEW nn2, NEW dv2, IsField(f),
         \/ dv /\ g = [f EXCEPT !.default = x] /\ nn2 = nn /\ dv2 = dv
         \/ ~dv /\ nn /\ x = "null" /\ g = [f EXCEPT !.notNull = TRUE] /\ nn2 = FALSE /\ dv2 = dv
         \/ /\ ~dv /\ ~(nn /\ x = "null") /\ g = PlainResult(f, x)
            /\ nn2 = (nn \/ x = "not") /\ dv2 = (x = "default")
  PROVE  Taken(f, x, nn, dv, g, nn2, dv2)
<1>1. CASE dv /\ g = [f EXCEPT !.default = x] /\ nn2 = nn /\ dv2 = dv
  BY <1>1, DefaultTaken
<1>2. CASE ~dv /\ nn /\ x = "null" /\ g = [f EXCEPT !.notNull = TRUE] /\ nn2 = FALSE /\ dv2 = dv
  BY <1>2, NullTaken
<1>3. CASE /\ ~dv /\ ~(nn /\ x = "null") /\ g = PlainResult(f, x)
           /\ nn2 = (nn \/ x = "not") /\ dv2 = (x = "default")
  <2>1. (nn2 <=> nn \/ x = "not") /\ (dv2 <=> x = "default") /\ dv = FALSE
    BY <1>3, Zenon
  <2> QED BY <1>3, <2>1, PlainWord, Zenon
<1> QED BY <1>1, <1>2, <1>3, Zenon

\* Any word.
LEMMA WordActionInd ==
  ASSUME IndInv, Word
  PROVE  IndInv'
<1>1. /\ AtField /\ tag <= Len(Declared.tags) /\ Tag.key = "words" /\ word <= Len(Tag.value)
      /\ word' = word + 1 /\ tag' = tag
      /\ UNCHANGED <<class, metadata, indices, phase>>
  BY Zenon DEF Word
<1>2. /\ FieldInv(Declared, field, tag, word, checkNotNull, checkDefault) /\ IsColumn(Declared)
      /\ checkNotNull \in BOOLEAN /\ checkDefault \in BOOLEAN
  BY <1>1, InField, Zenon
<1>3. PICK c, f, g : c = Declared /\ f = field /\ g = field'
  OBVIOUS
<1>4. PICK x : x = Tag.value[word]
  OBVIOUS
<1>5. PICK nn, dv, nn2, dv2 :
         nn = checkNotNull /\ dv = checkDefault /\ nn2 = checkNotNull' /\ dv2 = checkDefault'
  OBVIOUS
<1>6. c.tags[tag] = Tag /\ IsField(f)
  BY <1>2, <1>3, Zenon DEF Tag, FieldInv
<1>7. \/ dv /\ g = [f EXCEPT !.default = x] /\ nn2 = nn /\ dv2 = dv
      \/ ~dv /\ nn /\ x = "null" /\ g = [f EXCEPT !.notNull = TRUE] /\ nn2 = FALSE /\ dv2 = dv
      \/ /\ ~dv /\ ~(nn /\ x = "null") /\ g = PlainResult(f, x)
         /\ nn2 = (nn \/ x = "not") /\ dv2 = (x = "default")
  BY <1>3, <1>4, <1>5 DEF Word, PlainResult, Indexed, WithIndex, WithExtra
<1>8. nn \in BOOLEAN /\ dv \in BOOLEAN
  BY <1>2, <1>5, Zenon
<1>9. Taken(f, x, nn, dv, g, nn2, dv2)
  BY <1>6, <1>7, <1>8, WordCases
<1>10. FieldInv(c, g, tag, word + 1, nn2, dv2)
  BY <1>1, <1>2, <1>3, <1>4, <1>5, <1>6, <1>9, WordInd, Zenon
<1>11. FieldInv(Declared, field', tag', word', checkNotNull', checkDefault')
  BY <1>1, <1>3, <1>5, <1>10, Zenon
<1>12. {checkNotNull', checkDefault'} \subseteq BOOLEAN
  BY <1>5, <1>7, <1>8
<1> QED BY <1>1, <1>11, <1>12, FieldStep, Zenon

\* The field is appended to metadata, which sort then reorders.
LEMMA EndFieldInd ==
  ASSUME IndInv, EndField
  PROVE  IndInv'
<1>1. /\ AtField /\ tag > Len(Declared.tags) /\ tag' = 1
      /\ class' = class /\ word' = word /\ checkNotNull' = checkNotNull /\ checkDefault' = checkDefault
      /\ field' = IF Len(metadata) + 1 < Len(class.columns)
                  THEN NewField(class.columns[Len(metadata) + 2]) ELSE << >>
      /\ phase' = IF Len(metadata) + 1 < Len(class.columns) THEN "fields" ELSE "indices"
  BY Zenon DEF EndField
<1>2. /\ FieldInv(Declared, field, tag, word, checkNotNull, checkDefault) /\ IsColumn(Declared)
      /\ checkNotNull \in BOOLEAN /\ checkDefault \in BOOLEAN
      /\ Len(metadata) \in Nat /\ Len(metadata) + 1 \in 1..Len(class.columns)
  BY <1>1, InField, Zenon
<1>3. /\ class \in Classes /\ metadata \in Seq(Range(metadata))
      /\ \A k \in 1..Len(metadata) : \E i \in 1..Len(metadata) : MadeFrom(class.columns[k], metadata[i])
      /\ \A i \in 1..Len(metadata) : \E k \in 1..Len(metadata) : MadeFrom(class.columns[k], metadata[i])
  BY Zenon DEF IndInv, PhaseInv, ColumnsInv
<1>4. Len(class.columns) \in Nat /\ \A k \in 1..Len(class.columns) : IsColumn(class.columns[k])
  BY <1>3, ClassFacts, Zenon
<1>5. PICK n \in Nat : n = Len(metadata)
  BY <1>2, Zenon
<1>6. PICK f, cs, m : f = field /\ cs = class.columns /\ m = metadata
  OBVIOUS
<1>7. PICK g : /\ g = [f EXCEPT !.ignore = @ \/ (f.isPk /\ f.autoInc), !.notNull = @ \/ f.isPk]
               /\ metadata' \in ByOffset(Append(m, g))
  BY <1>6 DEF EndField
<1>8. IsField(f)
  BY <1>2, <1>6, Zenon DEF FieldInv
<1>9. MadeFrom(Declared, g) /\ word = 1
  <2>1. PICK a, b \in BOOLEAN :
            /\ a <=> f.ignore \/ (f.isPk /\ f.autoInc)
            /\ b <=> f.notNull \/ f.isPk
            /\ g = With(f, f.isPk, a, f.hasIndex, b, f.index)
    BY <1>7, <1>8, FinishedRecord
  <2> QED BY <1>1, <1>2, <1>6, <2>1, FinishedInd
<1>10. MadeFrom(cs[n + 1], g)
  BY <1>5, <1>6, <1>9, Zenon DEF Declared
<1>11. PICK r : r = metadata'
  OBVIOUS
<1>12. /\ r \in Seq(Range(r)) /\ Len(r) = n + 1
       /\ \A k \in 1..(n + 1) : \E i \in 1..(n + 1) : MadeFrom(cs[k], r[i])
       /\ \A i \in 1..(n + 1) : \E k \in 1..(n + 1) : MadeFrom(cs[k], r[i])
  <2>1. Collected(cs, m, n)
    BY <1>3, <1>5, <1>6, Zenon DEF Collected
  <2>2. Collected(cs, r, n + 1)
    BY <1>7, <1>10, <1>11, <2>1, ColumnAdded, Zenon
  <2> QED BY <2>2, Zenon DEF Collected
<1>13. n + 1 <= Len(class.columns)
  BY <1>2, <1>4, <1>5
<1>14. ColumnsInv'
  BY <1>1, <1>6, <1>11, <1>12, <1>13, Zenon DEF ColumnsInv
<1>15. /\ phase' \in {"fields", "indices"}
       /\ phase' = "fields" <=> n + 1 < Len(class.columns)
  BY <1>1, <1>5
<1>16. ~checkNotNull /\ ~checkDefault
  BY <1>9, Zenon DEF IndInv, PhaseInv
<1>17. PhaseInv'
  BY <1>1, <1>2, <1>3, <1>9, <1>11, <1>12, <1>15, <1>16 DEF PhaseInv
<1>18. ASSUME phase' = "fields"
       PROVE  FieldInv(Declared', field', tag', word', checkNotNull', checkDefault')
  <2>1. n + 1 < Len(class.columns) /\ field' = NewField(class.columns[n + 2])
    BY <1>1, <1>5, <1>15, <1>18
  <2>2. n + 2 \in 1..Len(class.columns) /\ (n + 1) + 1 = n + 2
    BY <1>4, <2>1
  <2>3. Declared' = class.columns[n + 2]
    BY <1>1, <1>11, <1>12, <2>2, Zenon DEF Declared
  <2>4. IsColumn(class.columns[n + 2])
    BY <1>4, <2>2, Zenon
  <2>5. FieldInv(class.columns[n + 2], field', 1, 1, FALSE, FALSE)
    BY <2>1, <2>4, NewFieldInd, Zenon
  <2>6. checkNotNull' = FALSE /\ checkDefault' = FALSE
    BY <1>1, <1>2, <1>16
  <2> QED BY <1>1, <1>9, <2>3, <2>5, <2>6, Zenon
<1>19. (phase # "done")'
  BY <1>15
<1> QED BY <1>14, <1>17, <1>18, <1>19, Zenon DEF IndInv, IndicesComplete

-----------------------------------------------------------------------------
(* The collection of indices *)

\* The only element of a set is its maximum.
LEMMA MaxOfOne ==
  ASSUME NEW i \in Nat
  PROVE  Max({i}) = i
<1>1. \E x \in {i} : \A y \in {i} : x >= y
  OBVIOUS
<1>2. Max({i}) \in {i}
  BY <1>1, Zenon DEF Max
<1> QED BY <1>2, Zenon

\* The indices of one name: of the macros, and of the tags.
DeclaredAs(d, n) == {i \in DOMAIN d.indices : d.indices[i].name = n}
TaggedAs(m, n) == {i \in DOMAIN m : m[i].hasIndex /\ IndexName(m[i]) = n}

Names(d, m) ==
    {d.indices[i].name : i \in DOMAIN d.indices}
    \cup {IndexName(m[i]) : i \in {j \in DOMAIN m : m[j].hasIndex}}

IndexOf(d, m, n) ==
    IF TaggedAs(m, n) # {} THEN m[Max(TaggedAs(m, n))].index
    ELSE [type |-> d.indices[Max(DeclaredAs(d, n))].type,
          columns |-> d.indices[Max(DeclaredAs(d, n))].columns]

\* The fields of a class written as documented: an index over the column, and no two
\* of one name.
LEMMA IndexNames ==
  ASSUME IndInv, phase # "fields", Documented, NEW i \in DOMAIN metadata
  PROVE  /\ IndexName(metadata[i]) = IF metadata[i].isPk THEN Primary ELSE getColumnName(metadata[i])
         /\ metadata[i].hasIndex => metadata[i].index.columns = <<getColumnName(metadata[i])>>
<1>1. /\ class \in Classes /\ metadata \in Seq(Range(metadata)) /\ Len(metadata) <= Len(class.columns)
      /\ \A j \in 1..Len(metadata) : \E k \in 1..Len(metadata) : MadeFrom(class.columns[k], metadata[j])
  BY Zenon DEF IndInv, PhaseInv, ColumnsInv
<1>2. Len(metadata) \in Nat /\ DOMAIN metadata = 1..Len(metadata)
  BY <1>1
<1>3. PICK k \in 1..Len(metadata) : MadeFrom(class.columns[k], metadata[i])
  BY <1>1, <1>2, Zenon
<1>4. Len(class.columns) \in Nat /\ DOMAIN class.columns = 1..Len(class.columns)
  BY <1>1, ClassFacts, Zenon
<1>5. k \in DOMAIN class.columns
  BY <1>1, <1>2, <1>4
<1>6. NameFirst(class.columns[k]) /\ OneIndex(class.columns[k])
  BY <1>5, Zenon DEF Documented
<1>7. /\ metadata[i].isPk <=> metadata[i].index.type = "PRI"
      /\ metadata[i].index.columns = IF metadata[i].hasIndex THEN <<getColumnName(metadata[i])>> ELSE << >>
  BY <1>3, <1>6, Zenon DEF MadeFrom, IndexInv
<1> QED BY <1>7, Zenon DEF IndexName

\* The name an index of a field goes by.
NameOf(m, i) == IF m[i].isPk THEN Primary ELSE getColumnName(m[i])

\* ix has the indices declared, and no other.
AsDeclared(d, m, ix) ==
    /\ \A i \in DOMAIN m : m[i].hasIndex =>
          /\ NameOf(m, i) \in DOMAIN ix
          /\ ix[NameOf(m, i)].columns = <<getColumnName(m[i])>>
          /\ ix[NameOf(m, i)].type = m[i].index.type
    /\ \A i \in DOMAIN d.indices :
          /\ d.indices[i].name \in DOMAIN ix
          /\ ix[d.indices[i].name].columns = d.indices[i].columns
    /\ \A n \in DOMAIN ix :
          \/ \E i \in DOMAIN d.indices : d.indices[i].name = n
          \/ \E i \in DOMAIN m : m[i].hasIndex /\ NameOf(m, i) = n

\* Where no two indices have one name, none overwrites another.
LEMMA IndicesCollected ==
  ASSUME IndInv, phase # "fields", Documented, NEW d, d = class, NEW m, m = metadata,
         NEW ix, ix = [n \in Names(d, m) |-> IndexOf(d, m, n)]
  PROVE  AsDeclared(d, m, ix)
<1>1. \A i \in DOMAIN m : /\ IndexName(m[i]) = NameOf(m, i)
                          /\ m[i].hasIndex => m[i].index.columns = <<getColumnName(m[i])>>
  BY IndexNames, Zenon DEF NameOf
<1>2. DOMAIN m \subseteq Nat /\ DOMAIN d.indices \subseteq Nat
  <2>1. m \in Seq(Range(m)) /\ class \in Classes
    BY Zenon DEF IndInv, PhaseInv, ColumnsInv
  <2>2. DOMAIN m = 1..Len(m) /\ Len(m) \in Nat
    BY <2>1
  <2>3. PICK s : s = d.indices /\ s \in Seq(Range(s))
    BY <2>1, ClassAssumption, Zenon DEF IsSequence
  <2>4. DOMAIN s = 1..Len(s) /\ Len(s) \in Nat
    BY <2>3
  <2>5. \A l \in Nat : 1..l \subseteq Nat
    OBVIOUS
  <2> QED BY <2>2, <2>3, <2>4, <2>5, Zenon
<1>3. DOMAIN ix = Names(d, m) /\ \A n \in Names(d, m) : ix[n] = IndexOf(d, m, n)
  BY Zenon
<1>4. ASSUME NEW i \in DOMAIN m, m[i].hasIndex
      PROVE  /\ NameOf(m, i) \in DOMAIN ix
             /\ ix[NameOf(m, i)].columns = <<getColumnName(m[i])>>
             /\ ix[NameOf(m, i)].type = m[i].index.type
  <2>1. NameOf(m, i) \in Names(d, m)
    BY <1>1, <1>4, Zenon DEF Names
  <2>2. ASSUME NEW j \in DOMAIN m, NameOf(m, j) = NameOf(m, i)
        PROVE  j = i
    <3>1. /\ getColumnName(m[i]) # Primary /\ getColumnName(m[j]) # Primary
          /\ i # j => getColumnName(m[i]) # getColumnName(m[j]) /\ ~(m[i].isPk /\ m[j].isPk)
      BY Zenon DEF Documented
    <3>2. /\ NameOf(m, i) = IF m[i].isPk THEN Primary ELSE getColumnName(m[i])
          /\ NameOf(m, j) = IF m[j].isPk THEN Primary ELSE getColumnName(m[j])
      BY Zenon DEF NameOf
    <3> QED BY <2>2, <3>1, <3>2, Zenon
  <2>3. TaggedAs(m, NameOf(m, i)) = {i}
    BY <1>1, <1>4, <2>2, Zenon DEF TaggedAs
  <2>4. Max({i}) = i
    BY <1>2, MaxOfOne, Zenon
  <2>5. {i} # {}
    OBVIOUS
  <2>6. ix[NameOf(m, i)] = m[i].index
    BY <1>3, <2>1, <2>3, <2>4, <2>5, Zenon DEF IndexOf
  <2> QED BY <1>1, <1>3, <1>4, <2>1, <2>6, Zenon
<1>5. ASSUME NEW i \in DOMAIN d.indices
      PROVE  /\ d.indices[i].name \in DOMAIN ix
             /\ ix[d.indices[i].name].columns = d.indices[i].columns
  <2>1. PICK n : n = d.indices[i].name
    OBVIOUS
  <2>2. n \in Names(d, m)
    BY <2>1, Zenon DEF Names
  <2>3. ASSUME NEW j \in DOMAIN m PROVE IndexName(m[j]) # n
    <3>1. n # Primary /\ n # getColumnName(m[j])
      BY <2>1, Zenon DEF Documented
    <3> QED BY <3>1, Zenon DEF IndexName
  <2>4. TaggedAs(m, n) = {}
    BY <2>3, Zenon DEF TaggedAs
  <2>5. DeclaredAs(d, n) = {i}
    <3>1. \A j \in DOMAIN d.indices : d.indices[j].name = n => j = i
      BY <2>1, Zenon DEF Documented
    <3> QED BY <2>1, <3>1, Zenon DEF DeclaredAs
  <2>6. Max({i}) = i
    BY <1>2, MaxOfOne, Zenon
  <2>7. ix[n] = [type |-> d.indices[i].type, columns |-> d.indices[i].columns]
    BY <1>3, <2>2, <2>4, <2>5, <2>6, Zenon DEF IndexOf
  <2>8. ix[n].columns = d.indices[i].columns
    BY <2>7
  <2> QED BY <1>3, <2>1, <2>2, <2>8, Zenon
<1>6. ASSUME NEW n \in DOMAIN ix
      PROVE  \/ \E i \in DOMAIN d.indices : d.indices[i].name = n
             \/ \E i \in DOMAIN m : m[i].hasIndex /\ NameOf(m, i) = n
  BY <1>1, <1>3, Zenon DEF Names
<1> QED BY <1>4, <1>5, <1>6, Zenon DEF AsDeclared

\* Model's constructor collects the indices.
LEMMA CollectIndicesInd ==
  ASSUME IndInv, CollectIndices
  PROVE  IndInv'
<1>1. /\ phase = "indices" /\ phase' = "done"
      /\ UNCHANGED <<class, metadata, field, tag, word, checkNotNull, checkDefault>>
  BY Zenon DEF CollectIndices
<1>2. phase # "fields" /\ phase' # "fields"
  BY <1>1
<1>3. PhaseInv'
  BY <1>1, <1>2 DEF IndInv, PhaseInv
<1>4. ColumnsInv'
  BY <1>1 DEF IndInv, ColumnsInv
<1>5. PICK d, m, ix : d = class /\ m = metadata /\ ix = indices'
  OBVIOUS
<1>6. ix = [n \in Names(d, m) |-> IndexOf(d, m, n)]
  BY <1>5, Zenon DEF CollectIndices, Names, IndexOf, TaggedAs, DeclaredAs
<1>7. Documented => AsDeclared(d, m, ix)
  BY <1>2, <1>5, <1>6, IndicesCollected, Zenon
<1>8. Documented' <=> Documented
  BY <1>1, Zenon DEF Documented
<1>9. IndicesComplete'
  BY <1>1, <1>5, <1>7, <1>8, Zenon DEF IndicesComplete, AsDeclared, NameOf
<1> QED BY <1>2, <1>3, <1>4, <1>9, Zenon DEF IndInv

\* Every step of the two constructors preserves the invariant.
LEMMA NextInd == IndInv /\ [Next]_vars => IndInv'
<1> SUFFICES ASSUME IndInv, [Next]_vars PROVE IndInv'
  OBVIOUS
<1>1. CASE UNCHANGED vars
  BY <1>1 DEF vars, IndInv, PhaseInv, ColumnsInv, Declared, IndicesComplete, Documented
<1> QED BY <1>1, KeyValueInd, WordActionInd, EndTagIndInv, EndFieldInd, CollectIndicesInd, Zenon
        DEF Next, Finished

\* The inductive invariant holds of every declaration: what was read of the tags so
\* far is what the field under construction says.
THEOREM Inductive == Spec => []IndInv
<1> QED BY InitInd, NextInd, PTL DEF Spec

\* FieldMeta's constructor and Model's: an index type is read only where one was
\* written, for any tags and words in any order.
THEOREM TypeCorrect == Spec => []TypeOK
<1>1. IndInv => TypeOK
  <2> SUFFICES ASSUME IndInv PROVE TypeOK
    OBVIOUS
  <2>1. /\ metadata \in Seq(Range(metadata))
        /\ \A i \in 1..Len(metadata) : \E k \in 1..Len(metadata) : MadeFrom(class.columns[k], metadata[i])
    BY Zenon DEF IndInv, ColumnsInv
  <2>2. DOMAIN metadata = 1..Len(metadata)
    BY <2>1
  <2>3. \A i \in DOMAIN metadata : IsField(metadata[i])
    BY <2>1, <2>2, Zenon DEF MadeFrom
  <2>4. \A i \in DOMAIN metadata : metadata[i].hasIndex <=> metadata[i].index.type # "unset"
    BY <2>3, Zenon DEF IsField
  <2>5. checkNotNull \in BOOLEAN /\ checkDefault \in BOOLEAN /\ phase \in {"fields", "indices", "done"}
    BY DEF IndInv, PhaseInv
  <2> QED BY <2>4, <2>5, Zenon DEF TypeOK
<1> QED BY <1>1, Inductive, PTL

\* Whatever class is declared the documented way, Model's constructor collects exactly
\* the indices its macros and tags ask for, each over the column the table will have.
THEOREM IndicesAreComplete == Spec => []IndicesComplete
<1>1. IndInv => IndicesComplete
  BY Zenon DEF IndInv
<1> QED BY <1>1, Inductive, PTL

\* For any number of columns and of tags in any order, FieldMeta's constructor takes
\* each attribute for what it says: neither the flags of a tag nor sort disturb it.
THEOREM AttributesAreIndependent == Spec => []AttributesIndependent
<1>1. IndInv => AttributesIndependent
  <2> SUFFICES ASSUME IndInv, phase = "done" PROVE AttributesIndependent
    BY Zenon DEF AttributesIndependent
  <2>1. phase # "fields"
    OBVIOUS
  <2>2. /\ class \in Classes /\ ~(Len(metadata) < Len(class.columns))
        /\ metadata \in Seq(Range(metadata)) /\ Len(metadata) <= Len(class.columns)
        /\ \A k \in 1..Len(metadata) : \E i \in 1..Len(metadata) : MadeFrom(class.columns[k], metadata[i])
    BY <2>1, Zenon DEF IndInv, PhaseInv, ColumnsInv
  <2>3. Len(class.columns) \in Nat /\ DOMAIN class.columns = 1..Len(class.columns)
    BY <2>2, ClassFacts, Zenon
  <2>4. DOMAIN metadata = 1..Len(metadata) /\ Len(metadata) = Len(class.columns)
    BY <2>2, <2>3
  <2>5. \A k \in DOMAIN class.columns : \E i \in DOMAIN metadata : MadeFrom(class.columns[k], metadata[i])
    BY <2>2, <2>3, <2>4, Zenon
  <2> QED BY <2>5, Zenon DEF AttributesIndependent, MadeFrom, AllOne
<1> QED BY <1>1, Inductive, PTL

=============================================================================

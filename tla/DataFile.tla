------------------------------ MODULE DataFile ------------------------------
(***************************************************************************)
(* The data file of AutoMigrate, models/model_<db>.dat, byte by byte:      *)
(* DataLoader::saveModel appends a model, DataLoader::loadFromFile looks   *)
(* one up with a small state machine.  A char has Base values instead of   *)
(* 256, and a short Base * Base; lengths wrap as they do in the code.      *)
(*                                                                         *)
(* A crash while the file is written leaves a prefix of what was to be     *)
(* written.  The reader does not test its stream: a read that failed       *)
(* leaves its variable as it was, or unset.                                *)
(***************************************************************************)
EXTENDS Integers, Sequences, FiniteSets, SequencesExt

CONSTANTS
    Base,      \* the values of a char
    Models,    \* what programs save: [class, table, columns, indices]
    MaxModels  \* bound: models in one file

ASSUME BaseAssumption == Base % 2 = 0 /\ Base >= 16

\* Markers, the separator and the end of a C string.
HEADER_MARKER == Base - 4
COLUMN_MARKER == Base - 3
INDEX_MARKER == Base - 2
Sep == Base \div 2 - 1
Nul == 0

\* Names are nonempty sequences of bytes that are neither Sep nor Nul.
IsText(s) == \A i \in DOMAIN s : s[i] \in 1..(Sep - 1)
IsName(s) == s # << >> /\ IsText(s)

ASSUME ModelAssumption ==
    \A m \in Models :
        /\ IsName(m.class) /\ IsName(m.table)
        /\ \A i \in DOMAIN m.columns :
              LET c == m.columns[i]
              IN  /\ \A s \in {c.column, c.field, c.dbType, c.cppType} : IsName(s)
                  /\ IsText(c.default) /\ IsText(c.extra)
                  /\ c.flags \in [1..4 -> {0, 1}]
        /\ \A i \in DOMAIN m.indices :
              /\ IsName(m.indices[i].name) /\ m.indices[i].columns # << >>
              /\ \A j \in DOMAIN m.indices : m.indices[i].name = m.indices[j].name => i = j
              /\ \A k \in DOMAIN m.indices[i].columns : IsName(m.indices[i].columns[k])

VARIABLES
    file,      \* the bytes
    saved,     \* history: the models written as a whole
    torn,      \* history: the model whose writing was cut off, if any
    state,     \* the parsing state, "closed" while no load is going on
    stream,    \* the ifstream: [pos, ok]
    marker,    \* the marker read last
    class,     \* the class looked for
    found,     \* its header has been seen
    fieldMeta, \* what the FieldMeta all columns are parsed into still holds
    loaded,    \* the table name, fields and indices loaded so far
    undefined  \* the program has read or written out of bounds

vars == <<file, saved, torn, state, stream, marker, class, found, fieldMeta, loaded, undefined>>

readerVars == <<stream, marker, class, found, fieldMeta, loaded>>

Empty == [default |-> << >>, extra |-> << >>]
NothingLoaded == [table |-> << >>, fields |-> << >>, indices |-> << >>]

Init ==
    /\ file = << >> /\ saved = << >> /\ torn = {}
    /\ state = "closed"
    /\ stream = [pos |-> 0, ok |-> TRUE]
    /\ marker = 0
    /\ class = << >>
    /\ found = FALSE
    /\ fieldMeta = Empty
    /\ loaded = NothingLoaded
    /\ undefined = FALSE

-----------------------------------------------------------------------------
(* Integers of the code *)

Byte(n) == n % Base
Char(n) == LET b == n % Base IN IF b < Base \div 2 THEN b ELSE b - Base
Short(n) == LET b == n % (Base * Base) IN IF b < (Base * Base) \div 2 THEN b ELSE b - Base * Base

\* Faulty variant of ShortBytes: the sign is lost on the high byte.
ShortBytesSigned(n) == <<n % Base, n \div Base>>

ShortBytes(n) == LET b == n % (Base * Base) IN <<b % Base, b \div Base>>

-----------------------------------------------------------------------------
(* Writing *)

Combined(p1, p2) == p1 \o <<Sep>> \o p2

\* ByteArray(len) and a series of fill(): the first part that does not fit and
\* all behind it are left out, and their bytes stay zero.
Fill(len, parts) ==
    LET upTo(k) == FlattenSeq(SubSeq(parts, 1, k))
        filled == upTo(Max({k \in 0..Len(parts) : Len(upTo(k)) <= len}))
    IN  filled \o [i \in 1..(len - Len(filled)) |-> Nul]

HeaderLen(m) == Char(2 + 2 + Len(m.class) + Len(m.table) + 1)

HeaderBytes(m, modelLen) ==
    Fill(HeaderLen(m) + 1,
         <<<<HEADER_MARKER>>, ShortBytes(modelLen), <<Byte(HeaderLen(m))>>,
           <<Byte(Len(m.class) + Len(m.table) + 1)>>, m.table, <<Sep>>, m.class>>)

Flags(f) == 8 * f[1] + 4 * f[2] + 2 * f[3] + f[4]

ColumnLen(c) ==
    Short(2 + Len(Combined(c.column, c.field)) + 1 + Len(Combined(c.dbType, c.cppType))
          + 2 + Len(c.default) + 1 + Len(c.extra))

Prefixed(s) == <<<<Byte(Len(s))>>, s>>

ColumnBytes(c) ==
    Fill(ColumnLen(c),
         <<<<COLUMN_MARKER>>>> \o Prefixed(Combined(c.column, c.field))
         \o Prefixed(Combined(c.dbType, c.cppType)) \o <<<<Flags(c.flags)>>>>
         \o Prefixed(c.default) \o Prefixed(c.extra))

IndexColumns(x) ==
    FoldLeft(LAMBDA s, name : IF s = << >> THEN name ELSE Combined(s, name), << >>, x.columns)

IndexLen(x) == Char(2 + 1 + Len(x.name) + 1 + Len(IndexColumns(x)))

IndexBytes(x) ==
    Fill(IndexLen(x),
         <<<<INDEX_MARKER, x.type>>>> \o Prefixed(x.name) \o Prefixed(IndexColumns(x)))

\* model_len is a short that is added to.
ModelLen(m) ==
    FoldLeft(LAMBDA n, x : Short(n + IndexLen(x)),
             FoldLeft(LAMBDA n, c : Short(n + ColumnLen(c)), 0, m.columns), m.indices)

\* A ByteArray of negative length: malloc fails and memset writes to null.
CannotSave(m) ==
    \/ HeaderLen(m) + 1 < 0
    \/ \E i \in DOMAIN m.columns : ColumnLen(m.columns[i]) < 0
    \/ \E i \in DOMAIN m.indices : IndexLen(m.indices[i]) < 0

\* Faulty variant of ModelBytes: the indices are written before the columns.
ModelBytesIndicesFirst(m) ==
    HeaderBytes(m, ModelLen(m))
    \o FlattenSeq([i \in DOMAIN m.indices |-> IndexBytes(m.indices[i])])
    \o FlattenSeq([i \in DOMAIN m.columns |-> ColumnBytes(m.columns[i])])

ModelBytes(m) ==
    HeaderBytes(m, ModelLen(m))
    \o FlattenSeq([i \in DOMAIN m.columns |-> ColumnBytes(m.columns[i])])
    \o FlattenSeq([i \in DOMAIN m.indices |-> IndexBytes(m.indices[i])])

\* The bytes of every model that can be saved.
Bytes == [m \in {x \in Models : ~CannotSave(x)} |-> ModelBytes(m)]

\* A program saves the models of different classes, one after the other.
CanSave(m) ==
    /\ state = "closed" /\ torn = {}
    /\ Len(saved) < MaxModels
    /\ \A i \in DOMAIN saved : saved[i].class # m.class

Save(m) ==
    /\ CanSave(m)
    /\ \/ m \notin DOMAIN Bytes /\ undefined' = TRUE /\ UNCHANGED <<file, saved>>
       \/ /\ m \in DOMAIN Bytes
          /\ file' = file \o Bytes[m]
          /\ saved' = Append(saved, m)
          /\ UNCHANGED undefined
    /\ UNCHANGED <<torn, state, readerVars>>

\* The process dies while the model is written.
Tear(m) ==
    /\ CanSave(m) /\ m \in DOMAIN Bytes
    /\ \E n \in 0..(Len(Bytes[m]) - 1) : file' = file \o SubSeq(Bytes[m], 1, n)
    /\ torn' = {m}
    /\ UNCHANGED <<saved, state, readerVars, undefined>>

-----------------------------------------------------------------------------
(* Reading: a reader is [pos, ok, len, bad, out].  len is the local variable *)
(* of the parse functions, out what they have read so far.                  *)

Unset == Base  \* the value of a variable that was never written

Reader == [pos |-> stream.pos, ok |-> stream.ok, len |-> Unset, bad |-> FALSE, out |-> << >>]

Available(r, n) == IF r.ok /\ r.pos < Len(file) THEN Min({n, Len(file) - r.pos}) ELSE 0

\* ifs.read(&len, 1)
ReadLen(r) ==
    IF Available(r, 1) = 1 THEN [r EXCEPT !.pos = @ + 1, !.len = Char(file[r.pos + 1])]
    ELSE [r EXCEPT !.ok = FALSE]

\* ByteArray(ifs, len): what cannot be read stays zero.
ReadArray(r) ==
    IF r.len = Unset \/ r.len < 0 THEN [r EXCEPT !.bad = TRUE, !.out = Append(@, << >>)]
    ELSE LET n == Available(r, r.len)
         IN  [r EXCEPT !.pos = @ + n, !.ok = @ /\ n = r.len,
                       !.out = Append(@, [i \in 1..r.len |-> IF i <= n THEN file[r.pos + i] ELSE Nul])]

ReadIfPositive(r, old) == IF r.len > 0 THEN ReadArray(r) ELSE [r EXCEPT !.out = Append(@, old)]

\* A fixed number of bytes, the ones that could not be read unset.
ReadBytes(r, n) ==
    LET k == Available(r, n)
    IN  [r EXCEPT !.pos = @ + k, !.ok = @ /\ k = n,
                  !.out = Append(@, [i \in 1..n |-> IF i <= k THEN file[r.pos + i] ELSE Unset])]

\* Util::split: the nonempty pieces between separators.
Split(s) ==
    LET starts == {i \in DOMAIN s : s[i] # Sep /\ (i = 1 \/ s[i - 1] = Sep)}
        end(i) == Max({j \in i..Len(s) : \A k \in i..j : s[k] # Sep})
    IN  [p \in 1..Cardinality(starts) |->
            LET i == SetToSortSeq(starts, <)[p] IN SubSeq(s, i, end(i))]

\* read_combined takes v[0] and v[1] without looking at the size of v.
Pair(s) == IF Len(Split(s)) >= 2 THEN Split(s) ELSE <<<< >>, << >>>>
NoPair(s) == Len(Split(s)) < 2

Advance(r) == stream' = [pos |-> r.pos, ok |-> r.ok]

Load(c) ==
    /\ state \in {"closed", "PARSE_SUCCESS", "PARSE_FAILED"}
    /\ class' = c
    /\ state' = "PARSE_MARKER"
    /\ stream' = [pos |-> 0, ok |-> TRUE]
    /\ marker' = Unset
    /\ found' = FALSE
    /\ fieldMeta' = Empty
    /\ loaded' = NothingLoaded
    /\ UNCHANGED <<file, saved, torn, undefined>>

parseMarker ==
    /\ state = "PARSE_MARKER"
    /\ \/ /\ Available(stream, 1) = 1
          /\ marker' = file[stream.pos + 1]
          /\ stream' = [stream EXCEPT !.pos = @ + 1]
          /\ state' = "PARSE_FIELD"
       \/ /\ Available(stream, 1) = 0
          /\ stream' = [stream EXCEPT !.ok = FALSE]
          /\ state' = "PARSE_SUCCESS"
          /\ UNCHANGED marker
    /\ UNCHANGED <<file, saved, torn, class, found, fieldMeta, loaded, undefined>>

\* Faulty variant of NextHeader: the break leaves the switch, not the loop.
NextHeaderStays ==
    /\ state = "PARSE_FIELD" /\ marker = HEADER_MARKER /\ found
    /\ UNCHANGED vars

\* The header behind the model looked for ends the search.
NextHeader ==
    /\ state = "PARSE_FIELD" /\ marker = HEADER_MARKER /\ found
    /\ state' = "PARSE_SUCCESS"
    /\ UNCHANGED <<file, saved, torn, readerVars, undefined>>

\* A header: of the model looked for, or of one whose model_len bytes are
\* skipped.  seekg does nothing on a failed stream, and fails before byte 0.
parseHeader ==
    /\ state = "PARSE_FIELD" /\ marker = HEADER_MARKER /\ ~found
    /\ \E fixed \in {ReadBytes(ReadBytes(Reader, 2), 1)} :
       \E r \in {ReadArray(ReadLen(fixed))} :
       LET modelLen == Short(r.out[1][1] + Base * r.out[1][2])
           names == Pair(r.out[3])
           skipTo == r.pos + modelLen
       IN  \/ (r.bad \/ NoPair(r.out[3])) /\ undefined' = TRUE
              /\ UNCHANGED <<state, readerVars>>
           \/ /\ ~r.bad /\ ~NoPair(r.out[3])
              /\ \/ /\ names[2] = class
                    /\ loaded' = [loaded EXCEPT !.table = names[1]]
                    /\ found' = TRUE
                    /\ Advance(r)
                 \/ /\ names[2] # class
                    /\ stream' = IF ~r.ok \/ skipTo < 0 THEN [pos |-> r.pos, ok |-> FALSE]
                                 ELSE [pos |-> skipTo, ok |-> TRUE]
                    /\ UNCHANGED <<loaded, found>>
              /\ state' = "PARSE_MARKER"
              /\ UNCHANGED <<marker, class, fieldMeta, undefined>>
    /\ UNCHANGED <<file, saved, torn>>

\* Faulty variant of MovedFrom: the column is copied into the vector.
Copied(c) == [default |-> c.default, extra |-> c.extra]

\* What push_back(std::move(fieldMeta)) leaves behind.
MovedFrom(c) == Empty

parseColumnField ==
    /\ state = "PARSE_FIELD" /\ marker = COLUMN_MARKER
    /\ \E names \in {ReadArray(ReadLen(Reader))} :
       \E types \in {ReadArray(ReadLen(names))} :
       \E default \in {ReadIfPositive(ReadLen(ReadBytes(types, 1)), fieldMeta.default)} :
       \E r \in {ReadIfPositive(ReadLen(default), fieldMeta.extra)} :
       LET bad == r.bad \/ NoPair(r.out[1]) \/ NoPair(r.out[2])
           flags == r.out[3][1]
           column == [column |-> Pair(r.out[1])[1], field |-> Pair(r.out[1])[2],
                      dbType |-> Pair(r.out[2])[1], cppType |-> Pair(r.out[2])[2],
                      flags |-> [k \in 1..4 |-> IF flags = Unset THEN Unset ELSE (flags \div 2 ^ (4 - k)) % 2],
                      default |-> r.out[4], extra |-> r.out[5]]
       IN  \/ bad /\ undefined' = TRUE /\ UNCHANGED <<state, readerVars>>
           \/ /\ ~bad
              /\ loaded' = [loaded EXCEPT !.fields = Append(@, column)]
              /\ fieldMeta' = MovedFrom(column)
              /\ Advance(r)
              /\ state' = "PARSE_MARKER"
              /\ UNCHANGED <<marker, class, found, undefined>>
    /\ UNCHANGED <<file, saved, torn>>

parseIndexField ==
    /\ state = "PARSE_FIELD" /\ marker = INDEX_MARKER
    /\ \E name \in {ReadArray(ReadLen(ReadBytes(Reader, 1)))} :
       \E r \in {ReadArray(ReadLen(name))} :
       LET index == [type |-> r.out[1][1], name |-> r.out[2], columns |-> Split(r.out[3])]
       IN  \/ r.bad /\ undefined' = TRUE /\ UNCHANGED <<state, readerVars>>
           \/ /\ ~r.bad
              /\ loaded' = [loaded EXCEPT !.indices = Append(@, index)]
              /\ Advance(r)
              /\ state' = "PARSE_MARKER"
              /\ UNCHANGED <<marker, class, found, fieldMeta, undefined>>
    /\ UNCHANGED <<file, saved, torn>>

parseUnknown ==
    /\ state = "PARSE_FIELD"
    /\ marker \notin {HEADER_MARKER, COLUMN_MARKER, INDEX_MARKER}
    /\ state' = "PARSE_FAILED"
    /\ UNCHANGED <<file, saved, torn, readerVars, undefined>>

\* DB::AutoMigrate empties the file before it saves.
Truncate ==
    /\ state \in {"PARSE_SUCCESS", "PARSE_FAILED"}
    /\ file' = << >> /\ saved' = << >> /\ torn' = {}
    /\ state' = "closed"
    /\ stream' = [pos |-> 0, ok |-> TRUE] /\ marker' = 0 /\ class' = << >> /\ found' = FALSE
    /\ fieldMeta' = Empty /\ loaded' = NothingLoaded
    /\ UNCHANGED undefined

ParserStep ==
    \/ parseMarker \/ NextHeader \/ parseHeader \/ parseColumnField \/ parseIndexField
    \/ parseUnknown

Halted == undefined /\ UNCHANGED vars

Next ==
    \/ /\ ~undefined
       /\ \/ \E m \in Models : Save(m) \/ Tear(m) \/ Load(m.class)
          \/ Truncate \/ ParserStep
    \/ Halted

Spec == Init /\ [][Next]_vars /\ WF_vars(~undefined /\ ParserStep)

-----------------------------------------------------------------------------
(* Properties *)

\* Every length the code stores for the model is what it should be.
Fits(m) ==
    /\ Len(m.class) + Len(m.table) + 5 < Base \div 2
    /\ \A i \in DOMAIN m.columns :
          LET c == m.columns[i]
          IN  /\ Len(Combined(c.column, c.field)) < Base \div 2
              /\ Len(Combined(c.dbType, c.cppType)) < Base \div 2
              /\ Len(c.default) < Base \div 2 /\ Len(c.extra) < Base \div 2
    /\ \A i \in DOMAIN m.indices :
          4 + Len(m.indices[i].name) + Len(IndexColumns(m.indices[i])) < Base \div 2
    /\ Len(Bytes[m]) - HeaderLen(m) - 1 < (Base * Base) \div 2

Fitting == {m \in Models : Fits(m)}

AllFit == Range(saved) \cup torn \subseteq Fitting

Done == state \in {"PARSE_SUCCESS", "PARSE_FAILED"}

TypeOK ==
    /\ \A i \in DOMAIN file : file[i] \in 0..(Base - 1)
    /\ state \in {"closed", "PARSE_MARKER", "PARSE_FIELD", "PARSE_SUCCESS", "PARSE_FAILED"}
    /\ stream.pos \in Nat /\ stream.ok \in BOOLEAN
    /\ marker \in 0..Base /\ found \in BOOLEAN /\ undefined \in BOOLEAN
    /\ Cardinality(torn) <= 1

\* A model whose lengths fit and that was written as a whole is loaded exactly,
\* wherever it stands in the file and although the writing of the model behind it
\* was cut off; no class is found that was not saved.
WholeModelsLoad ==
    AllFit =>
        /\ \A i \in DOMAIN saved : class = saved[i].class =>
              /\ ~undefined
              /\ Done => loaded = [table |-> saved[i].table, fields |-> saved[i].columns,
                                   indices |-> saved[i].indices]
        /\ Done /\ (\A m \in Range(saved) \cup torn : m.class # class) => loaded = NothingLoaded

\* The model whose writing was cut off is loaded up to the place of the cut: of
\* what is loaded, only the last item may differ from what was to be written.
CutDamagesLastItem ==
    \A m \in torn : AllFit /\ Done /\ m.class = class =>
        LET items == loaded.fields \o loaded.indices
            written == m.columns \o m.indices
        IN  /\ Len(items) <= Len(written)
            /\ \A i \in 1..(Len(items) - 1) : items[i] = written[i]
            /\ loaded.indices # << >> => Len(loaded.fields) = Len(m.columns)

\* Every load of a file of models whose lengths fit ends, also of one that is cut
\* off: skipping a model goes forward, and the end of the file is noticed.  Beyond
\* the limits model_len may be negative, of which nothing is said.
LoadEnds == AllFit /\ state \in {"PARSE_MARKER", "PARSE_FIELD"} ~> Done \/ undefined

=============================================================================

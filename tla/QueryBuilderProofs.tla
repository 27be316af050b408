------------------------- MODULE QueryBuilderProofs -------------------------
(***************************************************************************)
(* Proofs about QueryBuilder, for any member functions in any order, any   *)
(* argument lists and any heap: no bind value is used after it was freed   *)
(* or freed twice; and, when only kinds the code has a branch for are      *)
(* used, every placeholder is bound to the value written for it.           *)
(***************************************************************************)
EXTENDS QueryBuilder, TLAPS, SequenceTheorems, FiniteSetTheorems

-----------------------------------------------------------------------------
(* Allocation *)

\* SetToSeq lists a finite set without repetition.
LEMMA Listing ==
  ASSUME NEW S, IsFiniteSet(S)
  PROVE  /\ Cardinality(S) \in Nat
         /\ SetToSeq(S) \in [1..Cardinality(S) -> S]
         /\ \A a, b \in 1..Cardinality(S) : SetToSeq(S)[a] = SetToSeq(S)[b] => a = b
<1>1. Cardinality(S) \in Nat /\ ExistsBijection(1..Cardinality(S), S)
  BY FS_CardinalityType
<1>2. \E f \in [1..Cardinality(S) -> S] : IsInjective(f)
  BY <1>1 DEF ExistsBijection, Bijection, Injection
<1>3. SetToSeq(S) \in [1..Cardinality(S) -> S] /\ IsInjective(SetToSeq(S))
  BY <1>2 DEF SetToSeq
<1> QED BY <1>1, <1>3 DEF IsInjective

\* bindVal: a list of values at addresses that were free, no two the same.
Fresh(values) ==
    /\ values \in Seq(BindVals)
    /\ \A k \in DOMAIN values : values[k].addr \in Addresses \ heap
    /\ \A k, l \in DOMAIN values : values[k].addr = values[l].addr => k = l

LEMMA AllocFresh ==
  ASSUME NEW args \in Seq(Kinds), CanAlloc(args)
  PROVE  /\ Fresh(Alloc(args)) /\ DOMAIN Alloc(args) = DOMAIN args
         /\ \A k \in DOMAIN args : Alloc(args)[k].kind = args[k]
<1> DEFINE S == Addresses \ heap
           free == SetToSeq(S)
           values == Alloc(args)
<1>1. IsFiniteSet(S)
  BY AddressAssumption, FS_Difference
<1>2. /\ Cardinality(S) \in Nat /\ free \in [1..Cardinality(S) -> S]
      /\ \A a, b \in 1..Cardinality(S) : free[a] = free[b] => a = b
  BY <1>1, Listing
<1>3. Len(args) \in Nat /\ DOMAIN args = 1..Len(args) /\ \A k \in 1..Len(args) : args[k] \in Kinds
  BY LenProperties
<1>4. DOMAIN args \subseteq 1..Cardinality(S)
  BY <1>2, <1>3 DEF CanAlloc
<1>5. values = [k \in 1..Len(args) |-> [addr |-> free[k], kind |-> args[k]]]
  BY <1>3 DEF Alloc
<1> HIDE DEF values, free
<1>6. \A k \in 1..Len(args) : /\ values[k] \in BindVals /\ values[k].addr = free[k]
                              /\ values[k].addr \in S
  BY <1>2, <1>3, <1>4, <1>5 DEF BindVals
<1>7. values \in Seq(BindVals) /\ DOMAIN values = 1..Len(args)
  <2>1. values \in [1..Len(args) -> BindVals]
    BY <1>5, <1>6
  <2> QED BY <1>3, <2>1, SeqDef
<1>8. \A k, l \in DOMAIN values : values[k].addr = values[l].addr => k = l
  <2> SUFFICES ASSUME NEW k \in 1..Len(args), NEW l \in 1..Len(args),
                      values[k].addr = values[l].addr
               PROVE  k = l
    BY <1>7
  <2>1. free[k] = free[l]
    BY <1>6
  <2>2. k \in 1..Cardinality(S) /\ l \in 1..Cardinality(S)
    BY <1>3, <1>4
  <2> QED BY <1>2, <2>1, <2>2
<1>9. \A k \in 1..Len(args) : values[k].kind = args[k]
  BY <1>5
<1>10. Fresh(values)
  BY <1>6, <1>7, <1>8 DEF Fresh
<1> QED BY <1>3, <1>7, <1>10, <1>9 DEF values

\* Facts about the lists of bind values.
LEMMA ValuesTyped ==
  ASSUME NEW values \in Seq(BindVals)
  PROVE  /\ Len(values) \in Nat /\ DOMAIN values = 1..Len(values)
         /\ \A k \in DOMAIN values : values[k].addr \in Addresses /\ values[k].kind \in Kinds
<1>1. \A k \in DOMAIN values : values[k] \in BindVals
  BY LenProperties
<1>2. Len(values) \in Nat /\ DOMAIN values = 1..Len(values)
  BY LenProperties
<1> QED BY <1>1, <1>2 DEF BindVals

LEMMA Joined ==
  ASSUME NEW v \in Seq(BindVals), NEW w \in Seq(BindVals)
  PROVE  /\ v \o w \in Seq(BindVals)
         /\ DOMAIN (v \o w) = 1..(Len(v) + Len(w))
         /\ \A k \in DOMAIN (v \o w) :
              \/ k \in DOMAIN v /\ (v \o w)[k] = v[k]
              \/ k - Len(v) \in DOMAIN w /\ (v \o w)[k] = w[k - Len(v)]
<1>1. /\ v \o w \in Seq(BindVals) /\ Len(v \o w) = Len(v) + Len(w)
      /\ \A k \in 1..(Len(v) + Len(w)) :
           (v \o w)[k] = IF k <= Len(v) THEN v[k] ELSE w[k - Len(v)]
  BY ConcatProperties
<1>2. /\ Len(v) \in Nat /\ Len(w) \in Nat /\ DOMAIN v = 1..Len(v) /\ DOMAIN w = 1..Len(w)
      /\ DOMAIN (v \o w) = 1..(Len(v) + Len(w))
  BY <1>1, LenProperties
<1>3. \A k \in 1..(Len(v) + Len(w)) :
        IF k <= Len(v) THEN k \in 1..Len(v) ELSE k - Len(v) \in 1..Len(w)
  BY <1>2
<1> QED BY <1>1, <1>2, <1>3

-----------------------------------------------------------------------------
(* Binding *)

\* The addresses the placeholders stand for.
LEMMA ParamsTyped ==
  ASSUME NEW values \in Seq(BindVals)
  PROVE  /\ [k \in DOMAIN values |-> values[k].addr] \in Seq(Addresses)
         /\ [k \in DOMAIN values |-> values[k].addr] \in Seq(Nat)
         /\ Len([k \in DOMAIN values |-> values[k].addr]) = Len(values)
<1> DEFINE p == [k \in DOMAIN values |-> values[k].addr]
<1>1. /\ Len(values) \in Nat /\ DOMAIN values = 1..Len(values)
      /\ \A k \in DOMAIN values : values[k].addr \in Addresses /\ values[k].addr \in Nat
  BY ValuesTyped, AddressAssumption
<1>2. p \in [1..Len(values) -> Addresses] /\ p \in [1..Len(values) -> Nat]
  BY <1>1
<1> HIDE DEF p
<1>3. p \in Seq(Addresses) /\ p \in Seq(Nat)
  BY <1>1, <1>2, SeqDef
<1>4. Len(p) = Len(values)
  BY <1>1, <1>2, <1>3, LenProperties
<1> QED BY <1>3, <1>4 DEF p

LEMMA BoundTyped ==
  ASSUME NEW values \in Seq(BindVals), NEW n \in Nat
  PROVE  BindParams(values, n) \in Seq(Nat) /\ Len(BindParams(values, n)) = n
<1>1. ASSUME NEW k PROVE BoundTo(values, k) \in Nat
  <2> DEFINE at == {i \in DOMAIN values : values[i].kind \in Bindable /\ Index(values, i) = k}
  <2>1. CASE at = {}
    BY <2>1 DEF BoundTo
  <2>2. CASE at # {}
    <3>1. (CHOOSE i \in at : TRUE) \in at
      BY <2>2
    <3>2. (CHOOSE i \in at : TRUE) \in DOMAIN values
      BY <3>1
    <3>3. values[CHOOSE i \in at : TRUE].addr \in Nat
      BY <3>2, ValuesTyped, AddressAssumption
    <3> QED BY <2>2, <3>3 DEF BoundTo
  <2> QED BY <2>1, <2>2
<1>2. BindParams(values, n) \in [1..n -> Nat]
  BY <1>1 DEF BindParams
<1> HIDE DEF BindParams
<1>3. BindParams(values, n) \in Seq(Nat)
  BY <1>2, SeqDef
<1> QED BY <1>2, <1>3, LenProperties

\* When every value is of a kind bindParams knows, the k-th value goes to the
\* k-th placeholder.
LEMMA BoundInOrder ==
  ASSUME NEW values \in Seq(BindVals), \A k \in DOMAIN values : values[k].kind \in Bindable,
         NEW n \in 0..Len(values)
  PROVE  BindParams(values, n) = [k \in 1..n |-> values[k].addr]
<1>1. Len(values) \in Nat /\ DOMAIN values = 1..Len(values)
  BY ValuesTyped
<1>2. ASSUME NEW i \in DOMAIN values PROVE Index(values, i) = i
  <2>1. \A j \in 1..i : j \in DOMAIN values
    BY <1>1
  <2>2. {j \in 1..i : values[j].kind \in Bindable} = 1..i
    BY <2>1
  <2>3. i \in Int /\ 1 <= i
    BY <1>1
  <2>4. Cardinality(1..i) = i
    BY <2>3, FS_Interval
  <2> QED BY <2>2, <2>4 DEF Index
<1>3. ASSUME NEW k \in DOMAIN values PROVE BoundTo(values, k) = values[k].addr
  <2> DEFINE at == {i \in DOMAIN values : values[i].kind \in Bindable /\ Index(values, i) = k}
  <2>1. at = {k}
    BY <1>2
  <2>2. (CHOOSE i \in at : TRUE) = k
    BY <2>1
  <2> QED BY <2>1, <2>2 DEF BoundTo
<1>4. \A k \in 1..n : k \in DOMAIN values
  BY <1>1
<1> QED BY <1>3, <1>4 DEF BindParams

\* The values without Raw()'s.
LEMMA WrittenTyped ==
  ASSUME TypeOK
  PROVE  Written \in Seq(BindVals) /\ (~RawPending => Written = bindValues)
<1>1. bindValues \in Seq(BindVals) /\ Len(bindValues) \in Nat /\ Len(rawSql) \in Nat
  BY LenProperties DEF TypeOK
<1>2. SubSeq(bindValues, Len(rawSql) + 1, Len(bindValues)) \in Seq(BindVals)
  <2>1. Len(rawSql) + 1 \in 1..(Len(bindValues) + 1) \/ Len(rawSql) + 1 > Len(bindValues)
    BY <1>1
  <2> QED BY <1>1, <2>1, SubSeqProperties
<1> QED BY <1>1, <1>2 DEF Written

\* What a statement over the pending constraints looks like.
LEMMA BuiltTyped ==
  ASSUME NEW values \in Seq(BindVals), NEW written \in Seq(BindVals), NEW valid \in BOOLEAN
  PROVE  /\ Built(valid, values, written) \in Statements
         /\ Len(Built(valid, values, written).bound) <= Len(Built(valid, values, written).params)
         /\ Built(valid, values, written).valid = valid
         /\ Built(valid, values, written).mixed = RawPending
<1>1. PICK p \in Seq(Nat) : p = [k \in DOMAIN written |-> written[k].addr] /\ Len(p) = Len(written)
  BY ParamsTyped
<1>2. Len(written) \in Nat
  BY ValuesTyped
<1>3. PICK m \in Nat : m = (IF valid THEN Len(written) ELSE 0) /\ m <= Len(written)
  BY <1>2
<1>4. PICK b \in Seq(Nat) : b = BindParams(values, m) /\ Len(b) = m
  BY BoundTyped
<1>5. PICK x \in BOOLEAN : x = RawPending
  BY DEF RawPending
<1>6. Built(valid, values, written) = [mixed |-> x, valid |-> valid, params |-> p, bound |-> b]
  BY <1>1, <1>3, <1>4, <1>5 DEF Built, Statement
<1>7. Len(b) <= Len(p)
  BY <1>1, <1>3, <1>4
<1>8. [mixed |-> x, valid |-> valid, params |-> p, bound |-> b] \in Statements
  BY DEF Statements
<1> QED BY <1>5, <1>6, <1>7, <1>8

LEMMA BuiltAsWritten ==
  ASSUME NEW values \in Seq(BindVals), NEW valid \in BOOLEAN,
         \A k \in DOMAIN values : values[k].kind \in Bindable
  PROVE  valid => Built(valid, values, values).bound = Built(valid, values, values).params
<1>1. Len(values) \in 0..Len(values) /\ DOMAIN values = 1..Len(values)
  BY ValuesTyped
<1>2. BindParams(values, Len(values)) = [k \in DOMAIN values |-> values[k].addr]
  BY <1>1, BoundInOrder
<1> QED BY <1>2 DEF Built, Statement

\* Create(): row after row, the fields in their order.
LEMMA InsertedTyped ==
  ASSUME NEW n \in Nat
  PROVE  /\ Inserted(n) \in Statements
         /\ Len(Inserted(n).bound) <= Len(Inserted(n).params)
<1>1. PICK m \in Nat : m = n * Len(FieldKinds)
  BY FieldAssumption, LenProperties
<1> DEFINE field(k) == FieldKinds[((k - 1) % Len(FieldKinds)) + 1]
           p == [k \in 1..m |-> k]
           b == [k \in 1..m |-> IF field(k) \in Creatable THEN k ELSE 0]
           c == IF n > 0 THEN b ELSE << >>
<1>2. Inserted(n) = [mixed |-> FALSE, valid |-> n > 0, params |-> p, bound |-> c]
  BY <1>1 DEF Inserted, Statement
<1>3. p \in [1..m -> Nat] /\ b \in [1..m -> Nat]
  OBVIOUS
<1> HIDE DEF p, b
<1>4. p \in Seq(Nat) /\ b \in Seq(Nat)
  BY <1>3, SeqDef
<1>5. Len(p) = m /\ Len(b) = m
  BY <1>3, <1>4, LenProperties
<1>6. << >> \in Seq(Nat) /\ Len(<< >>) = 0
  BY EmptySeq
<1>7. c \in Seq(Nat) /\ Len(c) <= Len(p)
  BY <1>4, <1>5, <1>6
<1> HIDE DEF c
<1>8. [mixed |-> FALSE, valid |-> n > 0, params |-> p, bound |-> c] \in Statements
  BY <1>4, <1>7 DEF Statements
<1>9. Inserted(n).bound = c /\ Inserted(n).params = p
  BY <1>2
<1> QED BY <1>2, <1>7, <1>8, <1>9

LEMMA InsertedAsWritten ==
  ASSUME NEW n \in Nat, \A k \in DOMAIN FieldKinds : FieldKinds[k] \in Creatable
  PROVE  Inserted(n).bound = Inserted(n).params
<1>1. PICK w \in Nat : w = Len(FieldKinds) /\ DOMAIN FieldKinds = 1..w
  BY FieldAssumption, LenProperties
<1>2. PICK m \in Nat : m = n * w /\ (w = 0 => m = 0) /\ (n = 0 => m = 0)
  OBVIOUS
<1>3. \A k \in 1..m : ((k - 1) % w) + 1 \in 1..w
  BY <1>2
<1>4. \A k \in 1..m : FieldKinds[((k - 1) % w) + 1] \in Creatable
  BY <1>1, <1>3
<1> DEFINE p == [k \in 1..m |-> k]
           b == [k \in 1..m |-> IF FieldKinds[((k - 1) % w) + 1] \in Creatable THEN k ELSE 0]
<1>5. b = p
  BY <1>4
<1>6. Inserted(n) = [mixed |-> FALSE, valid |-> n > 0, params |-> p,
                     bound |-> IF n > 0 THEN b ELSE << >>]
  BY <1>1, <1>2 DEF Inserted, Statement
<1>7. n = 0 => p = << >>
  BY <1>2
<1> HIDE DEF p, b
<1> QED BY <1>5, <1>6, <1>7

-----------------------------------------------------------------------------
(* The steps *)

\* What a step does to the pending values: nothing, clearing, or fresh values
\* behind the ones that are pending or in their place.
LEMMA KeepLive ==
  ASSUME BindValuesLive, UNCHANGED <<bindValues, heap>>
  PROVE  BindValuesLive'
  BY DEF BindValuesLive

LEMMA ClearLive ==
  ASSUME bindValues' = << >>
  PROVE  BindValuesLive'
  BY DEF BindValuesLive

LEMMA ReplaceLive ==
  ASSUME NEW values, Fresh(values), bindValues' = values, heap' = heap \cup Addrs(values)
  PROVE  BindValuesLive'
  BY DEF BindValuesLive, Fresh, Addrs

LEMMA AppendLive ==
  ASSUME BindValuesLive, bindValues \in Seq(BindVals), NEW values, Fresh(values),
         bindValues' = bindValues \o values, heap' = heap \cup Addrs(values)
  PROVE  BindValuesLive'
<1>1. PICK n \in Nat : n = Len(bindValues) /\ DOMAIN bindValues = 1..n
  BY ValuesTyped
<1>2. values \in Seq(BindVals) /\ \A k \in DOMAIN values : k \in Nat
  BY ValuesTyped DEF Fresh
<1>3. DOMAIN bindValues' \subseteq Nat
  BY <1>2, Joined, ValuesTyped
<1>4. \A k \in DOMAIN bindValues' :
         \/ k \in DOMAIN bindValues /\ bindValues'[k] = bindValues[k]
         \/ k - n \in DOMAIN values /\ bindValues'[k] = values[k - n]
  BY <1>1, <1>2, Joined, Zenon
<1>5. /\ \A k \in DOMAIN bindValues : bindValues[k].addr \in heap
      /\ \A k, l \in DOMAIN bindValues : bindValues[k].addr = bindValues[l].addr => k = l
  BY DEF BindValuesLive
<1>6. /\ \A k \in DOMAIN values : values[k].addr \in heap' /\ values[k].addr \notin heap
      /\ \A k, l \in DOMAIN values : values[k].addr = values[l].addr => k = l
  BY DEF Fresh, Addrs
<1>7. \A k \in DOMAIN bindValues' : bindValues'[k].addr \in heap'
  BY <1>4, <1>5, <1>6
<1>8. ASSUME NEW k \in DOMAIN bindValues', NEW l \in DOMAIN bindValues',
             bindValues'[k].addr = bindValues'[l].addr
      PROVE  k = l
  <2>1. k \in Nat /\ l \in Nat /\ (k - n = l - n => k = l)
    BY <1>3
  <2> QED BY <1>4, <1>5, <1>6, <1>8, <2>1
<1> QED BY <1>7, <1>8 DEF BindValuesLive

\* The variables no statement touches.
FlagsOK ==
    /\ exists \in BOOLEAN /\ open \in BOOLEAN /\ selected \in BOOLEAN /\ alive \in BOOLEAN
    /\ status \in {"INIT", "QUERY", "UPDATE"}

\* The lists and the heap.
PendingOK ==
    /\ heap \subseteq Addresses
    /\ constraints \in Seq(Conjunctions)
    /\ bindValues \in Seq(BindVals)

ExecutedOK == executed \in Statements /\ Len(executed.bound) <= Len(executed.params)

LEMMA TypeParts ==
  /\ TypeOK <=> FlagsOK /\ PendingOK /\ rawSql \in Seq(Addresses) /\ ExecutedOK
  /\ TypeOK' <=> FlagsOK' /\ PendingOK' /\ rawSql' \in Seq(Addresses) /\ ExecutedOK'
  BY DEF TypeOK, FlagsOK, PendingOK, ExecutedOK

LEMMA FreshTyped ==
  ASSUME NEW values, Fresh(values)
  PROVE  values \in Seq(BindVals) /\ Addrs(values) \subseteq Addresses
  BY DEF Fresh, Addrs

\* Where, Or and Page.
LEMMA PushStep ==
  ASSUME IndInv, NEW conj \in Conjunctions, NEW args \in Seq(Kinds), Push(conj, args)
  PROVE  IndInv'
<1>1. PICK values : values = Alloc(args) /\ Fresh(values)
  BY AllocFresh, Zenon DEF Push
<1>2. /\ constraints' = Append(constraints, conj) /\ bindValues' = bindValues \o values
      /\ heap' = heap \cup Addrs(values)
      /\ UNCHANGED <<exists, open, selected, status, rawSql, executed, alive>>
  BY <1>1, Zenon DEF Push
<1>3. BindValuesLive /\ FlagsOK /\ PendingOK /\ rawSql \in Seq(Addresses) /\ ExecutedOK
  BY TypeParts DEF IndInv
<1>4. constraints' \in Seq(Conjunctions)
  BY <1>2, <1>3, AppendProperties DEF PendingOK
<1>5. bindValues' \in Seq(BindVals)
  BY <1>1, <1>2, <1>3, FreshTyped, Joined DEF PendingOK
<1>6. PendingOK'
  BY <1>1, <1>2, <1>3, <1>4, <1>5, FreshTyped DEF PendingOK
<1>7. FlagsOK' /\ rawSql' \in Seq(Addresses) /\ ExecutedOK'
  BY <1>2, <1>3 DEF FlagsOK, ExecutedOK
<1>8. BindValuesLive'
  BY <1>1, <1>2, <1>3, AppendLive DEF PendingOK
<1> QED BY <1>6, <1>7, <1>8, TypeParts DEF IndInv

LEMMA RawStep ==
  ASSUME IndInv, NEW args \in Seq(Kinds), Raw(args)
  PROVE  IndInv'
<1>1. PICK values : values = Alloc(args) /\ Fresh(values) /\ DOMAIN values = DOMAIN args
  BY AllocFresh, Zenon DEF Raw
<1>2. /\ status' \in {"QUERY", "UPDATE"}
      /\ constraints' = <<"">> /\ bindValues' = values
      /\ heap' = heap \cup Addrs(values)
      /\ rawSql' = [k \in DOMAIN args |-> values[k].addr]
      /\ UNCHANGED <<exists, open, selected, executed, alive>>
  BY <1>1, Zenon DEF Raw
<1>3. FlagsOK /\ PendingOK /\ ExecutedOK
  BY TypeParts DEF IndInv
<1>4. constraints' \in Seq(Conjunctions)
  <2>1. "" \in Conjunctions
    BY DEF Conjunctions
  <2>2. ASSUME NEW S, NEW x \in S PROVE <<x>> \in Seq(S)
    OBVIOUS
  <2> QED BY <1>2, <2>1, <2>2, Zenon
<1>5. PendingOK'
  BY <1>1, <1>2, <1>3, <1>4, FreshTyped DEF PendingOK
<1>6. rawSql' \in Seq(Addresses)
  BY <1>1, <1>2, FreshTyped, ParamsTyped
<1>7. FlagsOK' /\ ExecutedOK'
  BY <1>2, <1>3 DEF FlagsOK, ExecutedOK
<1>8. BindValuesLive'
  BY <1>1, <1>2, ReplaceLive
<1> QED BY <1>5, <1>6, <1>7, <1>8, TypeParts DEF IndInv

\* First, All, Update, Delete, Create, Exec and Fetch: a statement is run, and
\* the constraints are reset or stay.
LEMMA StatementStep ==
  ASSUME IndInv, NEW stmt, Run(stmt), stmt \in Statements, Len(stmt.bound) <= Len(stmt.params),
         open' \in {open, FALSE}, UNCHANGED <<exists, status, rawSql>>,
         NEW values, Reset(values) \/ UNCHANGED <<heap, constraints, bindValues, selected>>
  PROVE  IndInv'
<1>1. BindValuesLive /\ FlagsOK /\ PendingOK /\ rawSql \in Seq(Addresses)
  BY TypeParts DEF IndInv
<1>2. executed' = stmt /\ ExecutedOK'
  BY DEF Run, ExecutedOK
<1>3. alive' \in BOOLEAN
  <2>1. stmt.valid \in BOOLEAN
    BY DEF Statements
  <2> QED BY <1>1, <2>1 DEF Run, FlagsOK
<1>4. selected' \in BOOLEAN /\ PendingOK'
  <2>1. CASE Reset(values)
    <3>1. << >> \in Seq(Conjunctions) /\ << >> \in Seq(BindVals)
      BY EmptySeq
    <3> QED BY <1>1, <2>1, <3>1 DEF PendingOK, Reset
  <2>2. CASE UNCHANGED <<heap, constraints, bindValues, selected>>
    BY <1>1, <2>2 DEF FlagsOK, PendingOK
  <2> QED BY <2>1, <2>2
<1>5. FlagsOK'
  BY <1>1, <1>3, <1>4 DEF FlagsOK
<1>6. BindValuesLive'
  <2>1. CASE Reset(values)
    BY <2>1, ClearLive DEF Reset
  <2>2. CASE UNCHANGED <<heap, constraints, bindValues, selected>>
    BY <1>1, <2>2, KeepLive
  <2> QED BY <2>1, <2>2
<1> QED BY <1>1, <1>2, <1>4, <1>5, <1>6, TypeParts DEF IndInv

\* Construct, Destruct and Select.
LEMMA ObjectStep ==
  ASSUME IndInv, Construct \/ Destruct \/ Select
  PROVE  IndInv'
<1>1. BindValuesLive /\ FlagsOK /\ PendingOK /\ rawSql \in Seq(Addresses) /\ ExecutedOK
  BY TypeParts DEF IndInv
<1>2. FlagsOK'
  BY <1>1 DEF FlagsOK, Construct, Destruct, Select
<1>3. PendingOK' /\ rawSql' \in Seq(Addresses)
  <2>1. CASE Construct \/ Select
    BY <1>1, <2>1 DEF PendingOK, Construct, Select
  <2>2. CASE Destruct
    <3>1. << >> \in Seq(Conjunctions) /\ << >> \in Seq(BindVals) /\ << >> \in Seq(Addresses)
      BY EmptySeq
    <3> QED BY <1>1, <2>2, <3>1 DEF PendingOK, Destruct
  <2> QED BY <2>1, <2>2
<1>4. ExecutedOK'
  <2>1. NoStatement \in Statements /\ Len(NoStatement.bound) <= Len(NoStatement.params)
    BY DEF NoStatement, Statements
  <2> QED BY <1>1, <2>1 DEF ExecutedOK, Construct, Destruct, Select
<1>5. BindValuesLive'
  BY <1>1, KeepLive, ClearLive DEF Construct, Destruct, Select
<1> QED BY <1>2, <1>3, <1>4, <1>5, TypeParts DEF IndInv

\* The statement an action executes.
Executes(stmt) ==
    \/ \E args \in ArgLists : /\ args # << >> /\ CanAlloc(args) /\ Update(args)
                              /\ stmt = Built(UpdateValid(constraints), Alloc(args) \o bindValues,
                                            Alloc(args) \o Written)
    \/ First /\ stmt = Built(QueryValid(constraints, 1), bindValues, Written)
    \/ All /\ stmt = Built(QueryValid(constraints, -1), bindValues, Written)
    \/ Delete /\ stmt = Built(DeleteValid(constraints), bindValues, Written)
    \/ (Exec \/ Fetch) /\ stmt = RawStatement
    \/ \E n \in 0..MaxRows : Create(n) /\ stmt = Inserted(n)

LEMMA Steps ==
  ASSUME [Next]_vars
  PROVE  \/ Construct \/ Destruct \/ Select
         \/ \E args \in ArgLists \cup {<< >>}, conj \in Conjunctions \ {""} : Push(conj, args)
         \/ \E args \in ArgLists : Raw(args)
         \/ \E stmt : Executes(stmt)
         \/ UNCHANGED vars
<1>1. CASE Page
  BY <1>1 DEF Page, Conjunctions
<1>2. ASSUME NEW args \in ArgLists, Where(args) \/ Or(args)
      PROVE  \E conj \in Conjunctions \ {""} : Push(conj, args)
  BY <1>2 DEF Where, Or, Conjunctions
<1>3. ASSUME NEW args \in ArgLists, Update(args)
      PROVE  \E stmt : Executes(stmt)
  BY <1>3 DEF Executes, Update
<1>4. CASE First \/ All \/ Delete \/ Exec \/ Fetch
  BY <1>4 DEF Executes
<1>5. ASSUME NEW n \in 0..MaxRows, Create(n)
      PROVE  \E stmt : Executes(stmt)
  BY <1>5 DEF Executes
<1> QED BY <1>1, <1>2, <1>3, <1>4, <1>5 DEF Next, Halted

\* How a statement changes the state.
LEMMA ExecutesStep ==
  ASSUME NEW stmt, Executes(stmt)
  PROVE  /\ Run(stmt) /\ open' \in {open, FALSE} /\ UNCHANGED <<exists, status, rawSql>>
         /\ \/ \E values : Reset(values)
            \/ UNCHANGED <<heap, constraints, bindValues, selected>>
<1>1. ASSUME NEW args \in ArgLists, Update(args),
             stmt = Built(UpdateValid(constraints), Alloc(args) \o bindValues,
                                            Alloc(args) \o Written)
      PROVE  Run(stmt) /\ (\E values : Reset(values)) /\ UNCHANGED <<exists, open, status, rawSql>>
  BY <1>1 DEF Update
<1>2. CASE First /\ stmt = Built(QueryValid(constraints, 1), bindValues, Written)
  BY <1>2 DEF First
<1>3. CASE All /\ stmt = Built(QueryValid(constraints, -1), bindValues, Written)
  BY <1>3 DEF All
<1>4. CASE Delete /\ stmt = Built(DeleteValid(constraints), bindValues, Written)
  BY <1>4 DEF Delete
<1>5. CASE (Exec \/ Fetch) /\ stmt = RawStatement
  BY <1>5 DEF Exec, Fetch
<1>6. ASSUME NEW n \in 0..MaxRows, Create(n), stmt = Inserted(n)
      PROVE  Run(stmt) /\ (\E values : Reset(values)) /\ UNCHANGED <<exists, open, status, rawSql>>
  BY <1>6 DEF Create
<1> QED BY <1>1, <1>2, <1>3, <1>4, <1>5, <1>6 DEF Executes

LEMMA ValidBoolean ==
  ASSUME NEW cs, NEW limit
  PROVE  QueryValid(cs, limit) \in BOOLEAN /\ UpdateValid(cs) \in BOOLEAN /\ DeleteValid(cs) \in BOOLEAN
  BY DEF QueryValid, UpdateValid, DeleteValid

\* The statement is over bind values, Raw's, or Create's.
LEMMA ExecutedKinds ==
  ASSUME TypeOK, NEW stmt, Executes(stmt)
  PROVE  \/ \E valid \in BOOLEAN, values, written \in Seq(BindVals) :
              /\ stmt = Built(valid, values, written)
              /\ ~RawPending => written = values
              /\ \/ values = bindValues
                 \/ \E args \in ArgLists : CanAlloc(args) /\ values = Alloc(args) \o bindValues
         \/ stmt = RawStatement
         \/ \E n \in Nat : stmt = Inserted(n)
<1>0. bindValues \in Seq(BindVals) /\ Written \in Seq(BindVals) /\ (~RawPending => Written = bindValues)
  BY WrittenTyped DEF TypeOK
<1>1. ASSUME NEW args \in ArgLists, CanAlloc(args)
      PROVE  /\ Alloc(args) \o bindValues \in Seq(BindVals)
             /\ Alloc(args) \o Written \in Seq(BindVals)
  BY <1>0, <1>1, ArgAssumption, AllocFresh, FreshTyped, Joined
<1>3. ASSUME NEW args \in ArgLists, CanAlloc(args),
             stmt = Built(UpdateValid(constraints), Alloc(args) \o bindValues, Alloc(args) \o Written)
      PROVE  \E valid \in BOOLEAN, values, written \in Seq(BindVals) :
                /\ stmt = Built(valid, values, written)
                /\ ~RawPending => written = values
                /\ \E a \in ArgLists : CanAlloc(a) /\ values = Alloc(a) \o bindValues
  <2>1. ~RawPending => Alloc(args) \o Written = Alloc(args) \o bindValues
    BY <1>0
  <2> QED BY <1>1, <1>3, <2>1, ValidBoolean, Zenon
<1>4. ASSUME NEW valid \in BOOLEAN, stmt = Built(valid, bindValues, Written)
      PROVE  \E v \in BOOLEAN, values, written \in Seq(BindVals) :
                /\ stmt = Built(v, values, written)
                /\ ~RawPending => written = values
                /\ values = bindValues
  BY <1>0, <1>4, Zenon
<1>5. CASE \/ First /\ stmt = Built(QueryValid(constraints, 1), bindValues, Written)
           \/ All /\ stmt = Built(QueryValid(constraints, -1), bindValues, Written)
           \/ Delete /\ stmt = Built(DeleteValid(constraints), bindValues, Written)
  BY <1>4, <1>5, ValidBoolean, Zenon
<1>6. \A n \in 0..MaxRows : n \in Nat
  OBVIOUS
<1> QED BY <1>3, <1>5, <1>6, Zenon DEF Executes

LEMMA StatementTyped ==
  ASSUME TypeOK, NEW stmt, Executes(stmt)
  PROVE  stmt \in Statements /\ Len(stmt.bound) <= Len(stmt.params)
<1>1. CASE stmt = RawStatement
  <2>1. rawSql \in Seq(Nat) /\ Len(rawSql) \in Nat
    <3>1. rawSql \in Seq(Addresses) /\ Addresses \subseteq Nat
      BY AddressAssumption DEF TypeOK
    <3>2. Len(rawSql) \in Nat /\ rawSql \in [1..Len(rawSql) -> Addresses]
      BY <3>1, LenProperties
    <3>3. rawSql \in [1..Len(rawSql) -> Nat]
      BY <3>1, <3>2
    <3> QED BY <3>2, <3>3, SeqDef
  <2>2. PICK b \in Seq(Nat) : b = BindParams(bindValues, Len(rawSql)) /\ Len(b) = Len(rawSql)
    BY <2>1, BoundTyped DEF TypeOK
  <2>0. PICK x \in BOOLEAN : x = ~RawPending
    BY DEF RawPending
  <2>3. stmt = [mixed |-> x, valid |-> TRUE, params |-> rawSql, bound |-> b]
    BY <1>1, <2>0, <2>2 DEF RawStatement, Statement
  <2>4. [mixed |-> x, valid |-> TRUE, params |-> rawSql, bound |-> b] \in Statements
    BY <2>1 DEF Statements
  <2>5. stmt.bound = b /\ stmt.params = rawSql
    BY <2>3
  <2> QED BY <2>1, <2>2, <2>3, <2>4, <2>5
<1>2. ASSUME NEW valid \in BOOLEAN, NEW values \in Seq(BindVals), NEW written \in Seq(BindVals),
             stmt = Built(valid, values, written)
      PROVE  stmt \in Statements /\ Len(stmt.bound) <= Len(stmt.params)
  BY <1>2, BuiltTyped, Zenon
<1>3. ASSUME NEW n \in Nat, stmt = Inserted(n)
      PROVE  stmt \in Statements /\ Len(stmt.bound) <= Len(stmt.params)
  BY <1>3, InsertedTyped, Zenon
<1> QED BY <1>1, <1>2, <1>3, ExecutedKinds, Zenon

LEMMA InitInd == Init => IndInv
<1> SUFFICES ASSUME Init PROVE IndInv
  OBVIOUS
<1>1. NoStatement \in Statements /\ Len(NoStatement.bound) <= Len(NoStatement.params)
  BY DEF NoStatement, Statements
<1>2. << >> \in Seq(Conjunctions) /\ << >> \in Seq(BindVals) /\ << >> \in Seq(Addresses)
  BY EmptySeq
<1>3. TypeOK
  BY <1>1, <1>2 DEF Init, TypeOK
<1>4. BindValuesLive
  BY DEF Init, BindValuesLive
<1> QED BY <1>3, <1>4 DEF IndInv

LEMMA NextInd == IndInv /\ [Next]_vars => IndInv'
<1> SUFFICES ASSUME IndInv, [Next]_vars PROVE IndInv'
  OBVIOUS
<1>1. \A args \in ArgLists \cup {<< >>} : args \in Seq(Kinds)
  BY ArgAssumption, EmptySeq
<1>2. ASSUME NEW stmt, Executes(stmt) PROVE IndInv'
  <2>1. stmt \in Statements /\ Len(stmt.bound) <= Len(stmt.params)
    BY <1>2, StatementTyped DEF IndInv
  <2>2. PICK values : Reset(values) \/ UNCHANGED <<heap, constraints, bindValues, selected>>
    BY <1>2, ExecutesStep
  <2> QED BY <1>2, <2>1, <2>2, ExecutesStep, StatementStep
<1>3. CASE UNCHANGED vars
  BY <1>3 DEF IndInv, TypeOK, BindValuesLive, vars
<1> QED BY <1>1, <1>2, <1>3, Steps, PushStep, RawStep, ObjectStep

-----------------------------------------------------------------------------
(* Kinds *)

KindsOK == \A k \in DOMAIN bindValues : bindValues[k].kind \in Bindable

\* Under SupportedKinds only bindable values are ever pending.
LEMMA NextKinds ==
  ASSUME SupportedKinds, IndInv, KindsOK, [Next]_vars
  PROVE  KindsOK'
<1>1. bindValues \in Seq(BindVals)
  BY DEF IndInv, TypeOK
<1>2. ASSUME NEW args \in ArgLists \cup {<< >>}, CanAlloc(args)
      PROVE  /\ Alloc(args) \in Seq(BindVals)
             /\ \A k \in DOMAIN Alloc(args) : Alloc(args)[k].kind \in Bindable
  <2>1. args \in Seq(Kinds) /\ \A k \in DOMAIN args : args[k] \in Bindable
    <3>1. CASE args \in ArgLists
      BY <3>1, ArgAssumption DEF SupportedKinds
    <3>2. CASE args = << >>
      BY <3>2
    <3> QED BY <3>1, <3>2
  <2> QED BY <1>2, <2>1, AllocFresh, FreshTyped
<1>3. ASSUME NEW args \in ArgLists \cup {<< >>}, NEW conj, Push(conj, args) PROVE KindsOK'
  <2>1. PICK values \in Seq(BindVals) : /\ bindValues' = bindValues \o values
                                        /\ \A k \in DOMAIN values : values[k].kind \in Bindable
    <3>1. PICK values : values = Alloc(args)
      OBVIOUS
    <3>2. CanAlloc(args) /\ bindValues' = bindValues \o values
      BY <1>3, <3>1, Zenon DEF Push
    <3> QED BY <1>2, <3>1, <3>2, Zenon
  <2> QED BY <1>1, <2>1, Joined, Zenon DEF KindsOK
<1>4. ASSUME NEW args \in ArgLists, Raw(args) PROVE KindsOK'
  BY <1>2, <1>4, Zenon DEF Raw, KindsOK
<1>5. CASE bindValues' = << >>
  BY <1>5 DEF KindsOK
<1>6. CASE UNCHANGED bindValues
  BY <1>6 DEF KindsOK
<1>7. ASSUME NEW stmt, Executes(stmt) PROVE KindsOK'
  BY <1>5, <1>6, <1>7, ExecutesStep DEF Reset
<1>8. CASE Construct \/ Destruct \/ Select \/ UNCHANGED vars
  BY <1>5, <1>6, <1>8 DEF Construct, Destruct, Select, vars
<1> QED BY <1>3, <1>4, <1>7, <1>8, Steps

\* What stands first stays first.
LEMMA FirstAppended ==
  ASSUME NEW S, NEW s \in Seq(S), NEW x \in S
  PROVE  /\ s = << >> => Append(s, x)[1] = x
         /\ s # << >> => Append(s, x)[1] = s[1]
<1>1. /\ Len(s) \in Nat /\ (s # << >> => Len(s) > 0)
      /\ \A i \in 1..Len(s) : Append(s, x)[i] = s[i]
      /\ Append(s, x)[Len(s) + 1] = x
  BY AppendProperties, LenProperties, EmptySeq
<1>2. s = << >> => Len(s) + 1 = 1
  BY EmptySeq
<1>3. Len(s) > 0 => 1 \in 1..Len(s)
  BY <1>1
<1> QED BY <1>1, <1>2, <1>3

LEMMA FirstJoined ==
  ASSUME NEW S, NEW v \in Seq(S), NEW w \in Seq(S), NEW n \in Nat, n <= Len(v)
  PROVE  n <= Len(v \o w) /\ \A k \in 1..n : (v \o w)[k] = v[k]
<1>1. /\ Len(v) \in Nat /\ Len(w) \in Nat /\ Len(v \o w) = Len(v) + Len(w)
      /\ \A k \in 1..(Len(v) + Len(w)) : (v \o w)[k] = IF k <= Len(v) THEN v[k] ELSE w[k - Len(v)]
  BY ConcatProperties, LenProperties
<1>2. \A k \in 1..n : k \in 1..(Len(v) + Len(w)) /\ k <= Len(v)
  BY <1>1
<1> QED BY <1>1, <1>2

\* While Raw()'s constraint is pending its values are the first ones: other values
\* come behind them, and they go together.
LEMMA NextRawFirst ==
  ASSUME IndInv, RawFirst, [Next]_vars
  PROVE  RawFirst'
<1>1. /\ bindValues \in Seq(BindVals) /\ constraints \in Seq(Conjunctions) /\ rawSql \in Seq(Addresses)
      /\ Len(bindValues) \in Nat /\ Len(constraints) \in Nat /\ Len(rawSql) \in Nat
      /\ DOMAIN rawSql = 1..Len(rawSql) /\ DOMAIN bindValues = 1..Len(bindValues)
  BY LenProperties DEF IndInv, TypeOK
<1>2. ASSUME NEW args \in ArgLists \cup {<< >>}, NEW conj \in Conjunctions \ {""}, Push(conj, args)
      PROVE  RawFirst'
  <2>1. args \in Seq(Kinds)
    BY ArgAssumption, EmptySeq
  <2>2. PICK values \in Seq(BindVals) : bindValues' = bindValues \o values
    <3>1. CanAlloc(args) /\ bindValues' = bindValues \o Alloc(args)
      BY <1>2, Zenon DEF Push
    <3>2. Fresh(Alloc(args))
      BY <2>1, <3>1, AllocFresh
    <3> QED BY <3>1, <3>2, FreshTyped, Zenon
  <2>3. constraints' = Append(constraints, conj) /\ rawSql' = rawSql
    BY <1>2 DEF Push
  <2>4. RawPending' => RawPending
    <3>1. /\ constraints = << >> => constraints'[1] # ""
          /\ constraints # << >> => constraints'[1] = constraints[1]
      BY <1>1, <2>3, FirstAppended
    <3> QED BY <3>1 DEF RawPending
  <2>5. ASSUME RawPending
        PROVE  /\ Len(rawSql) <= Len(bindValues')
               /\ \A k \in DOMAIN rawSql : rawSql[k] = bindValues'[k].addr
    <3>1. Len(rawSql) <= Len(bindValues) /\ \A k \in DOMAIN rawSql : rawSql[k] = bindValues[k].addr
      BY <2>5 DEF RawFirst
    <3>2. Len(rawSql) <= Len(bindValues') /\ \A k \in 1..Len(rawSql) : bindValues'[k] = bindValues[k]
      BY <1>1, <2>2, <3>1, FirstJoined
    <3> QED BY <1>1, <3>1, <3>2
  <2> QED BY <2>3, <2>4, <2>5 DEF RawFirst
<1>3. ASSUME NEW args \in ArgLists, Raw(args) PROVE RawFirst'
  <2>1. PICK values : /\ values \in Seq(BindVals) /\ DOMAIN values = DOMAIN args
                      /\ bindValues' = values /\ rawSql' = [k \in DOMAIN args |-> values[k].addr]
    <3>1. /\ CanAlloc(args) /\ bindValues' = Alloc(args)
          /\ rawSql' = [k \in DOMAIN args |-> Alloc(args)[k].addr]
      BY <1>3, Zenon DEF Raw
    <3>2. Fresh(Alloc(args)) /\ DOMAIN Alloc(args) = DOMAIN args
      BY <3>1, AllocFresh, ArgAssumption
    <3> QED BY <3>1, <3>2, FreshTyped, Zenon
  <2>2. rawSql' = [k \in DOMAIN values |-> values[k].addr] /\ Len(rawSql') = Len(values) /\ Len(values) \in Nat
    BY <2>1, ParamsTyped, ValuesTyped
  <2> QED BY <2>1, <2>2 DEF RawFirst
<1>4. CASE constraints' = << >>
  BY <1>4 DEF RawFirst, RawPending
<1>5. CASE UNCHANGED <<constraints, bindValues, rawSql>>
  BY <1>5 DEF RawFirst, RawPending
<1>6. ASSUME NEW stmt, Executes(stmt) PROVE RawFirst'
  BY <1>4, <1>5, <1>6, ExecutesStep DEF Reset
<1>7. CASE Construct \/ Destruct \/ Select \/ UNCHANGED vars
  BY <1>4, <1>5, <1>7 DEF Construct, Destruct, Select, vars
<1> QED BY <1>2, <1>3, <1>6, <1>7, Steps

LEMMA WrittenOnce ==
  ASSUME SupportedKinds, IndInv, KindsOK, RawFirst, NEW stmt, Executes(stmt)
  PROVE  stmt.valid /\ ~stmt.mixed => stmt.bound = stmt.params
<1>1. bindValues \in Seq(BindVals) /\ TypeOK
  BY DEF IndInv, TypeOK
<1>2. ASSUME NEW args \in ArgLists, CanAlloc(args)
      PROVE  \A k \in DOMAIN (Alloc(args) \o bindValues) : (Alloc(args) \o bindValues)[k].kind \in Bindable
  <2>1. args \in Seq(Kinds) /\ \A k \in DOMAIN args : args[k] \in Bindable
    BY ArgAssumption DEF SupportedKinds
  <2>2. /\ Alloc(args) \in Seq(BindVals)
        /\ \A k \in DOMAIN Alloc(args) : Alloc(args)[k].kind \in Bindable
    BY <1>2, <2>1, AllocFresh, FreshTyped
  <2> QED BY <1>1, <2>2, Joined, Zenon DEF KindsOK
<1>3. ASSUME NEW valid \in BOOLEAN, NEW values \in Seq(BindVals), NEW written \in Seq(BindVals),
             stmt = Built(valid, values, written), ~RawPending => written = values,
             \/ values = bindValues
             \/ \E args \in ArgLists : CanAlloc(args) /\ values = Alloc(args) \o bindValues
      PROVE  stmt.valid /\ ~stmt.mixed => stmt.bound = stmt.params
  <2>1. \A k \in DOMAIN values : values[k].kind \in Bindable
    <3>1. CASE values = bindValues
      BY <3>1 DEF KindsOK
    <3>2. ASSUME NEW args \in ArgLists, CanAlloc(args), values = Alloc(args) \o bindValues
          PROVE  \A k \in DOMAIN values : values[k].kind \in Bindable
      BY <1>2, <3>2, Zenon
    <3> QED BY <1>3, <3>1, <3>2, Zenon
  <2>2. CASE RawPending
    <3>1. stmt.mixed
      BY <1>3, <2>2, BuiltTyped
    <3> QED BY <3>1
  <2>3. CASE ~RawPending
    <3>1. stmt = Built(valid, values, values)
      BY <1>3, <2>3
    <3> QED BY <2>1, <3>1, BuiltTyped, BuiltAsWritten
  <2> QED BY <2>2, <2>3
<1>4. ASSUME stmt = RawStatement, ~stmt.mixed PROVE stmt.bound = stmt.params
  <2>1. RawPending /\ stmt.bound = BindParams(bindValues, Len(rawSql)) /\ stmt.params = rawSql
    BY <1>4 DEF RawStatement, Statement
  <2>2. /\ rawSql \in Seq(Addresses) /\ Len(rawSql) \in Nat /\ DOMAIN rawSql = 1..Len(rawSql)
        /\ Len(bindValues) \in Nat
    BY <1>1, LenProperties DEF TypeOK
  <2>3. Len(rawSql) \in 0..Len(bindValues) /\ \A k \in DOMAIN rawSql : rawSql[k] = bindValues[k].addr
    BY <2>1, <2>2 DEF RawFirst
  <2>4. BindParams(bindValues, Len(rawSql)) = [k \in 1..Len(rawSql) |-> bindValues[k].addr]
    BY <1>1, <2>3, BoundInOrder DEF KindsOK
  <2>5. rawSql = [k \in 1..Len(rawSql) |-> rawSql[k]]
    BY <2>2
  <2> QED BY <2>1, <2>2, <2>3, <2>4, <2>5
<1>5. ASSUME NEW n \in Nat, stmt = Inserted(n) PROVE stmt.bound = stmt.params
  BY <1>5, InsertedAsWritten DEF SupportedKinds
<1> QED BY <1>1, <1>3, <1>4, <1>5, ExecutedKinds

LEMMA NextBound ==
  ASSUME SupportedKinds, BoundInv, [Next]_vars
  PROVE  BoundInv'
<1>1. IndInv /\ KindsOK /\ RawFirst /\ BoundAsWritten
  BY DEF BoundInv, KindsOK
<1>2. IndInv' /\ KindsOK' /\ RawFirst'
  BY <1>1, NextInd, NextKinds, NextRawFirst
<1>3. BoundAsWritten'
  <2>1. ASSUME NEW stmt, Executes(stmt) PROVE BoundAsWritten'
    <3>1. stmt.valid /\ ~stmt.mixed => stmt.bound = stmt.params
      BY <1>1, <2>1, WrittenOnce
    <3>2. executed' = stmt
      BY <2>1, ExecutesStep DEF Run
    <3> QED BY <3>1, <3>2 DEF BoundAsWritten
  <2>2. CASE executed' = executed
    BY <1>1, <2>2 DEF BoundAsWritten
  <2>3. CASE executed' = NoStatement
    BY <2>3 DEF BoundAsWritten, NoStatement
  <2>4. CASE Construct \/ Destruct \/ Select \/ UNCHANGED vars
    BY <2>2, <2>3, <2>4 DEF Construct, Destruct, Select, vars
  <2>5. ASSUME NEW conj, NEW args, Push(conj, args) PROVE executed' = executed
    BY <2>5 DEF Push
  <2>6. ASSUME NEW args, Raw(args) PROVE executed' = executed
    BY <2>6 DEF Raw
  <2> QED BY <2>1, <2>2, <2>4, <2>5, <2>6, Steps
<1> QED BY <1>2, <1>3 DEF BoundInv, KindsOK

-----------------------------------------------------------------------------
(* The theorems *)

\* Pending bind values are live and the lists that hold them well formed, in
\* every behaviour of the builder's clients.
THEOREM Inductive == Spec => []IndInv
<1> QED BY InitInd, NextInd, PTL DEF Spec

\* The builder's state has its type, and no statement binds more values than it
\* has placeholders.
THEOREM TypeCorrect == Spec => []TypeOK
<1>1. IndInv => TypeOK
  BY DEF IndInv
<1> QED BY <1>1, Inductive, PTL

\* Every bind value a statement would bind or reset() would delete is allocated,
\* and none is in two places, whatever the client calls and whichever of the
\* member functions returned before reset().
THEOREM NoUseAfterFree == Spec => []BindValuesLive
<1>1. IndInv => BindValuesLive
  BY DEF IndInv
<1> QED BY <1>1, Inductive, PTL

\* As long as arguments and columns are of kinds bindParams and Create have a
\* branch for, every placeholder of a statement the builder writes is bound to the
\* value passed for it, also after a First() that found no row left constraints
\* behind, unless Raw()'s constraint is still pending; and so is every placeholder
\* of Raw()'s text while it is.
THEOREM PlaceholdersBound ==
  ASSUME SupportedKinds
  PROVE  Spec => []BoundAsWritten
<1>1. Init => BoundInv
  <2>1. Init => KindsOK /\ RawFirst /\ BoundAsWritten
    BY DEF Init, KindsOK, RawFirst, RawPending, BoundAsWritten, NoStatement
  <2> QED BY <2>1, InitInd DEF BoundInv, KindsOK
<1>2. BoundInv /\ [Next]_vars => BoundInv'
  BY NextBound
<1>3. BoundInv => BoundAsWritten
  BY DEF BoundInv
<1> QED BY <1>1, <1>2, <1>3, PTL DEF Spec

=============================================================================

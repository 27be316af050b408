---------------------------- MODULE ResultsProofs ----------------------------
(***************************************************************************)
(* Proofs about Results, for any Statement and ResultSet variables, any    *)
(* queries and tables, and any number of statements prepared and executed. *)
(***************************************************************************)
EXTENDS Results, TLAPS, SequenceTheorems

-----------------------------------------------------------------------------
(* Sequences and records *)

\* A function on the domain of a sequence is a sequence as long.
LEMMA SameLength ==
  ASSUME NEW U, NEW s \in Seq(U), NEW T, NEW f \in [DOMAIN s -> T]
  PROVE  f \in Seq(T) /\ Len(f) = Len(s) /\ DOMAIN f = 1..Len(s) /\ DOMAIN s = 1..Len(s)
<1>1. Len(s) \in Nat /\ DOMAIN s = 1..Len(s)
  BY LenProperties
<1>2. f \in [1..Len(s) -> T]
  BY <1>1
<1>3. f \in Seq(T)
  BY <1>1, <1>2, SeqDef
<1>4. Len(f) \in Nat /\ DOMAIN f = 1..Len(f)
  BY <1>3, LenProperties
<1>5. DOMAIN f = 1..Len(s)
  BY <1>2
<1>6. Len(f) = Len(s)
  BY <1>1, <1>4, <1>5
<1> QED BY <1>1, <1>3, <1>5, <1>6

\* Columns are counted from 1.
LEMMA QueryDomain ==
  ASSUME NEW q \in Queries \cup {<< >>}
  PROVE  /\ q \in Seq([name : STRING, type : Types]) /\ Len(q) \in Nat
         /\ DOMAIN q = 1..Len(q)
<1>1. q \in Seq([name : STRING, type : Types])
  <2>1. CASE q \in Queries  BY <2>1, QueryAssumption
  <2>2. CASE q = << >>      BY <2>2
  <2> QED BY <2>1, <2>2
<1> QED BY <1>1, LenProperties

LEMMA RowsDomain ==
  ASSUME NEW rows \in Tables \cup {<< >>}
  PROVE  rows \in Seq(SUBSET Nat) /\ Len(rows) \in Nat /\ DOMAIN rows = 1..Len(rows)
<1>1. rows \in Seq(SUBSET Nat)
  <2>1. CASE rows \in Tables  BY <2>1, TableAssumption
  <2>2. CASE rows = << >>     BY <2>2
  <2> QED BY <2>1, <2>2
<1> QED BY <1>1, LenProperties

LEMMA StatementFields ==
  ASSUME NEW s \in Statements
  PROVE  /\ s.live \in BOOLEAN /\ s.handle \in Nat /\ s.block \in Nat
         /\ s.query \in Queries \cup {<< >>} /\ s.numField \in Nat
  BY DEF Statements

\* What is left of a Statement moved from.
LEMMA MovedFrom ==
  ASSUME NEW st \in Statements, NEW b \in Nat, NEW q \in Queries \cup {<< >>}
  PROVE  \E old \in Statements :
            /\ old = [st EXCEPT !.handle = 0, !.block = b, !.query = q]
            /\ old.handle = 0 /\ old.block = b /\ old.query = q /\ old.live = st.live
<1> DEFINE e == [st EXCEPT !.handle = 0, !.block = b, !.query = q]
<1>1. e \in Statements /\ e.handle = 0 /\ e.block = b /\ e.query = q /\ e.live = st.live
  BY DEF Statements
<1> HIDE DEF e
<1>2. \E old \in Statements : old = e /\ old.handle = 0 /\ old.block = b /\ old.query = q /\ old.live = st.live
  BY <1>1
<1> QED BY <1>2 DEF e

LEMMA HandleFields ==
  ASSUME NEW p \in Handles
  PROVE  /\ p.open \in BOOLEAN /\ p.allocated \in BOOLEAN /\ p.run \in Nat
         /\ p.rows \in Tables \cup {<< >>} /\ p.pos \in Nat /\ p.data \in Seq(Seq(Nat))
  BY DEF Handles

LEMMA ResultFields ==
  ASSUME NEW x \in ResultSets
  PROVE  /\ x.kind \in {"null", "prepared", "sql"} /\ x.stmt \in Stmts \cup {"none"}
         /\ x.query \in Queries \cup {<< >>} /\ x.run \in Nat
         /\ x.rows \in Tables \cup {<< >>} /\ x.cur \in Nat /\ x.calm \in BOOLEAN
         /\ x.kind = "prepared" => x.stmt \in Stmts
  BY DEF ResultSets

LEMMA Empties ==
  /\ Dead \in Statements /\ ~Dead.live /\ Dead.handle = 0 /\ Dead.block = 0 /\ Dead.query = << >>
  /\ NoResult \in ResultSets /\ NoResult.kind = "null" /\ NoResult.rows = << >>
  /\ DOMAIN << >> = {}
  BY DEF Dead, NoResult, Statements, ResultSets

\* What the state looks like.
LEMMA Typing ==
  ASSUME IndInv
  PROVE  /\ \A s \in Stmts : stmts[s] \in Statements /\ stmts[s].handle \in 0..Len(prepared)
                                /\ stmts[s].block \in 0..Len(prepared)
         /\ Len(prepared) \in Nat /\ DOMAIN prepared = 1..Len(prepared)
         /\ \A n \in 1..Len(prepared) : prepared[n] \in Handles
         /\ \A r \in Sets : sets[r] \in ResultSets
<1>1. Len(prepared) \in Nat /\ DOMAIN prepared = 1..Len(prepared) /\ prepared \in [1..Len(prepared) -> Handles]
  BY LenProperties DEF IndInv, ShapeInv
<1> QED BY <1>1 DEF IndInv, ShapeInv, TypeOK

\* Two Statements never share a handle.
LEMMA HandlesApart ==
  ASSUME IndInv, NEW s \in Stmts, NEW t \in Stmts, stmts[s].handle = stmts[t].handle,
         stmts[s].handle # 0
  PROVE  s = t
  BY DEF IndInv, BuffersHaveOneOwner

-----------------------------------------------------------------------------
(* Results that are left alone *)

LEMMA InStepFrame ==
  ASSUME NEW x, InStep(x), stmts'[x.stmt] = stmts[x.stmt],
         prepared'[stmts[x.stmt].handle] = prepared[stmts[x.stmt].handle]
  PROVE  InStep(x)'
  BY DEF InStep

LEMMA InStepOf ==
  ASSUME NEW y, NEW r, sets'[r] = y, InStep(y)'
  PROVE  InStep(sets[r])'
  BY DEF InStep

\* A step that changes only the Statements in some and what they own.
LEMMA CalmFrame ==
  ASSUME IndInv, NEW some, NEW r \in Sets, sets'[r] = Disturbed(some)[r],
         \A s \in Stmts \ some : stmts[s].live /\ stmts[s].handle # 0 =>
             stmts'[s] = stmts[s] /\ prepared'[stmts[s].handle] = prepared[stmts[s].handle]
  PROVE  /\ sets'[r] \in ResultSets
         /\ sets'[r].kind = "prepared" /\ sets'[r].calm => InStep(sets[r])'
<1>1. PICK x \in ResultSets : x = sets[r]
  BY Typing
<1>2. CASE x.stmt \in some
  <2>1. sets'[r] = [x EXCEPT !.calm = FALSE]
    BY <1>1, <1>2 DEF Disturbed
  <2>2. [x EXCEPT !.calm = FALSE] \in ResultSets /\ ~[x EXCEPT !.calm = FALSE].calm
    BY DEF ResultSets
  <2> QED BY <2>1, <2>2
<1>3. CASE x.stmt \notin some
  <2>1. sets'[r] = x
    BY <1>1, <1>3 DEF Disturbed
  <2>2. ASSUME x.kind = "prepared", x.calm PROVE InStep(x)'
    <3>1. InStep(x)
      BY <1>1, <2>2 DEF IndInv, CalmInv
    <3>2. x.stmt \in Stmts \ some /\ stmts[x.stmt].live /\ stmts[x.stmt].handle # 0
      BY <1>3, <3>1 DEF InStep
    <3> QED BY <3>1, <3>2, InStepFrame
  <2>3. InStep(x)' => InStep(sets[r])'
    BY <2>1 DEF InStep
  <2> QED BY <2>1, <2>2, <2>3
<1> QED BY <1>2, <1>3

\* The same for all results at once.
LEMMA DisturbedInd ==
  ASSUME IndInv, NEW some, sets' = Disturbed(some),
         \A s \in Stmts \ some : stmts[s].live /\ stmts[s].handle # 0 =>
             stmts'[s] = stmts[s] /\ prepared'[stmts[s].handle] = prepared[stmts[s].handle]
  PROVE  sets' \in [Sets -> ResultSets] /\ CalmInv'
<1>1. \A r \in Sets : /\ sets'[r] \in ResultSets
                      /\ sets'[r].kind = "prepared" /\ sets'[r].calm => InStep(sets[r])'
  BY CalmFrame
<1>2. sets' \in [Sets -> ResultSets]
  BY <1>1 DEF Disturbed
<1> QED BY <1>1, <1>2 DEF CalmInv

\* No result is touched.
LEMMA UndisturbedInd ==
  ASSUME IndInv, sets' = sets,
         \A s \in Stmts : stmts[s].live /\ stmts[s].handle # 0 =>
             stmts'[s] = stmts[s] /\ prepared'[stmts[s].handle] = prepared[stmts[s].handle]
  PROVE  sets' \in [Sets -> ResultSets] /\ CalmInv'
<1>1. \A r \in Sets : sets'[r] = Disturbed({})[r]
  BY DEF Disturbed
<1>2. \A r \in Sets : sets'[r].kind = "prepared" /\ sets'[r].calm => InStep(sets[r])'
  BY <1>1, CalmFrame
<1> QED BY <1>2 DEF CalmInv, IndInv, ShapeInv

\* The type invariant from the shape.
LEMMA TypeFromShape ==
  ASSUME ShapeInv', Len(prepared') <= MaxPrepared, runs' <= MaxRuns,
         \A s \in Stmts : stmts'[s].handle \in 0..Len(prepared') /\ stmts'[s].block \in 0..Len(prepared'),
         \A n \in DOMAIN prepared' : prepared'[n].pos <= Len(prepared'[n].rows)
  PROVE  TypeOK'
<1>1. \A r \in Sets : sets'[r].rows \in Tables \cup {<< >>}
  BY ResultFields DEF ShapeInv
<1> QED BY <1>1 DEF TypeOK

-----------------------------------------------------------------------------
(* The steps *)

LEMMA InitInd == Init => IndInv
<1> SUFFICES ASSUME Init PROVE IndInv
  OBVIOUS
<1>1. prepared = << >> /\ prepared \in Seq(Handles) /\ Len(prepared) = 0 /\ DOMAIN prepared = {}
  BY DEF Init
<1>2. /\ \A s \in Stmts : stmts[s] = Dead
      /\ \A r \in Sets : sets[r] = NoResult
      /\ stmts \in [Stmts -> Statements] /\ sets \in [Sets -> ResultSets] /\ runs = 0
  BY Empties DEF Init
<1>3. ShapeInv
  BY <1>1, <1>2 DEF ShapeInv
<1>4. TypeOK
  BY <1>1, <1>2, Empties, BoundAssumption DEF TypeOK
<1>5. BuffersHaveOneOwner /\ FitInv
  BY <1>1, <1>2, Empties DEF BuffersHaveOneOwner, FitInv
<1>6. CalmInv
  BY <1>2, Empties DEF CalmInv
<1> QED BY <1>3, <1>4, <1>5, <1>6 DEF IndInv

\* Statement's constructor: a handle and buffers nobody had.
LEMMA PreparedInd ==
  ASSUME IndInv, NEW s \in Stmts, NEW q \in Queries, Prepare(s, q), prepared' # prepared
  PROVE  IndInv'
<1> DEFINE n == Len(prepared) + 1
           st == [live |-> TRUE, handle |-> n, block |-> n, query |-> q, numField |-> Len(q)]
           p == [open |-> TRUE, allocated |-> TRUE, run |-> 0, rows |-> << >>, pos |-> 0,
                 data |-> [c \in DOMAIN q |-> Unset]]
<1>1. /\ ~stmts[s].live /\ Len(prepared) < MaxPrepared
      /\ stmts' = [stmts EXCEPT ![s] = st] /\ prepared' = Append(prepared, p)
      /\ UNCHANGED <<sets, runs, fault>>
  BY DEF Prepare
<1>2. n \in Nat /\ n # 0 /\ Len(prepared) \in Nat /\ DOMAIN prepared = 1..Len(prepared)
  BY Typing
<1>3. st \in Statements /\ st.handle = n /\ st.block = n /\ st.live /\ st.query = q
  BY <1>2, QueryDomain DEF Statements
<1>4. p \in Handles /\ p.open /\ p.allocated /\ p.pos = 0 /\ p.rows = << >> /\ DOMAIN p.data = DOMAIN q
  <2>1. [c \in DOMAIN q |-> Unset] \in Seq(Seq(Nat))
    <3>1. [c \in DOMAIN q |-> Unset] \in [DOMAIN q -> Seq(Nat)]
      BY DEF Unset
    <3> QED BY <3>1, QueryDomain, SameLength
  <2> QED BY <2>1 DEF Handles
<1> HIDE DEF st, p
<1>5. /\ prepared' \in Seq(Handles) /\ Len(prepared') = n /\ DOMAIN prepared' = 1..n
      /\ prepared'[n] = p /\ \A i \in 1..Len(prepared) : prepared'[i] = prepared[i]
  <2>1. prepared \in Seq(Handles)
    BY DEF IndInv, ShapeInv
  <2>2. /\ prepared' \in Seq(Handles) /\ Len(prepared') = n /\ prepared'[n] = p
        /\ \A i \in 1..Len(prepared) : prepared'[i] = prepared[i]
    BY <1>1, <1>4, <2>1, AppendProperties
  <2>3. DOMAIN prepared' = 1..n
    BY <2>2, LenProperties
  <2> QED BY <2>2, <2>3
<1>6. /\ stmts' \in [Stmts -> Statements] /\ stmts'[s] = st
      /\ \A t \in Stmts : t # s => stmts'[t] = stmts[t]
  BY <1>1, <1>3 DEF IndInv, ShapeInv
<1>7. stmts[s].handle = 0 /\ stmts[s].block = 0
  BY <1>1 DEF IndInv, FitInv
<1>8. ShapeInv'
  BY <1>1, <1>5, <1>6 DEF IndInv, ShapeInv
<1>9. TypeOK'
  <2>1. \A t \in Stmts : stmts'[t].handle \in 0..Len(prepared') /\ stmts'[t].block \in 0..Len(prepared')
    BY <1>2, <1>3, <1>5, <1>6, Typing
  <2>2. \A i \in DOMAIN prepared' : prepared'[i].pos <= Len(prepared'[i].rows)
    <3>1. p.pos <= Len(p.rows)
      BY <1>4
    <3>2. \A i \in 1..n : i = n \/ i \in 1..Len(prepared)
      BY <1>2
    <3> QED BY <1>2, <1>5, <3>1, <3>2 DEF IndInv, TypeOK
  <2>3. Len(prepared') <= MaxPrepared /\ runs' <= MaxRuns
    <3>1. Len(prepared) < MaxPrepared /\ runs' = runs /\ Len(prepared') = n
      BY <1>1, <1>5
    <3>2. Len(prepared') <= MaxPrepared
      BY <1>2, <3>1, BoundAssumption
    <3> QED BY <3>1, <3>2 DEF IndInv, TypeOK
  <2> QED BY <1>8, <2>1, <2>2, <2>3, TypeFromShape
<1>10. BuffersHaveOneOwner'
  <2>1. \A t \in Stmts \ {s} : stmts[t].handle # n /\ stmts[t].block # n
    BY <1>2, Typing
  <2>2. ASSUME NEW i \in DOMAIN prepared'
        PROVE  /\ prepared'[i].allocated <=> \E t \in Stmts : stmts'[t].block = i
               /\ prepared'[i].open <=> \E t \in Stmts : stmts'[t].handle = i
    <3>1. CASE i = n
      BY <1>3, <1>4, <1>5, <1>6, <3>1
    <3>2. CASE i # n
      <4>1. i \in DOMAIN prepared /\ prepared'[i] = prepared[i] /\ i # 0
        BY <1>2, <1>5, <3>2
      <4> QED BY <1>3, <1>6, <1>7, <3>2, <4>1 DEF IndInv, BuffersHaveOneOwner
    <3> QED BY <3>1, <3>2
  <2>3. \A t \in Stmts : stmts'[t].handle # 0 => stmts'[t].block = stmts'[t].handle
    BY <1>3, <1>6 DEF IndInv, BuffersHaveOneOwner
  <2>4. \A t, u \in Stmts : stmts'[t].block = stmts'[u].block /\ stmts'[t].block # 0 => t = u
    BY <1>3, <1>6, <2>1 DEF IndInv, BuffersHaveOneOwner
  <2> QED BY <2>2, <2>3, <2>4 DEF BuffersHaveOneOwner
<1>11. FitInv'
  <2>1. \A t \in Stmts \ {s} : stmts[t].block # 0 => prepared'[stmts[t].block] = prepared[stmts[t].block]
    BY <1>2, <1>5, Typing
  <2> QED BY <1>3, <1>4, <1>5, <1>6, <2>1 DEF IndInv, FitInv
<1>12. CalmInv'
  <2>1. \A t \in Stmts : stmts[t].live /\ stmts[t].handle # 0 =>
           stmts'[t] = stmts[t] /\ prepared'[stmts[t].handle] = prepared[stmts[t].handle]
    <3>1. \A t \in Stmts : stmts[t].handle # 0 => stmts[t].handle \in 1..Len(prepared)
      BY Typing
    <3> QED BY <1>1, <1>5, <1>6, <3>1
  <2> QED BY <1>1, <2>1, UndisturbedInd
<1> QED BY <1>8, <1>9, <1>10, <1>11, <1>12 DEF IndInv

\* Statement's constructor when the text cannot be prepared: a null handle.
LEMMA UnpreparedInd ==
  ASSUME IndInv, NEW s \in Stmts, NEW q \in Queries, Prepare(s, q), prepared' = prepared
  PROVE  IndInv'
<1>1. PICK n \in Nat : /\ stmts' = [stmts EXCEPT ![s] = [Dead EXCEPT !.live = TRUE, !.numField = n]]
                       /\ ~stmts[s].live /\ UNCHANGED <<prepared, sets, runs, fault>>
  <2>1. prepared # Append(prepared, [open |-> TRUE, allocated |-> TRUE, run |-> 0, rows |-> << >>,
                                     pos |-> 0, data |-> [c \in DOMAIN q |-> Unset]])
    <3> DEFINE p == [open |-> TRUE, allocated |-> TRUE, run |-> 0, rows |-> << >>,
                     pos |-> 0, data |-> [c \in DOMAIN q |-> Unset]]
    <3> HIDE DEF p
    <3>1. prepared \in Seq(Handles \cup {p}) /\ p \in Handles \cup {p}
      BY SeqMonotonic DEF IndInv, ShapeInv
    <3>2. Len(Append(prepared, p)) = Len(prepared) + 1 /\ Len(prepared) \in Nat
      BY <3>1, AppendProperties, LenProperties
    <3>3. prepared # Append(prepared, p)
      BY <3>2
    <3> QED BY <3>3 DEF p
  <2>2. 0 \in Nat /\ Len(q) \in Nat
    BY QueryDomain
  <2> QED BY <2>1, <2>2 DEF Prepare
<1>2. PICK st \in Statements : /\ st = [Dead EXCEPT !.live = TRUE, !.numField = n]
                               /\ st.handle = 0 /\ st.block = 0 /\ st.live /\ st.query = << >>
  <2> DEFINE e == [Dead EXCEPT !.live = TRUE, !.numField = n]
  <2>1. e \in Statements /\ e.handle = 0 /\ e.block = 0 /\ e.live /\ e.query = << >>
    BY DEF Dead, Statements
  <2> HIDE DEF e
  <2>2. \E st \in Statements : st = e /\ st.handle = 0 /\ st.block = 0 /\ st.live /\ st.query = << >>
    BY <2>1
  <2> QED BY <2>2 DEF e
<1>3. /\ stmts' \in [Stmts -> Statements] /\ stmts'[s] = st
      /\ \A t \in Stmts : t # s => stmts'[t] = stmts[t]
  BY <1>1, <1>2 DEF IndInv, ShapeInv
<1>4. \A t \in Stmts : stmts'[t].handle = stmts[t].handle /\ stmts'[t].block = stmts[t].block
  BY <1>1, <1>2, <1>3 DEF IndInv, FitInv
<1>5. ShapeInv' /\ TypeOK'
  BY <1>1, <1>3, <1>4 DEF IndInv, ShapeInv, TypeOK
<1>6. BuffersHaveOneOwner'
  BY <1>1, <1>4 DEF IndInv, BuffersHaveOneOwner
<1>7. FitInv'
  BY <1>1, <1>2, <1>3 DEF IndInv, FitInv
<1>8. CalmInv'
  BY <1>1, <1>3, UndisturbedInd
<1> QED BY <1>5, <1>6, <1>7, <1>8 DEF IndInv

\* Statement(Statement&&): everything s had is d's.
LEMMA MoveConstructInd ==
  ASSUME IndInv, NEW d \in Stmts, NEW s \in Stmts, MoveConstruct(d, s)
  PROVE  IndInv'
<1>1. PICK st \in Statements : st = stmts[s]
  BY Typing
<1>2. PICK old \in Statements :
          /\ old = [st EXCEPT !.handle = 0, !.block = 0, !.query = << >>]
          /\ old.handle = 0 /\ old.block = 0 /\ old.query = << >> /\ old.live = st.live
  <2>1. 0 \in Nat /\ << >> \in Queries \cup {<< >>}
    OBVIOUS
  <2> QED BY <2>1, MovedFrom, Zenon
<1>3. /\ ~stmts[d].live /\ st.live /\ sets' = Disturbed({s})
      /\ stmts' = [stmts EXCEPT ![d] = stmts[s], ![s].handle = 0, ![s].block = 0, ![s].query = << >>]
      /\ UNCHANGED <<prepared, runs, fault>>
  BY <1>1 DEF MoveConstruct
<1>4. d # s
  BY <1>1, <1>3
<1>5. stmts' = [stmts EXCEPT ![d] = st, ![s] = old]
  BY <1>1, <1>2, <1>3, <1>4 DEF IndInv, ShapeInv
<1>6. /\ stmts' \in [Stmts -> Statements] /\ stmts'[d] = st /\ stmts'[s] = old
      /\ \A t \in Stmts : t # s /\ t # d => stmts'[t] = stmts[t]
  BY <1>4, <1>5 DEF IndInv, ShapeInv
<1>7. old.handle = 0 /\ old.block = 0 /\ old.query = << >> /\ old.live /\ st.live
  BY <1>2, <1>3
<1>8. stmts[d].handle = 0 /\ stmts[d].block = 0 /\ ~stmts[d].live
  BY <1>3 DEF IndInv, FitInv
<1>9. /\ sets' = Disturbed({s}) /\ UNCHANGED <<prepared, runs>>
  BY <1>3
<1>10. CalmInv' /\ sets' \in [Sets -> ResultSets]
  BY <1>6, <1>8, <1>9, DisturbedInd
<1>11. ShapeInv'
  BY <1>6, <1>9, <1>10 DEF IndInv, ShapeInv
<1>12. TypeOK'
  <2>1. \A t \in Stmts : stmts'[t].handle \in 0..Len(prepared) /\ stmts'[t].block \in 0..Len(prepared)
    BY <1>1, <1>6, <1>7, Typing
  <2> QED BY <1>9, <1>11, <2>1, TypeFromShape DEF IndInv, TypeOK
<1>13. BuffersHaveOneOwner'
  <2>1. \A n \in DOMAIN prepared : n # 0
    BY Typing
  <2>2. \A n \in DOMAIN prepared : prepared[n].allocated <=> \E t \in Stmts : stmts'[t].block = n
    BY <1>1, <1>4, <1>6, <1>7, <1>8, <2>1 DEF IndInv, BuffersHaveOneOwner
  <2>3. \A n \in DOMAIN prepared : prepared[n].open <=> \E t \in Stmts : stmts'[t].handle = n
    BY <1>1, <1>4, <1>6, <1>7, <1>8, <2>1 DEF IndInv, BuffersHaveOneOwner
  <2>4. \A t \in Stmts : stmts'[t].handle # 0 => stmts'[t].block = stmts'[t].handle
    BY <1>1, <1>6, <1>7 DEF IndInv, BuffersHaveOneOwner
  <2>5. \A t, u \in Stmts : stmts'[t].block = stmts'[u].block /\ stmts'[t].block # 0 => t = u
    BY <1>1, <1>6, <1>7 DEF IndInv, BuffersHaveOneOwner
  <2> QED BY <1>9, <2>2, <2>3, <2>4, <2>5 DEF BuffersHaveOneOwner
<1>14. FitInv'
  BY <1>1, <1>6, <1>7, <1>9 DEF IndInv, FitInv
<1> QED BY <1>10, <1>11, <1>12, <1>13, <1>14 DEF IndInv

\* operator=(Statement&&): d's handle is closed and its buffers go to s.
LEMMA MoveAssignInd ==
  ASSUME IndInv, NEW d \in Stmts, NEW s \in Stmts, MoveAssign(d, s)
  PROVE  IndInv'
<1>1. PICK st \in Statements, dt \in Statements : st = stmts[s] /\ dt = stmts[d]
  BY Typing
<1>2. PICK old \in Statements :
          /\ old = [st EXCEPT !.handle = 0, !.block = dt.block, !.query = dt.query]
          /\ old.handle = 0 /\ old.block = dt.block /\ old.query = dt.query /\ old.live = st.live
  <2>1. dt.block \in Nat /\ dt.query \in Queries \cup {<< >>}
    BY StatementFields
  <2>2. \A b \in Nat, q \in Queries \cup {<< >>} : \E old \in Statements :
            /\ old = [st EXCEPT !.handle = 0, !.block = b, !.query = q]
            /\ old.handle = 0 /\ old.block = b /\ old.query = q /\ old.live = st.live
    BY MovedFrom
  <2> QED BY <2>1, <2>2, Zenon
<1>3. /\ d # s /\ dt.live /\ st.live
      /\ stmts' = [stmts EXCEPT ![d] = stmts[s], ![s].handle = 0, ![s].block = stmts[d].block,
                                ![s].query = stmts[d].query]
      /\ prepared' = [n \in DOMAIN prepared |->
             IF n = dt.handle THEN [prepared[n] EXCEPT !.open = FALSE] ELSE prepared[n]]
      /\ sets' = Disturbed({d, s}) /\ UNCHANGED <<runs, fault>>
  BY <1>1 DEF MoveAssign
<1>4. stmts' = [stmts EXCEPT ![d] = st, ![s] = old]
  BY <1>1, <1>2, <1>3 DEF IndInv, ShapeInv
<1>5. /\ stmts' \in [Stmts -> Statements] /\ stmts'[d] = st /\ stmts'[s] = old
      /\ \A t \in Stmts : t # s /\ t # d => stmts'[t] = stmts[t]
  <2>1. d # s
    BY <1>3
  <2> QED BY <1>4, <2>1 DEF IndInv, ShapeInv
<1>6. /\ old.handle = 0 /\ old.block = dt.block /\ old.query = dt.query /\ old.live /\ st.live /\ dt.live
      /\ d # s
  BY <1>2, <1>3
<1>7. \A n \in DOMAIN prepared :
         /\ prepared'[n] \in Handles
         /\ n # dt.handle => prepared'[n] = prepared[n]
         /\ prepared'[n].allocated <=> prepared[n].allocated
         /\ prepared'[n].open <=> (prepared[n].open /\ n # dt.handle)
         /\ prepared'[n].pos = prepared[n].pos /\ prepared'[n].rows = prepared[n].rows
         /\ prepared'[n].data = prepared[n].data
  <2> SUFFICES ASSUME NEW n \in DOMAIN prepared PROVE <1>7!(n)
    OBVIOUS
  <2>1. prepared[n] \in Handles
    BY Typing
  <2>2. CASE n = dt.handle
    <3>1. prepared'[n] = [prepared[n] EXCEPT !.open = FALSE]
      BY <1>3, <2>2
    <3> QED BY <2>1, <2>2, <3>1 DEF Handles
  <2>3. CASE n # dt.handle
    <3>1. prepared'[n] = prepared[n]
      BY <1>3, <2>3
    <3> QED BY <2>1, <2>3, <3>1
  <2> QED BY <2>2, <2>3
<1>8. prepared' \in Seq(Handles) /\ Len(prepared') = Len(prepared) /\ DOMAIN prepared' = DOMAIN prepared
  <2>1. prepared' \in [DOMAIN prepared -> Handles]
    BY <1>3, <1>7
  <2> QED BY <2>1, SameLength DEF IndInv, ShapeInv
<1>9. sets' = Disturbed({d, s}) /\ UNCHANGED <<runs, fault>>
  BY <1>3
<1>10. CalmInv' /\ sets' \in [Sets -> ResultSets]
  <2>1. \A t \in Stmts \ {d, s} : stmts[t].handle # 0 =>
           stmts[t].handle \in DOMAIN prepared /\ stmts[t].handle # dt.handle
    BY <1>1, Typing, HandlesApart
  <2> QED BY <1>5, <1>7, <1>9, <2>1, DisturbedInd
<1>11. ShapeInv'
  BY <1>5, <1>8, <1>9, <1>10 DEF IndInv, ShapeInv
<1>12. TypeOK'
  <2>1. \A t \in Stmts : stmts'[t].handle \in 0..Len(prepared) /\ stmts'[t].block \in 0..Len(prepared)
    BY <1>1, <1>5, <1>6, Typing
  <2>2. \A n \in DOMAIN prepared' : prepared'[n].pos <= Len(prepared'[n].rows)
    BY <1>7, <1>8 DEF IndInv, TypeOK
  <2> QED BY <1>8, <1>9, <1>11, <2>1, <2>2, TypeFromShape DEF IndInv, TypeOK
<1>13. BuffersHaveOneOwner'
  <2>1. \A n \in DOMAIN prepared : n # 0
    BY Typing
  <2>2. \A n \in DOMAIN prepared : prepared[n].allocated <=> \E t \in Stmts : stmts'[t].block = n
    BY <1>1, <1>5, <1>6, <2>1 DEF IndInv, BuffersHaveOneOwner
  <2>3. \A n \in DOMAIN prepared : (prepared[n].open /\ n # dt.handle) <=> \E t \in Stmts : stmts'[t].handle = n
    <3>1. \A t \in Stmts : stmts[t].handle = dt.handle /\ dt.handle # 0 => t = d
      BY <1>1, HandlesApart
    <3> QED BY <1>1, <1>5, <1>6, <2>1, <3>1 DEF IndInv, BuffersHaveOneOwner
  <2>4. \A t \in Stmts : stmts'[t].handle # 0 => stmts'[t].block = stmts'[t].handle
    BY <1>1, <1>5, <1>6 DEF IndInv, BuffersHaveOneOwner
  <2>5. \A t, u \in Stmts : stmts'[t].block = stmts'[u].block /\ stmts'[t].block # 0 => t = u
    BY <1>1, <1>5, <1>6 DEF IndInv, BuffersHaveOneOwner
  <2> QED BY <1>7, <1>8, <2>2, <2>3, <2>4, <2>5 DEF BuffersHaveOneOwner
<1>14. FitInv'
  <2>1. \A t \in Stmts : stmts[t].block # 0 => stmts[t].block \in DOMAIN prepared
    BY Typing
  <2> QED BY <1>1, <1>5, <1>6, <1>7, <2>1 DEF IndInv, FitInv
<1> QED BY <1>10, <1>11, <1>12, <1>13, <1>14 DEF IndInv

\* ~Statement: what it owned is freed and closed, and nobody else had it.
LEMMA DestroyInd ==
  ASSUME IndInv, NEW s \in Stmts, Destroy(s)
  PROVE  IndInv'
<1>1. PICK st \in Statements : st = stmts[s]
  BY Typing
<1>2. /\ stmts' = [stmts EXCEPT ![s] = Dead]
      /\ prepared' = [n \in DOMAIN prepared |->
             [prepared[n] EXCEPT !.allocated = @ /\ n # st.block, !.open = @ /\ n # st.handle]]
      /\ sets' = Disturbed({s}) /\ UNCHANGED <<runs, fault>>
  BY <1>1 DEF Destroy
<1>3. /\ stmts' \in [Stmts -> Statements] /\ stmts'[s] = Dead
      /\ \A t \in Stmts : t # s => stmts'[t] = stmts[t]
  BY <1>2, Empties DEF IndInv, ShapeInv
<1>4. \A n \in DOMAIN prepared :
         /\ prepared'[n] \in Handles
         /\ n # st.handle /\ n # st.block => prepared'[n] = prepared[n]
         /\ prepared'[n].allocated <=> (prepared[n].allocated /\ n # st.block)
         /\ prepared'[n].open <=> (prepared[n].open /\ n # st.handle)
         /\ prepared'[n].pos = prepared[n].pos /\ prepared'[n].rows = prepared[n].rows
         /\ prepared'[n].data = prepared[n].data
  <2> SUFFICES ASSUME NEW n \in DOMAIN prepared PROVE <1>4!(n)
    OBVIOUS
  <2>1. prepared[n] \in Handles
    BY Typing
  <2>2. prepared'[n] = [prepared[n] EXCEPT !.allocated = prepared[n].allocated /\ n # st.block,
                                           !.open = prepared[n].open /\ n # st.handle]
    BY <1>2, <2>1 DEF Handles
  <2>3. PICK a \in BOOLEAN, o \in BOOLEAN :
            a = (prepared[n].allocated /\ n # st.block) /\ o = (prepared[n].open /\ n # st.handle)
    OBVIOUS
  <2>4. prepared[n].allocated \in BOOLEAN /\ prepared[n].open \in BOOLEAN
    BY <2>1, HandleFields
  <2>5. /\ prepared'[n] \in Handles /\ prepared'[n].allocated = a /\ prepared'[n].open = o
        /\ prepared'[n].pos = prepared[n].pos /\ prepared'[n].rows = prepared[n].rows
        /\ prepared'[n].data = prepared[n].data
        /\ a = prepared[n].allocated /\ o = prepared[n].open => prepared'[n] = prepared[n]
    <3>1. prepared'[n] = [prepared[n] EXCEPT !.allocated = a, !.open = o]
      BY <2>2, <2>3, Zenon
    <3>2. PICK x \in Handles : x = prepared[n]
      BY <2>1
    <3> DEFINE e == prepared'[n]
    <3>3. e = [x EXCEPT !.allocated = a, !.open = o]
      BY <3>1, <3>2
    <3> HIDE DEF e
    <3>4. /\ e \in Handles /\ e.allocated = a /\ e.open = o
          /\ e.pos = x.pos /\ e.rows = x.rows /\ e.data = x.data
          /\ a = x.allocated /\ o = x.open => e = x
      BY <3>3 DEF Handles
    <3> QED BY <3>2, <3>4 DEF e
  <2> QED BY <2>3, <2>4, <2>5
<1>5. prepared' \in Seq(Handles) /\ Len(prepared') = Len(prepared) /\ DOMAIN prepared' = DOMAIN prepared
  <2>1. prepared' \in [DOMAIN prepared -> Handles]
    BY <1>2, <1>4
  <2> QED BY <2>1, SameLength DEF IndInv, ShapeInv
<1>6. sets' = Disturbed({s}) /\ UNCHANGED <<runs, fault>>
  BY <1>2
<1>7. \A t \in Stmts \ {s} :
         /\ stmts[t].block # 0 => stmts[t].block \in DOMAIN prepared /\ stmts[t].block # st.block
         /\ stmts[t].handle # 0 => stmts[t].handle = stmts[t].block
  BY <1>1, Typing DEF IndInv, BuffersHaveOneOwner
<1>8. st.handle \in {0, st.block}
  BY <1>1 DEF IndInv, BuffersHaveOneOwner
<1>9. CalmInv' /\ sets' \in [Sets -> ResultSets]
  <2>1. ASSUME NEW t \in Stmts \ {s}, stmts[t].handle # 0
        PROVE  stmts'[t] = stmts[t] /\ prepared'[stmts[t].handle] = prepared[stmts[t].handle]
    <3>1. /\ stmts[t].handle \in DOMAIN prepared
          /\ stmts[t].handle # st.block /\ stmts[t].handle # st.handle
      BY <1>7, <1>8, <2>1
    <3> QED BY <1>3, <1>4, <3>1
  <2> QED BY <1>6, <2>1, DisturbedInd
<1>10. ShapeInv'
  BY <1>3, <1>5, <1>6, <1>9 DEF IndInv, ShapeInv
<1>11. TypeOK'
  <2>1. \A t \in Stmts : stmts'[t].handle \in 0..Len(prepared) /\ stmts'[t].block \in 0..Len(prepared)
    BY <1>3, Typing, Empties
  <2>2. \A n \in DOMAIN prepared' : prepared'[n].pos <= Len(prepared'[n].rows)
    BY <1>4, <1>5 DEF IndInv, TypeOK
  <2> QED BY <1>5, <1>6, <1>10, <2>1, <2>2, TypeFromShape DEF IndInv, TypeOK
<1>12. BuffersHaveOneOwner'
  <2>1. \A n \in DOMAIN prepared : n # 0
    BY Typing
  <2>2. \A n \in DOMAIN prepared :
           (prepared[n].allocated /\ n # st.block) <=> \E t \in Stmts : stmts'[t].block = n
    BY <1>1, <1>3, <1>7, <2>1, Empties DEF IndInv, BuffersHaveOneOwner
  <2>3. \A n \in DOMAIN prepared :
           (prepared[n].open /\ n # st.handle) <=> \E t \in Stmts : stmts'[t].handle = n
    <3>1. \A t \in Stmts : stmts[t].handle = st.handle /\ st.handle # 0 => t = s
      BY <1>1, HandlesApart
    <3> QED BY <1>1, <1>3, <2>1, <3>1, Empties DEF IndInv, BuffersHaveOneOwner
  <2>4. \A t \in Stmts : stmts'[t].handle # 0 => stmts'[t].block = stmts'[t].handle
    BY <1>3, Empties DEF IndInv, BuffersHaveOneOwner
  <2>5. \A t, u \in Stmts : stmts'[t].block = stmts'[u].block /\ stmts'[t].block # 0 => t = u
    BY <1>3, Empties DEF IndInv, BuffersHaveOneOwner
  <2> QED BY <1>4, <1>5, <2>2, <2>3, <2>4, <2>5 DEF BuffersHaveOneOwner
<1>13. FitInv'
  BY <1>3, <1>4, <1>7, Empties DEF IndInv, FitInv
<1> QED BY <1>9, <1>10, <1>11, <1>12, <1>13 DEF IndInv

\* A call whose outcome is undefined, and the program that has met one.
LEMMA FrameInd ==
  ASSUME IndInv, UNCHANGED <<stmts, prepared, sets, runs>>
  PROVE  IndInv'
<1>1. ShapeInv' /\ TypeOK'
  BY DEF IndInv, ShapeInv, TypeOK
<1>2. BuffersHaveOneOwner' /\ FitInv'
  BY DEF IndInv, BuffersHaveOneOwner, FitInv
<1>3. CalmInv'
  BY UndisturbedInd
<1> QED BY <1>1, <1>2, <1>3 DEF IndInv

\* A step that changes the run, the rows, the cursor and the values behind one
\* handle, and the results, but no Statement.
LEMMA CursorInd ==
  ASSUME IndInv, NEW h \in DOMAIN prepared, NEW p \in Handles,
         stmts' = stmts, prepared' = [prepared EXCEPT ![h] = p],
         p.open = prepared[h].open, p.allocated = prepared[h].allocated,
         DOMAIN p.data = DOMAIN prepared[h].data, p.pos <= Len(p.rows),
         runs' \in Nat, runs' <= MaxRuns, sets' \in [Sets -> ResultSets], CalmInv'
  PROVE  IndInv'
<1>1. /\ prepared' \in Seq(Handles) /\ Len(prepared') = Len(prepared) /\ DOMAIN prepared' = DOMAIN prepared
      /\ prepared'[h] = p /\ \A n \in DOMAIN prepared : n # h => prepared'[n] = prepared[n]
  <2>1. prepared' \in [DOMAIN prepared -> Handles]
    BY Typing
  <2>2. prepared' \in Seq(Handles) /\ Len(prepared') = Len(prepared) /\ DOMAIN prepared' = DOMAIN prepared
    BY <2>1, SameLength DEF IndInv, ShapeInv
  <2> QED BY <2>2
<1>2. ShapeInv'
  BY <1>1 DEF IndInv, ShapeInv
<1>3. TypeOK'
  <2>1. \A n \in DOMAIN prepared' : prepared'[n].pos <= Len(prepared'[n].rows)
    BY <1>1 DEF IndInv, TypeOK
  <2>2. \A s \in Stmts : stmts'[s].handle \in 0..Len(prepared') /\ stmts'[s].block \in 0..Len(prepared')
    BY <1>1, Typing
  <2>3. Len(prepared') <= MaxPrepared
    BY <1>1 DEF IndInv, TypeOK
  <2> QED BY <1>2, <2>1, <2>2, <2>3, TypeFromShape
<1>4. BuffersHaveOneOwner'
  <2>1. \A n \in DOMAIN prepared :
           prepared'[n].open = prepared[n].open /\ prepared'[n].allocated = prepared[n].allocated
    BY <1>1
  <2> QED BY <1>1, <2>1 DEF IndInv, BuffersHaveOneOwner
<1>5. FitInv'
  <2>1. \A n \in DOMAIN prepared : DOMAIN prepared'[n].data = DOMAIN prepared[n].data
    BY <1>1
  <2>2. \A s \in Stmts : stmts[s].block # 0 => stmts[s].block \in DOMAIN prepared
    BY Typing
  <2> QED BY <2>1, <2>2 DEF IndInv, FitInv
<1> QED BY <1>2, <1>3, <1>4, <1>5 DEF IndInv

\* Only the handle of s changes: the results of the other Statements are in step.
LEMMA OtherHandles ==
  ASSUME IndInv, NEW s \in Stmts, stmts[s].handle # 0, stmts' = stmts,
         NEW p, prepared' = [prepared EXCEPT ![stmts[s].handle] = p]
  PROVE  /\ stmts[s].handle \in DOMAIN prepared
         /\ prepared'[stmts[s].handle] = p
         /\ \A t \in Stmts \ {s} : stmts[t].live /\ stmts[t].handle # 0 =>
               stmts'[t] = stmts[t] /\ prepared'[stmts[t].handle] = prepared[stmts[t].handle]
<1>1. \A t \in Stmts : stmts[t].handle # 0 => stmts[t].handle \in DOMAIN prepared
  BY Typing
<1>2. \A t \in Stmts \ {s} : stmts[t].handle # stmts[s].handle
  BY HandlesApart
<1>3. prepared \in [DOMAIN prepared -> Handles]
  BY Typing DEF IndInv, ShapeInv
<1> QED BY <1>1, <1>2, <1>3

\* The server has run the statement again.
LEMMA ServerRunsInd ==
  ASSUME IndInv, NEW s \in Stmts, stmts[s].handle # 0, NEW rows \in Tables, ServerRuns(s, rows)
  PROVE  \E p \in Handles :
            /\ prepared' = [prepared EXCEPT ![stmts[s].handle] = p]
            /\ p.run = runs + 1 /\ p.rows = rows /\ p.pos = 0
            /\ p.open = prepared[stmts[s].handle].open
            /\ p.allocated = prepared[stmts[s].handle].allocated
            /\ p.data = prepared[stmts[s].handle].data
            /\ runs' = runs + 1 /\ runs' \in Nat /\ runs' <= MaxRuns
<1>1. PICK h \in DOMAIN prepared : h = stmts[s].handle
  BY Typing
<1>2. PICK old \in Handles : old = prepared[h]
  BY Typing
<1> DEFINE p == [old EXCEPT !.run = runs + 1, !.rows = rows, !.pos = 0]
<1>3. runs \in Nat /\ runs + 1 \in Nat /\ runs' = runs + 1 /\ runs < MaxRuns
  BY DEF IndInv, ShapeInv, ServerRuns
<1>4. /\ p \in Handles /\ p.run = runs + 1 /\ p.rows = rows /\ p.pos = 0
      /\ p.open = old.open /\ p.allocated = old.allocated /\ p.data = old.data
  BY <1>3 DEF Handles
<1>5. prepared' = [prepared EXCEPT ![h] = p]
  <2>1. prepared' = [prepared EXCEPT ![h].run = runs + 1, ![h].rows = rows, ![h].pos = 0]
    BY <1>1 DEF ServerRuns
  <2>2. prepared \in [DOMAIN prepared -> Handles]
    BY Typing DEF IndInv, ShapeInv
  <2> QED BY <1>2, <2>1, <2>2
<1> HIDE DEF p
<1>6. runs' \in Nat /\ runs' <= MaxRuns
  BY <1>3, BoundAssumption
<1> QED BY <1>1, <1>2, <1>3, <1>4, <1>5, <1>6, Zenon

\* executeUpdate on a live statement.
LEMMA UpdateInd ==
  ASSUME IndInv, NEW s \in Stmts, stmts[s].handle # 0, NEW rows \in Tables, ServerRuns(s, rows),
         stmts' = stmts, sets' = Disturbed({s})
  PROVE  IndInv'
<1>1. PICK p \in Handles :
          /\ prepared' = [prepared EXCEPT ![stmts[s].handle] = p]
          /\ p.run = runs + 1 /\ p.rows = rows /\ p.pos = 0
          /\ p.open = prepared[stmts[s].handle].open
          /\ p.allocated = prepared[stmts[s].handle].allocated
          /\ p.data = prepared[stmts[s].handle].data
          /\ runs' = runs + 1 /\ runs' \in Nat /\ runs' <= MaxRuns
  BY ServerRunsInd
<1>2. sets' \in [Sets -> ResultSets] /\ CalmInv'
  BY <1>1, OtherHandles, DisturbedInd
<1>3. p.pos <= Len(p.rows)
  BY <1>1, RowsDomain
<1> QED BY <1>1, <1>2, <1>3, OtherHandles, CursorInd

\* executeQuery on a live statement: the new result is in step with the cursor
\* the server has just put before the first row.
LEMMA QueryInd ==
  ASSUME IndInv, NEW s \in Stmts, stmts[s].live, stmts[s].handle # 0, NEW rows \in Tables,
         NEW r \in Sets, ServerRuns(s, rows), stmts' = stmts,
         NEW y \in {NoResult, NewPrepared(s, rows)}, sets' = [Disturbed({s}) EXCEPT ![r] = y]
  PROVE  IndInv'
<1>1. PICK p \in Handles :
          /\ prepared' = [prepared EXCEPT ![stmts[s].handle] = p]
          /\ p.run = runs + 1 /\ p.rows = rows /\ p.pos = 0
          /\ p.open = prepared[stmts[s].handle].open
          /\ p.allocated = prepared[stmts[s].handle].allocated
          /\ p.data = prepared[stmts[s].handle].data
          /\ runs' = runs + 1 /\ runs' \in Nat /\ runs' <= MaxRuns
  BY ServerRunsInd
<1>2. p.pos <= Len(p.rows) /\ Len(rows) \in Nat /\ DOMAIN rows = 1..Len(rows)
  BY <1>1, RowsDomain
<1>3. /\ stmts[s].handle \in DOMAIN prepared /\ prepared'[stmts[s].handle] = p
      /\ \A t \in Stmts \ {s} : stmts[t].live /\ stmts[t].handle # 0 =>
            stmts'[t] = stmts[t] /\ prepared'[stmts[t].handle] = prepared[stmts[t].handle]
  BY <1>1, OtherHandles
<1>4. sets'[r] = y /\ \A q \in Sets : q # r => sets'[q] = Disturbed({s})[q]
  BY DEF Disturbed
<1>5. y \in ResultSets /\ (y.kind = "prepared" => InStep(y)')
  <2>1. CASE y = NoResult
    BY <2>1, Empties
  <2>2. CASE y = NewPrepared(s, rows)
    <3>1. stmts[s].query \in Queries \cup {<< >>} /\ runs + 1 \in Nat
      BY <1>1, Typing, StatementFields
    <3>2. /\ y \in ResultSets /\ y.stmt = s /\ y.query = stmts[s].query /\ y.run = runs + 1
          /\ y.rows = rows /\ y.cur = 1
      BY <2>2, <3>1 DEF NewPrepared, ResultSets
    <3>3. InStep(y)'
      <4>1. y.cur \in 1..(Len(y.rows) + 2)
        BY <1>2, <3>2
      <4>2. p.pos = IF y.cur <= Len(y.rows) THEN y.cur - 1 ELSE Len(y.rows)
        BY <1>1, <1>2, <3>2
      <4> QED BY <1>1, <1>3, <3>2, <4>1, <4>2 DEF InStep
    <3> QED BY <3>2, <3>3
  <2> QED BY <2>1, <2>2
<1>6. \A q \in Sets : /\ sets'[q] \in ResultSets
                      /\ sets'[q].kind = "prepared" /\ sets'[q].calm => InStep(sets[q])'
  <2>1. ASSUME NEW q \in Sets, q # r
        PROVE  /\ sets'[q] \in ResultSets
               /\ sets'[q].kind = "prepared" /\ sets'[q].calm => InStep(sets[q])'
    BY <1>3, <1>4, <2>1, CalmFrame
  <2>2. InStep(y)' => InStep(sets[r])'
    BY <1>4 DEF InStep
  <2> QED BY <1>4, <1>5, <2>1, <2>2
<1>7. sets' \in [Sets -> ResultSets] /\ CalmInv'
  <2>1. sets' \in [Sets -> ResultSets]
    BY <1>6 DEF Disturbed
  <2> QED BY <1>6, <2>1 DEF CalmInv
<1> QED BY <1>1, <1>2, <1>3, <1>7, CursorInd

\* SqlConn::executeQuery, ResultSet's moves, next() of a SqlResult: results that
\* own their rows, or none, take the place of others.
LEMMA SetsInd ==
  ASSUME IndInv, UNCHANGED <<stmts, prepared>>, runs' \in Nat, runs' <= MaxRuns,
         sets' \in [Sets -> ResultSets],
         \A r \in Sets : sets'[r].kind = "prepared" => \E q \in Sets : sets'[r] = sets[q]
  PROVE  IndInv'
<1>1. ShapeInv' /\ BuffersHaveOneOwner' /\ FitInv'
  BY DEF IndInv, ShapeInv, BuffersHaveOneOwner, FitInv
<1>2. TypeOK'
  <2>1. \A r \in Sets : sets'[r].rows \in Tables \cup {<< >>}
    BY ResultFields
  <2> QED BY <2>1 DEF IndInv, TypeOK
<1>3. CalmInv'
  <2>1. ASSUME NEW r \in Sets, sets'[r].kind = "prepared", sets'[r].calm
        PROVE  InStep(sets[r])'
    <3>1. PICK q \in Sets : sets'[r] = sets[q]
      BY <2>1
    <3>2. PICK x : x = sets[q]
      OBVIOUS
    <3>3. InStep(x)
      BY <2>1, <3>1, <3>2 DEF IndInv, CalmInv
    <3>4. InStep(x)'
      BY <3>3, InStepFrame
    <3>5. sets'[r] = x
      BY <3>1, <3>2
    <3> QED BY <3>4, <3>5 DEF InStep
  <2> QED BY <2>1 DEF CalmInv
<1> QED BY <1>1, <1>2, <1>3 DEF IndInv

LEMMA SqlInd ==
  ASSUME IndInv, NEW r \in Sets, NEW q \in Queries, NEW rows \in Tables, Query(r, q, rows)
  PROVE  IndInv'
<1>1. runs \in Nat /\ runs' = runs + 1 /\ runs < MaxRuns /\ UNCHANGED <<stmts, prepared>>
  BY DEF Query, IndInv, ShapeInv
<1>2. runs' \in Nat /\ runs' <= MaxRuns /\ runs + 1 \in Nat
  BY <1>1, BoundAssumption
<1>3. /\ NewSqlResult(q, rows) \in ResultSets /\ NewSqlResult(q, rows).kind = "sql"
  BY <1>2 DEF NewSqlResult, ResultSets
<1>4. PICK y \in ResultSets : y.kind # "prepared" /\ sets' = [sets EXCEPT ![r] = y]
  BY <1>3, Empties DEF Query
<1>5. /\ sets' \in [Sets -> ResultSets] /\ sets'[r] = y
      /\ \A p \in Sets : p # r => sets'[p] = sets[p]
  BY <1>4 DEF IndInv, ShapeInv
<1> QED BY <1>1, <1>2, <1>4, <1>5, SetsInd

LEMMA MoveSetInd ==
  ASSUME IndInv, NEW r \in Sets, NEW q \in Sets, MoveSet(r, q)
  PROVE  IndInv'
<1>1. /\ r # q /\ sets' = [sets EXCEPT ![r] = sets[q], ![q] = NoResult]
      /\ UNCHANGED <<stmts, prepared, runs>>
  BY DEF MoveSet
<1>2. /\ sets' \in [Sets -> ResultSets] /\ sets'[r] = sets[q] /\ sets'[q] = NoResult
      /\ \A p \in Sets : p # r /\ p # q => sets'[p] = sets[p]
  BY <1>1, Empties DEF IndInv, ShapeInv
<1>3. runs' \in Nat /\ runs' <= MaxRuns
  BY <1>1 DEF IndInv, ShapeInv, TypeOK
<1>4. \A p \in Sets : sets'[p].kind = "prepared" => \E o \in Sets : sets'[p] = sets[o]
  BY <1>2, Empties
<1> QED BY <1>1, <1>2, <1>3, <1>4, SetsInd

\* mysql_stmt_fetch, when a row is left.
LEMMA FetchRow ==
  ASSUME NEW h, NEW p \in Handles, p = prepared[h], p.pos < Len(p.rows)
  PROVE  \E e \in Handles :
            /\ e = Fetched(h)
            /\ e.open = p.open /\ e.allocated = p.allocated /\ e.run = p.run /\ e.rows = p.rows
            /\ e.pos = p.pos + 1 /\ DOMAIN e.data = DOMAIN p.data
            /\ \A c \in DOMAIN p.data :
                  e.data[c] = IF c \in p.rows[p.pos + 1] THEN p.data[c] ELSE <<p.run, p.pos + 1, c>>
<1> DEFINE d == [c \in DOMAIN p.data |->
                    IF c \in p.rows[p.pos + 1] THEN p.data[c] ELSE <<p.run, p.pos + 1, c>>]
           e == [p EXCEPT !.pos = p.pos + 1, !.data = d]
<1>1. p.data \in Seq(Seq(Nat)) /\ p.pos \in Nat /\ p.run \in Nat /\ Len(p.rows) \in Nat
  BY HandleFields, RowsDomain
<1>2. d \in Seq(Seq(Nat))
  <2>1. DOMAIN p.data = 1..Len(p.data) /\ p.data \in [1..Len(p.data) -> Seq(Nat)]
    BY <1>1, LenProperties
  <2>2. \A c \in DOMAIN p.data : <<p.run, p.pos + 1, c>> \in Seq(Nat) /\ p.data[c] \in Seq(Nat)
    BY <1>1, <2>1
  <2>3. d \in [DOMAIN p.data -> Seq(Nat)]
    BY <2>2
  <2> QED BY <1>1, <2>3, SameLength
<1>3. /\ DOMAIN d = DOMAIN p.data
      /\ \A c \in DOMAIN p.data :
            d[c] = IF c \in p.rows[p.pos + 1] THEN p.data[c] ELSE <<p.run, p.pos + 1, c>>
  OBVIOUS
<1>4. Fetched(h) = e
  BY <1>1 DEF Fetched, Handles
<1> HIDE DEF d
<1>5. /\ e \in Handles /\ e.open = p.open /\ e.allocated = p.allocated /\ e.run = p.run
      /\ e.rows = p.rows /\ e.pos = p.pos + 1 /\ e.data = d
  <2>1. PICK n \in Nat, a \in Seq(Seq(Nat)) : n = p.pos + 1 /\ a = d
    BY <1>1, <1>2
  <2> DEFINE z == e
  <2>2. z = [p EXCEPT !.pos = n, !.data = a]
    BY <2>1
  <2> HIDE DEF e, z
  <2>3. /\ z \in Handles /\ z.open = p.open /\ z.allocated = p.allocated /\ z.run = p.run
        /\ z.rows = p.rows /\ z.pos = n /\ z.data = a
    BY <2>2 DEF Handles
  <2> QED BY <2>1, <2>3 DEF z
<1> HIDE DEF e
<1> QED BY <1>3, <1>4, <1>5

\* next() of a PreparedResult whose pointer is good.  Its own counter and the
\* server's cursor advance together.
LEMMA NextPreparedInd ==
  ASSUME IndInv, NEW r \in Sets, NEW x \in ResultSets, x = sets[r], x.kind = "prepared",
         stmts[x.stmt].live, stmts[x.stmt].handle # 0, x.cur <= Len(x.rows) + 1,
         prepared' = [prepared EXCEPT ![stmts[x.stmt].handle] = Fetched(stmts[x.stmt].handle)],
         sets' = [Disturbed({x.stmt}) EXCEPT ![r] = [x EXCEPT !.cur = @ + 1]],
         UNCHANGED <<stmts, runs>>
  PROVE  IndInv'
<1>1. PICK s \in Stmts : s = x.stmt
  BY ResultFields
<1>2. PICK h \in DOMAIN prepared : h = stmts[s].handle
  BY <1>1, Typing
<1>3. PICK p \in Handles : p = prepared[h] /\ p.pos <= Len(p.rows)
  BY Typing DEF IndInv, TypeOK
<1>4. PICK e \in Handles :
          /\ e = Fetched(h)
          /\ e.open = p.open /\ e.allocated = p.allocated /\ e.run = p.run /\ e.rows = p.rows
          /\ DOMAIN e.data = DOMAIN p.data /\ e.pos <= Len(p.rows)
          /\ p.pos = Len(p.rows) => e = p
          /\ p.pos < Len(p.rows) => e.pos = p.pos + 1
  <2>1. p.pos \in Nat /\ Len(p.rows) \in Nat
    BY HandleFields, RowsDomain
  <2>2. CASE p.pos = Len(p.rows)
    <3>1. Fetched(h) = p
      BY <1>3, <2>2 DEF Fetched
    <3> QED BY <2>1, <2>2, <3>1
  <2>3. CASE p.pos < Len(p.rows)
    <3>1. PICK e \in Handles :
              /\ e = Fetched(h)
              /\ e.open = p.open /\ e.allocated = p.allocated /\ e.run = p.run /\ e.rows = p.rows
              /\ e.pos = p.pos + 1 /\ DOMAIN e.data = DOMAIN p.data
      BY <1>3, <2>3, FetchRow
    <3>2. e.pos <= Len(p.rows) /\ p.pos # Len(p.rows)
      BY <2>1, <2>3, <3>1
    <3> QED BY <3>1, <3>2
  <2> QED BY <1>3, <2>1, <2>2, <2>3
<1>5. prepared' = [prepared EXCEPT ![h] = e] /\ stmts' = stmts
  BY <1>1, <1>2, <1>4
<1>6. /\ prepared'[h] = e
      /\ \A t \in Stmts \ {s} : stmts[t].live /\ stmts[t].handle # 0 =>
            stmts'[t] = stmts[t] /\ prepared'[stmts[t].handle] = prepared[stmts[t].handle]
  <2>1. stmts[s].handle # 0 /\ prepared' = [prepared EXCEPT ![stmts[s].handle] = e] /\ stmts' = stmts
    BY <1>1, <1>2, <1>5
  <2> QED BY <1>2, <2>1, OtherHandles
<1>7. PICK y \in ResultSets :
          /\ y = [x EXCEPT !.cur = x.cur + 1] /\ y.cur = x.cur + 1
          /\ y.kind = x.kind /\ y.stmt = x.stmt /\ y.query = x.query /\ y.run = x.run
          /\ y.rows = x.rows /\ y.calm = x.calm
  <2> DEFINE z == [x EXCEPT !.cur = x.cur + 1]
  <2>1. /\ z \in ResultSets /\ z.cur = x.cur + 1
        /\ z.kind = x.kind /\ z.stmt = x.stmt /\ z.query = x.query /\ z.run = x.run
        /\ z.rows = x.rows /\ z.calm = x.calm
    BY DEF ResultSets
  <2>2. \E y : y = z
    OBVIOUS
  <2> HIDE DEF z
  <2>3. \E y \in ResultSets :
          /\ y = z /\ y.cur = x.cur + 1
          /\ y.kind = x.kind /\ y.stmt = x.stmt /\ y.query = x.query /\ y.run = x.run
          /\ y.rows = x.rows /\ y.calm = x.calm
    BY <2>1
  <2> QED BY <2>3 DEF z
<1>8. sets'[r] = y /\ \A q \in Sets : q # r => sets'[q] = Disturbed({s})[q]
  BY <1>1, <1>7 DEF Disturbed
<1>9. ASSUME x.calm PROVE InStep(y)'
  <2>1. InStep(x)
    BY <1>9 DEF IndInv, CalmInv
  <2>2. /\ stmts[s].query = x.query /\ p.run = x.run /\ p.rows = x.rows
        /\ x.cur \in 1..(Len(x.rows) + 2)
        /\ p.pos = IF x.cur <= Len(x.rows) THEN x.cur - 1 ELSE Len(x.rows)
    BY <1>1, <1>2, <1>3, <2>1 DEF InStep
  <2>3. Len(x.rows) \in Nat /\ DOMAIN x.rows = 1..Len(x.rows) /\ x.cur \in Nat
    BY ResultFields, RowsDomain
  <2>4. y.cur \in 1..(Len(y.rows) + 2)
    BY <1>7, <2>3
  <2>5. e.pos = IF y.cur <= Len(y.rows) THEN y.cur - 1 ELSE Len(y.rows)
    BY <1>4, <1>7, <2>2, <2>3
  <2>6. /\ y.stmt = s /\ stmts'[s] = stmts[s] /\ stmts[s].handle = h /\ prepared'[h] = e
        /\ stmts[s].live /\ h # 0 /\ stmts[s].query = y.query
        /\ e.run = y.run /\ e.rows = y.rows
    BY <1>1, <1>2, <1>4, <1>5, <1>6, <1>7, <2>2
  <2> QED BY <2>4, <2>5, <2>6 DEF InStep
<1>10. \A q \in Sets : /\ sets'[q] \in ResultSets
                       /\ sets'[q].kind = "prepared" /\ sets'[q].calm => InStep(sets[q])'
  <2>1. ASSUME NEW q \in Sets, q # r
        PROVE  /\ sets'[q] \in ResultSets
               /\ sets'[q].kind = "prepared" /\ sets'[q].calm => InStep(sets[q])'
    BY <1>6, <1>8, <2>1, CalmFrame
  <2>2. InStep(y)' => InStep(sets[r])'
    BY <1>8, InStepOf
  <2> QED BY <1>7, <1>8, <1>9, <2>1, <2>2
<1>11. sets' \in [Sets -> ResultSets] /\ CalmInv'
  <2>1. sets' \in [Sets -> ResultSets]
    BY <1>10 DEF Disturbed
  <2> QED BY <1>10, <2>1 DEF CalmInv
<1>12. runs' \in Nat /\ runs' <= MaxRuns
  BY DEF IndInv, ShapeInv, TypeOK
<1>13. /\ e.open = prepared[h].open /\ e.allocated = prepared[h].allocated
       /\ DOMAIN e.data = DOMAIN prepared[h].data /\ e.pos <= Len(e.rows)
  BY <1>3, <1>4
<1> QED BY <1>5, <1>11, <1>12, <1>13, CursorInd

\* next(), of any result.
LEMMA AdvanceInd ==
  ASSUME IndInv, NEW r \in Sets, Advance(r)
  PROVE  IndInv'
<1>1. PICK x \in ResultSets : x = sets[r]
  BY Typing
<1>2. CASE UNCHANGED <<stmts, prepared, sets, runs>>
  BY <1>2, FrameInd
<1>3. CASE /\ x.kind = "prepared" /\ stmts[x.stmt].live /\ stmts[x.stmt].handle # 0
           /\ x.cur <= Len(x.rows) + 1
           /\ prepared' = [prepared EXCEPT ![stmts[x.stmt].handle] = Fetched(stmts[x.stmt].handle)]
           /\ sets' = [Disturbed({x.stmt}) EXCEPT ![r] = [x EXCEPT !.cur = @ + 1]]
           /\ UNCHANGED <<stmts, runs>>
  BY <1>1, <1>3, NextPreparedInd
<1>4. CASE x.kind = "sql" /\ sets' = [sets EXCEPT ![r].cur = @ + 1] /\ UNCHANGED <<stmts, prepared, runs>>
  <2>1. [x EXCEPT !.cur = x.cur + 1] \in ResultSets /\ [x EXCEPT !.cur = x.cur + 1].kind = "sql"
    BY <1>4 DEF ResultSets
  <2>2. /\ sets' \in [Sets -> ResultSets] /\ sets'[r].kind = "sql"
        /\ \A q \in Sets : q # r => sets'[q] = sets[q]
    <3>1. sets' = [sets EXCEPT ![r] = [x EXCEPT !.cur = x.cur + 1]]
      BY <1>1, <1>4
    <3> QED BY <2>1, <3>1 DEF IndInv, ShapeInv
  <2>3. runs' \in Nat /\ runs' <= MaxRuns
    BY <1>4 DEF IndInv, ShapeInv, TypeOK
  <2> QED BY <1>4, <2>2, <2>3, SetsInd
<1>5. \/ UNCHANGED <<stmts, prepared, sets, runs>>
      \/ /\ x.kind = "prepared" /\ stmts[x.stmt].live /\ stmts[x.stmt].handle # 0
         /\ x.cur <= Len(x.rows) + 1
         /\ prepared' = [prepared EXCEPT ![stmts[x.stmt].handle] = Fetched(stmts[x.stmt].handle)]
         /\ sets' = [Disturbed({x.stmt}) EXCEPT ![r] = [x EXCEPT !.cur = @ + 1]]
         /\ UNCHANGED <<stmts, runs>>
      \/ x.kind = "sql" /\ sets' = [sets EXCEPT ![r].cur = @ + 1] /\ UNCHANGED <<stmts, prepared, runs>>
  BY <1>1 DEF Advance, Fault
<1> QED BY <1>2, <1>3, <1>4, <1>5

\* Every step keeps the inductive invariant.
LEMMA NextInd == IndInv /\ [Next]_vars => IndInv'
<1> SUFFICES ASSUME IndInv, [Next]_vars PROVE IndInv'
  OBVIOUS
<1>1. ASSUME NEW s \in Stmts, NEW q \in Queries, Prepare(s, q) PROVE IndInv'
  BY <1>1, PreparedInd, UnpreparedInd
<1>2. ASSUME NEW s \in Stmts, Destroy(s) PROVE IndInv'
  BY <1>2, DestroyInd
<1>3. ASSUME NEW d \in Stmts, NEW s \in Stmts, MoveConstruct(d, s) \/ MoveAssign(d, s) PROVE IndInv'
  BY <1>3, MoveConstructInd, MoveAssignInd
<1>4. ASSUME NEW s \in Stmts, NEW r \in Sets, NEW rows \in Tables, ExecuteQuery(s, r, rows)
      PROVE  IndInv'
  <2>1. CASE UNCHANGED <<stmts, prepared, sets, runs>>
    BY <2>1, FrameInd
  <2>2. ASSUME stmts[s].live, stmts[s].handle # 0, ServerRuns(s, rows), stmts' = stmts,
               \E y \in {NoResult, NewPrepared(s, rows)} : sets' = [Disturbed({s}) EXCEPT ![r] = y]
        PROVE  IndInv'
    BY <2>2, QueryInd
  <2> QED BY <1>4, <2>1, <2>2 DEF ExecuteQuery, Fault
<1>5. ASSUME NEW s \in Stmts, NEW rows \in Tables, ExecuteUpdate(s, rows) PROVE IndInv'
  <2>1. CASE UNCHANGED <<stmts, prepared, sets, runs>>
    BY <2>1, FrameInd
  <2>2. CASE stmts[s].handle # 0 /\ ServerRuns(s, rows) /\ stmts' = stmts /\ sets' = Disturbed({s})
    BY <2>2, UpdateInd
  <2> QED BY <1>5, <2>1, <2>2 DEF ExecuteUpdate, Fault
<1>6. ASSUME NEW r \in Sets, NEW q \in Queries, NEW rows \in Tables, Query(r, q, rows) PROVE IndInv'
  BY <1>6, SqlInd
<1>7. ASSUME NEW r \in Sets, NEW q \in Sets, MoveSet(r, q) PROVE IndInv'
  BY <1>7, MoveSetInd
<1>8. ASSUME NEW r \in Sets, Advance(r) PROVE IndInv'
  BY <1>8, AdvanceInd
<1>9. ASSUME NEW r \in Sets, NEW byName \in BOOLEAN, NEW c,
             GetPrepared(r, c, byName) \/ \E g \in DOMAIN SqlGetter : GetSql(r, c, byName, g)
      PROVE  IndInv'
  <2>1. UNCHANGED <<stmts, prepared, sets, runs>>
    BY <1>9 DEF GetPrepared, GetSql, Fault
  <2> QED BY <2>1, FrameInd
<1>10. CASE UNCHANGED vars
  BY <1>10, FrameInd DEF vars
<1> QED BY <1>1, <1>2, <1>3, <1>4, <1>5, <1>6, <1>7, <1>8, <1>9, <1>10 DEF Next, Halted

-----------------------------------------------------------------------------

\* The inductive invariant holds in every reachable state.
THEOREM Inductive == Spec => []IndInv
<1> QED BY InitInd, NextInd, PTL DEF Spec

\* Handles and blocks exist, cursors stay within their rows.
THEOREM TypeCorrect == Spec => []TypeOK
<1>1. IndInv => TypeOK
  BY DEF IndInv
<1> QED BY <1>1, Inductive, PTL

\* However many Statements are prepared, moved, assigned and destroyed in any
\* order, every handle and every set of buffers has exactly one owner until it is
\* released, and it is the same Statement for both while the handle is open.
THEOREM OneOwner == Spec => []BuffersHaveOneOwner
<1>1. IndInv => BuffersHaveOneOwner
  BY DEF IndInv
<1> QED BY <1>1, Inductive, PTL

\* A result whose Statement is left alone counts its rows in step with the
\* server: hasNext() is right, for tables of any length.
THEOREM LoopsSeeEveryRow == Spec => []CounterFollowsCursor
<1>1. ASSUME IndInv PROVE CounterFollowsCursor
  <2> SUFFICES ASSUME NEW r \in Sets, sets[r].kind = "prepared", sets[r].calm
               PROVE  /\ stmts[sets[r].stmt].live /\ stmts[sets[r].stmt].handle # 0
                      /\ prepared[stmts[sets[r].stmt].handle].run = sets[r].run
                      /\ prepared[stmts[sets[r].stmt].handle].rows = sets[r].rows
                      /\ HasNext(r) <=> prepared[stmts[sets[r].stmt].handle].pos
                                          < Len(prepared[stmts[sets[r].stmt].handle].rows)
    BY DEF CounterFollowsCursor
  <2>1. InStep(sets[r])
    BY <1>1 DEF IndInv, CalmInv
  <2>2. Len(sets[r].rows) \in Nat /\ sets[r].cur \in Nat
    BY <1>1, Typing, ResultFields, RowsDomain
  <2>3. /\ stmts[sets[r].stmt].live /\ stmts[sets[r].stmt].handle # 0
        /\ prepared[stmts[sets[r].stmt].handle].run = sets[r].run
        /\ prepared[stmts[sets[r].stmt].handle].rows = sets[r].rows
    BY <2>1 DEF InStep
  <2>4. prepared[stmts[sets[r].stmt].handle].pos
           = IF sets[r].cur <= Len(sets[r].rows) THEN sets[r].cur - 1 ELSE Len(sets[r].rows)
    BY <2>1 DEF InStep
  <2>5. HasNext(r) <=> prepared[stmts[sets[r].stmt].handle].pos < Len(sets[r].rows)
    BY <2>2, <2>4 DEF HasNext
  <2> QED BY <2>3, <2>5
<1>2. IndInv => CounterFollowsCursor
  BY <1>1
<1> QED BY <1>2, Inductive, PTL

\* A name that no other column has is looked up as the index.
LEMMA IndexOfUnique ==
  ASSUME NEW q \in Queries \cup {<< >>}, NEW c \in DOMAIN q, NEW byName \in BOOLEAN,
         byName => Unique(q, c)
  PROVE  Index(q, c, byName) = c
<1>1. CASE ~byName
  BY <1>1 DEF Index
<1>2. CASE byName
  <2>1. DOMAIN q = 1..Len(q) /\ Len(q) \in Nat
    BY QueryDomain
  <2> DEFINE P(d) == /\ q[d].name = q[c].name
                     /\ \A b \in DOMAIN q : q[b].name = q[c].name => b <= d
  <2>2. P(c)
    BY <1>2, <2>1 DEF Unique
  <2>3. \A d \in DOMAIN q : P(d) => d = c
    BY <1>2 DEF Unique
  <2>4. Index(q, c, byName) = CHOOSE d \in DOMAIN q : P(d)
    BY <1>2 DEF Index
  <2> HIDE DEF P
  <2> QED BY <2>2, <2>3, <2>4
<1> QED BY <1>1, <1>2

-----------------------------------------------------------------------------
(* The values in the buffers *)

\* Only flags of the prepared statements change, or statements run elsewhere.
LEMMA BufferFrame ==
  ASSUME IndInv, BufferInv, runs' \in Nat, runs <= runs',
         \A n \in DOMAIN prepared' :
             /\ n \in DOMAIN prepared
             /\ prepared'[n].run = prepared[n].run /\ prepared'[n].rows = prepared[n].rows
             /\ prepared'[n].pos = prepared[n].pos /\ prepared'[n].data = prepared[n].data
  PROVE  BufferInv'
<1> SUFFICES ASSUME NEW n \in DOMAIN prepared'
             PROVE  /\ prepared'[n].run <= runs'
                    /\ \A c \in DOMAIN prepared'[n].data :
                          LastStored(prepared'[n].data[c], prepared'[n].rows, prepared'[n].pos,
                                     prepared'[n].run, c)
  BY DEF BufferInv
<1>1. prepared[n].run \in Nat /\ runs \in Nat
  BY Typing, HandleFields DEF IndInv, ShapeInv
<1>2. prepared[n].run <= runs'
  BY <1>1 DEF BufferInv
<1> QED BY <1>2 DEF BufferInv

\* The buffers behind one handle change.
LEMMA BufferOne ==
  ASSUME IndInv, BufferInv, NEW h \in DOMAIN prepared, NEW p,
         prepared' = [prepared EXCEPT ![h] = p], runs' \in Nat, runs <= runs', p.run <= runs',
         \A c \in DOMAIN p.data : LastStored(p.data[c], p.rows, p.pos, p.run, c)
  PROVE  BufferInv'
<1> SUFFICES ASSUME NEW n \in DOMAIN prepared'
             PROVE  /\ prepared'[n].run <= runs'
                    /\ \A c \in DOMAIN prepared'[n].data :
                          LastStored(prepared'[n].data[c], prepared'[n].rows, prepared'[n].pos,
                                     prepared'[n].run, c)
  BY DEF BufferInv
<1>1. CASE n = h
  BY <1>1
<1>2. CASE n # h
  <2>1. n \in DOMAIN prepared /\ prepared'[n] = prepared[n]
    BY <1>2
  <2>2. prepared[n].run \in Nat /\ runs \in Nat /\ prepared[n].run <= runs
    BY <2>1, Typing, HandleFields DEF IndInv, ShapeInv, BufferInv
  <2>3. prepared[n].run <= runs'
    BY <2>2
  <2> QED BY <2>1, <2>3 DEF BufferInv
<1> QED BY <1>1, <1>2

\* A run starts before the first row: the buffers have what earlier runs left.
LEMMA RunBuffers ==
  ASSUME IndInv, BufferInv, NEW s \in Stmts, stmts[s].handle # 0, NEW rows \in Tables,
         ServerRuns(s, rows)
  PROVE  BufferInv'
<1>1. PICK h \in DOMAIN prepared : h = stmts[s].handle
  BY Typing
<1>2. PICK p \in Handles :
          /\ prepared' = [prepared EXCEPT ![h] = p]
          /\ p.run = runs + 1 /\ p.rows = rows /\ p.pos = 0 /\ p.data = prepared[h].data
          /\ runs' = runs + 1 /\ runs' \in Nat
  BY <1>1, ServerRunsInd
<1>3. PICK old \in Handles : old = prepared[h]
  BY Typing
<1>4. runs \in Nat /\ old.run \in Nat /\ old.run <= runs
  BY <1>3, HandleFields DEF IndInv, ShapeInv, BufferInv
<1>5. ASSUME NEW c \in DOMAIN p.data PROVE LastStored(p.data[c], p.rows, p.pos, p.run, c)
  <2>1. c \in Nat /\ p.data[c] \in Seq(Nat)
    BY <1>5, HandleFields, LenProperties
  <2>2. LastStored(p.data[c], old.rows, old.pos, old.run, c)
    BY <1>2, <1>3, <1>5 DEF BufferInv
  <2>3. p.data[c] = Unset \/ (Len(p.data[c]) = 3 /\ p.data[c][1] < runs + 1 /\ p.data[c][3] = c)
    <3>1. CASE \E k \in 1..old.pos : p.data[c] = <<old.run, k, c>>
      <4>1. PICK k \in 1..old.pos : p.data[c] = <<old.run, k, c>>
        BY <3>1
      <4>2. Len(<<old.run, k, c>>) = 3 /\ <<old.run, k, c>>[1] = old.run /\ <<old.run, k, c>>[3] = c
        OBVIOUS
      <4> QED BY <1>4, <4>1, <4>2
    <3>2. CASE p.data[c] = Unset
      BY <3>2
    <3>3. CASE Len(p.data[c]) = 3 /\ p.data[c][1] < old.run /\ p.data[c][3] = c
      <4>1. p.data[c][1] \in Nat
        BY <2>1, <3>3, ElementOfSeq
      <4> QED BY <1>4, <3>3, <4>1
    <3> QED BY <2>2, <3>1, <3>2, <3>3 DEF LastStored
  <2>4. \A k \in 1..p.pos : FALSE
    BY <1>2
  <2> QED BY <1>2, <2>3, <2>4 DEF LastStored
<1>6. runs <= runs' /\ p.run <= runs'
  BY <1>2, <1>4
<1> QED BY <1>2, <1>5, <1>6, BufferOne

\* A fetch stores the columns of one more row that are not NULL.
LEMMA FetchBuffers ==
  ASSUME IndInv, BufferInv, NEW h \in DOMAIN prepared,
         prepared' = [prepared EXCEPT ![h] = Fetched(h)], runs' = runs
  PROVE  BufferInv'
<1>1. PICK p \in Handles : p = prepared[h] /\ p.pos <= Len(p.rows)
  BY Typing DEF IndInv, TypeOK
<1>2. p.pos \in Nat /\ Len(p.rows) \in Nat /\ p.run \in Nat /\ runs \in Nat /\ p.run <= runs
  BY <1>1, HandleFields, RowsDomain DEF IndInv, ShapeInv, BufferInv
<1>3. CASE p.pos = Len(p.rows)
  <2>1. Fetched(h) = p
    BY <1>1, <1>3 DEF Fetched
  <2>2. \A c \in DOMAIN p.data : LastStored(p.data[c], p.rows, p.pos, p.run, c)
    BY <1>1 DEF BufferInv
  <2>3. prepared' = [prepared EXCEPT ![h] = p] /\ runs' \in Nat /\ runs <= runs' /\ p.run <= runs'
    BY <1>2, <2>1
  <2> QED BY <2>2, <2>3, BufferOne
<1>4. CASE p.pos < Len(p.rows)
  <2>1. PICK e \in Handles :
            /\ e = Fetched(h)
            /\ e.run = p.run /\ e.rows = p.rows
            /\ e.pos = p.pos + 1 /\ DOMAIN e.data = DOMAIN p.data
            /\ \A c \in DOMAIN p.data :
                  e.data[c] = IF c \in p.rows[p.pos + 1] THEN p.data[c] ELSE <<p.run, p.pos + 1, c>>
    BY <1>1, <1>4, FetchRow
  <2>2. ASSUME NEW c \in DOMAIN e.data PROVE LastStored(e.data[c], e.rows, e.pos, e.run, c)
    <3>1. LastStored(p.data[c], p.rows, p.pos, p.run, c)
      BY <1>1, <2>1, <2>2 DEF BufferInv
    <3>2. p.pos + 1 \in 1..(p.pos + 1) /\ \A j \in ((p.pos + 1) + 1)..(p.pos + 1) : FALSE
      BY <1>2
    <3>3. CASE c \notin p.rows[p.pos + 1]
      <4>1. e.data[c] = <<p.run, p.pos + 1, c>>
        BY <2>1, <2>2, <3>3
      <4> QED BY <2>1, <3>2, <3>3, <4>1 DEF LastStored
    <3>4. CASE c \in p.rows[p.pos + 1]
      <4>1. e.data[c] = p.data[c]
        BY <2>1, <2>2, <3>4
      <4>2. \A k \in 1..p.pos : k \in 1..(p.pos + 1)
        BY <1>2
      <4>3. \A k \in 1..(p.pos + 1) : k \in 1..p.pos \/ k = p.pos + 1
        BY <1>2
      <4>4. \A k \in 1..p.pos : \A j \in (k + 1)..(p.pos + 1) : j \in (k + 1)..p.pos \/ j = p.pos + 1
        BY <1>2
      <4> QED BY <2>1, <3>1, <3>4, <4>1, <4>2, <4>3, <4>4 DEF LastStored
    <3> QED BY <3>3, <3>4
  <2>3. prepared' = [prepared EXCEPT ![h] = e] /\ runs' \in Nat /\ runs <= runs' /\ e.run <= runs'
    BY <1>2, <2>1
  <2> QED BY <2>2, <2>3, BufferOne
<1> QED BY <1>1, <1>2, <1>3, <1>4

\* New buffers hold nothing.
LEMMA PrepareBuffers ==
  ASSUME IndInv, BufferInv, NEW s \in Stmts, NEW q \in Queries, Prepare(s, q)
  PROVE  BufferInv'
<1>1. runs \in Nat /\ runs' = runs
  BY DEF Prepare, IndInv, ShapeInv
<1>2. CASE prepared' = prepared
  BY <1>1, <1>2, BufferFrame
<1>3. CASE prepared' # prepared
  <2> DEFINE p == [open |-> TRUE, allocated |-> TRUE, run |-> 0, rows |-> << >>, pos |-> 0,
                   data |-> [c \in DOMAIN q |-> Unset]]
  <2>1. prepared' = Append(prepared, p)
    BY <1>3 DEF Prepare
  <2>2. p.run = 0 /\ p.pos = 0 /\ DOMAIN p.data = DOMAIN q /\ \A c \in DOMAIN p.data : p.data[c] = Unset
    OBVIOUS
  <2> HIDE DEF p
  <2>3. ASSUME NEW c \in DOMAIN p.data PROVE LastStored(p.data[c], p.rows, p.pos, p.run, c)
    <3>1. \A k \in 1..p.pos : FALSE
      BY <2>2
    <3> QED BY <2>2, <3>1 DEF LastStored
  <2>4. ASSUME NEW n \in DOMAIN prepared'
        PROVE  prepared'[n] = p \/ (n \in DOMAIN prepared /\ prepared'[n] = prepared[n])
    <3>1. /\ Len(prepared) \in Nat /\ DOMAIN prepared = 1..Len(prepared)
          /\ prepared \in [1..Len(prepared) -> Handles]
      BY Typing, LenProperties DEF IndInv, ShapeInv
    <3>2. n \in 1..(Len(prepared) + 1)
      BY <2>1, <3>1
    <3>3. prepared'[n] = IF n = Len(prepared) + 1 THEN p ELSE prepared[n]
      BY <2>1, <3>1, <3>2
    <3> QED BY <3>1, <3>2, <3>3
  <2>5. p.run <= runs'
    BY <1>1, <2>2
  <2> QED BY <1>1, <2>3, <2>4, <2>5 DEF BufferInv
<1> QED BY <1>2, <1>3

\* Moves and destruction do not write to buffers.
LEMMA FlagBuffers ==
  ASSUME IndInv, BufferInv,
         \/ \E s \in Stmts : Destroy(s)
         \/ \E d, s \in Stmts : MoveConstruct(d, s) \/ MoveAssign(d, s)
  PROVE  BufferInv'
<1>1. runs \in Nat /\ runs' = runs
  BY DEF Destroy, MoveConstruct, MoveAssign, IndInv, ShapeInv
<1>2. ASSUME NEW p \in Handles, NEW a, NEW b
      PROVE  /\ [p EXCEPT !.allocated = a, !.open = b].run = p.run
             /\ [p EXCEPT !.allocated = a, !.open = b].rows = p.rows
             /\ [p EXCEPT !.allocated = a, !.open = b].pos = p.pos
             /\ [p EXCEPT !.allocated = a, !.open = b].data = p.data
             /\ [p EXCEPT !.open = b].run = p.run /\ [p EXCEPT !.open = b].rows = p.rows
             /\ [p EXCEPT !.open = b].pos = p.pos /\ [p EXCEPT !.open = b].data = p.data
  BY DEF Handles
<1>3. \A n \in DOMAIN prepared' :
          /\ n \in DOMAIN prepared
          /\ prepared'[n].run = prepared[n].run /\ prepared'[n].rows = prepared[n].rows
          /\ prepared'[n].pos = prepared[n].pos /\ prepared'[n].data = prepared[n].data
  <2>1. \A n \in DOMAIN prepared : prepared[n] \in Handles
    BY Typing
  <2> DEFINE Same(n) == /\ n \in DOMAIN prepared
                        /\ prepared'[n].run = prepared[n].run /\ prepared'[n].rows = prepared[n].rows
                        /\ prepared'[n].pos = prepared[n].pos /\ prepared'[n].data = prepared[n].data
  <2>2. ASSUME NEW s \in Stmts, Destroy(s), NEW n \in DOMAIN prepared' PROVE Same(n)
    <3>1. /\ n \in DOMAIN prepared
          /\ \E a, b : prepared'[n] = [prepared[n] EXCEPT !.allocated = a, !.open = b]
      BY <2>2 DEF Destroy
    <3> QED BY <1>2, <2>1, <3>1
  <2>3. ASSUME NEW s \in Stmts, NEW d \in Stmts, MoveAssign(d, s), NEW n \in DOMAIN prepared' PROVE Same(n)
    <3>1. /\ n \in DOMAIN prepared
          /\ \/ prepared'[n] = prepared[n]
             \/ \E b : prepared'[n] = [prepared[n] EXCEPT !.open = b]
      BY <2>3 DEF MoveAssign
    <3>2. PICK p \in Handles : p = prepared[n]
      BY <2>1, <3>1
    <3>3. CASE prepared'[n] = p
      BY <3>1, <3>2, <3>3
    <3>4. ASSUME NEW b, prepared'[n] = [p EXCEPT !.open = b] PROVE Same(n)
      BY <1>2, <3>1, <3>2, <3>4
    <3> QED BY <3>1, <3>2, <3>3, <3>4
  <2>4. ASSUME NEW s \in Stmts, NEW d \in Stmts, MoveConstruct(d, s), NEW n \in DOMAIN prepared' PROVE Same(n)
    BY <2>4 DEF MoveConstruct
  <2> HIDE DEF Same
  <2>5. \A n \in DOMAIN prepared' : Same(n)
    BY <2>2, <2>3, <2>4
  <2> QED BY <2>5 DEF Same
<1> QED BY <1>1, <1>3, BufferFrame

\* Every step keeps the buffers true to the rows.
LEMMA NextBuffers == IndInv /\ BufferInv /\ [Next]_vars => BufferInv'
<1> SUFFICES ASSUME IndInv, BufferInv, [Next]_vars PROVE BufferInv'
  OBVIOUS
<1>1. runs \in Nat
  BY DEF IndInv, ShapeInv
<1>2. CASE prepared' = prepared /\ (runs' = runs \/ runs' = runs + 1)
  BY <1>1, <1>2, BufferFrame
<1>3. ASSUME NEW s \in Stmts, NEW rows \in Tables,
             ExecuteUpdate(s, rows) \/ \E r \in Sets : ExecuteQuery(s, r, rows)
      PROVE  BufferInv'
  <2>1. CASE stmts[s].handle # 0 /\ ServerRuns(s, rows)
    BY <2>1, RunBuffers
  <2>2. CASE prepared' = prepared /\ runs' = runs
    BY <1>2, <2>2
  <2> QED BY <1>3, <2>1, <2>2 DEF ExecuteUpdate, ExecuteQuery, Fault
<1>4. ASSUME NEW r \in Sets, Advance(r) PROVE BufferInv'
  <2>1. PICK x \in ResultSets : x = sets[r]
    BY Typing
  <2>2. CASE /\ x.kind = "prepared" /\ stmts[x.stmt].handle # 0 /\ runs' = runs
             /\ prepared' = [prepared EXCEPT ![stmts[x.stmt].handle] = Fetched(stmts[x.stmt].handle)]
    <3>1. stmts[x.stmt].handle \in DOMAIN prepared
      BY <2>2, Typing, ResultFields
    <3> QED BY <2>2, <3>1, FetchBuffers
  <2>3. CASE prepared' = prepared /\ runs' = runs
    BY <1>2, <2>3
  <2> QED BY <1>4, <2>1, <2>2, <2>3 DEF Advance, Fault
<1>5. ASSUME NEW r \in Sets, NEW q \in Queries, NEW rows \in Tables, Query(r, q, rows) PROVE BufferInv'
  BY <1>2, <1>5 DEF Query
<1>6. ASSUME NEW r \in Sets, NEW q \in Sets, MoveSet(r, q) PROVE BufferInv'
  BY <1>2, <1>6 DEF MoveSet
<1>7. ASSUME NEW r \in Sets, NEW byName \in BOOLEAN, NEW c,
             GetPrepared(r, c, byName) \/ \E g \in DOMAIN SqlGetter : GetSql(r, c, byName, g)
      PROVE  BufferInv'
  BY <1>2, <1>7 DEF GetPrepared, GetSql, Fault
<1>8. CASE UNCHANGED vars
  BY <1>2, <1>8 DEF vars
<1> QED BY <1>3, <1>4, <1>5, <1>6, <1>7, <1>8, PrepareBuffers, FlagBuffers DEF Next, Halted

\* A getter made for the type of the column returns, from a SqlResult, the value in
\* the current row, and from a PreparedResult the last value of that column that was
\* not NULL: the current row's own, or else an earlier one of the same column.
THEOREM GettersReadLastStored == Spec => []ReadsLastStored
<1>1. ASSUME IndInv, BufferInv, NEW r \in Sets, NEW x \in ResultSets, x = sets[r], x.calm,
             x.cur - 1 \in DOMAIN x.rows, NEW c \in DOMAIN x.query,
             NEW byName \in BOOLEAN, NEW g \in DOMAIN SqlGetter, byName => Unique(x.query, c)
      PROVE  /\ x.kind = "prepared" /\ x.query[c].type \in PreparedGetter[g] =>
                   LastStored(PreparedValue(x.stmt, Index(x.query, c, byName), g),
                              x.rows, x.cur - 1, x.run, c)
             /\ x.kind = "sql" /\ x.query[c].type \in SqlGetter[g] =>
                   SqlValue(x, Index(x.query, c, byName), g)
                       = IF c \in x.rows[x.cur - 1] THEN Zero ELSE <<x.run, x.cur - 1, c>>
  <2>1. x.query \in Queries \cup {<< >>}
    BY ResultFields
  <2>2. Index(x.query, c, byName) = c
    BY <1>1, <2>1, IndexOfUnique
  <2>3. ASSUME x.kind = "prepared", x.query[c].type \in PreparedGetter[g]
        PROVE  LastStored(PreparedValue(x.stmt, c, g), x.rows, x.cur - 1, x.run, c)
    <3>1. InStep(x)
      BY <1>1, <2>3 DEF IndInv, CalmInv
    <3>2. PICK h : h = stmts[x.stmt].handle
      OBVIOUS
    <3>3. /\ x.stmt \in Stmts /\ h # 0 /\ stmts[x.stmt].block = h /\ stmts[x.stmt].query = x.query
      BY <1>1, <3>1, <3>2 DEF InStep, IndInv, BuffersHaveOneOwner
    <3>4. h \in DOMAIN prepared /\ DOMAIN prepared[h].data = DOMAIN x.query
      BY <1>1, <3>2, <3>3, Typing DEF IndInv, FitInv
    <3>5. prepared[h].run = x.run /\ prepared[h].rows = x.rows /\ prepared[h].pos = x.cur - 1
      <4>1. Len(x.rows) \in Nat /\ DOMAIN x.rows = 1..Len(x.rows) /\ x.cur \in Nat
        BY ResultFields, RowsDomain
      <4> QED BY <1>1, <3>1, <3>2, <4>1 DEF InStep
    <3>6. LastStored(prepared[h].data[c], x.rows, x.cur - 1, x.run, c)
      BY <1>1, <3>4, <3>5 DEF BufferInv
    <3>7. PreparedValue(x.stmt, c, g) = prepared[h].data[c]
      BY <2>3, <3>3 DEF PreparedValue
    <3> QED BY <3>6, <3>7
  <2>4. ASSUME x.kind = "sql", x.query[c].type \in SqlGetter[g]
        PROVE  SqlValue(x, c, g) = IF c \in x.rows[x.cur - 1] THEN Zero ELSE <<x.run, x.cur - 1, c>>
    BY <1>1, <2>4 DEF SqlValue
  <2> QED BY <2>2, <2>3, <2>4
<1>2. ASSUME IndInv, BufferInv PROVE ReadsLastStored
  <2> SUFFICES ASSUME NEW r \in Sets, sets[r].calm, sets[r].cur - 1 \in DOMAIN sets[r].rows,
                      NEW c \in DOMAIN sets[r].query,
                      NEW byName \in BOOLEAN, NEW g \in DOMAIN SqlGetter,
                      byName => Unique(sets[r].query, c)
               PROVE  /\ sets[r].kind = "prepared" /\ sets[r].query[c].type \in PreparedGetter[g] =>
                            LastStored(PreparedValue(sets[r].stmt, Index(sets[r].query, c, byName), g),
                                       sets[r].rows, sets[r].cur - 1, sets[r].run, c)
                      /\ sets[r].kind = "sql" /\ sets[r].query[c].type \in SqlGetter[g] =>
                            SqlValue(sets[r], Index(sets[r].query, c, byName), g)
                                = IF c \in sets[r].rows[sets[r].cur - 1] THEN Zero
                                  ELSE <<sets[r].run, sets[r].cur - 1, c>>
    BY DEF ReadsLastStored
  <2>1. PICK x \in ResultSets : x = sets[r]
    BY <1>2, Typing
  <2> QED BY <1>1, <1>2, <2>1
<1>3. Init => BufferInv
  BY DEF Init, BufferInv
<1>4. Spec => []BufferInv
  BY <1>3, NextBuffers, Inductive, PTL DEF Spec
<1>5. IndInv /\ BufferInv => ReadsLastStored
  BY <1>2
<1> QED BY <1>4, <1>5, Inductive, PTL

=============================================================================

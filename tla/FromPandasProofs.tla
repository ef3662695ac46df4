-------------------------- MODULE FromPandasProofs --------------------------
(***************************************************************************)
(* Proofs about FromPandas: its inductive invariant, and what follows for  *)
(* the report of a returned table, for frames of any width and any number  *)
(* of changes by other threads.                                            *)
(***************************************************************************)
EXTENDS FromPandas, TLAPS

LEMMA AppendRecord ==
  ASSUME NEW S, NEW s \in Seq(S), NEW x \in S
  PROVE  /\ Append(s, x) \in Seq(S)
         /\ Len(Append(s, x)) = Len(s) + 1
         /\ \A k \in 1 .. Len(s) : Append(s, x)[k] = s[k]
         /\ Append(s, x)[Len(s) + 1] = x
OBVIOUS

LEMMA EditNumbers ==
  ASSUME TypeOK
  PROVE  /\ series.edit \in Nat
         /\ \A l \in Range(Labels) : frame[l].edit \in Nat
         /\ \A k \in DOMAIN arrays : arrays[k].planned \in Nat /\ arrays[k].edit \in Nat
<1>1. \A k \in DOMAIN arrays : arrays[k] \in Converted
  BY DEF TypeOK
<1> QED
  BY <1>1 DEF TypeOK, Held, Converted

LEMMA LabelsFacts ==
  /\ Labels \in Seq(Range(Labels))
  /\ DOMAIN Labels = 1 .. Len(Labels)
  /\ Len(Labels) \in Nat
  /\ \A k \in DOMAIN Labels : Labels[k] \in Range(Labels)
<1>1. Labels \in Seq(Range(Labels))
  BY FramesAssumption
<1> QED
  BY <1>1

(***************************************************************************)
(* The sum of no and of one term.                                          *)
(***************************************************************************)

LEMMA NoTerms ==
  ASSUME NEW s, DOMAIN s = {}
  PROVE  SumFunction(s) = 0
<1> DEFINE Sum(g) == g = [t \in SUBSET (DOMAIN s) |->
                            IF t = {} THEN 0
                            ELSE LET x == CHOOSE x \in t : TRUE IN s[x] + g[t \ {x}]]
           h == [t \in SUBSET (DOMAIN s) |-> 0]
<1>1. SUBSET (DOMAIN s) = {{}}
  OBVIOUS
<1>2. Sum(h)
  BY <1>1
<1>3. Sum(CHOOSE g : Sum(g))
  <2> HIDE DEF Sum, h
  <2> QED
    BY <1>2
<1>4. SumFunction(s) = (CHOOSE g : Sum(g))[DOMAIN s]
  BY DEF SumFunction, SumFunctionOnSet, FoldFunctionOnSet, MapThenFoldSet
<1> QED
  BY <1>3, <1>4

LEMMA OneTerm ==
  ASSUME NEW s, NEW i, DOMAIN s = {i}, s[i] \in Nat
  PROVE  SumFunction(s) = s[i]
<1> DEFINE Sum(g) == g = [t \in SUBSET (DOMAIN s) |->
                            IF t = {} THEN 0
                            ELSE LET x == CHOOSE x \in t : TRUE IN s[x] + g[t \ {x}]]
           h == [t \in SUBSET (DOMAIN s) |-> IF t = {} THEN 0 ELSE s[i]]
           sum == CHOOSE g : Sum(g)
<1>1. SUBSET (DOMAIN s) = {{}, {i}}
  OBVIOUS
<1>2. Sum(h)
  <2>1. \A t \in SUBSET (DOMAIN s) :
          t # {} => t = {i} /\ (CHOOSE x \in t : TRUE) = i /\ t \ {i} = {}
    BY <1>1
  <2>2. \A t \in SUBSET (DOMAIN s) :
          t # {} => s[i] = s[CHOOSE x \in t : TRUE] + h[t \ {CHOOSE x \in t : TRUE}]
    BY <2>1, <1>1
  <2> QED
    BY <2>2
<1>3. Sum(CHOOSE g : Sum(g))
  <2> HIDE DEF Sum, h
  <2> QED
    BY <1>2
<1>4. SumFunction(s) = (CHOOSE g : Sum(g))[DOMAIN s]
  BY DEF SumFunction, SumFunctionOnSet, FoldFunctionOnSet, MapThenFoldSet
<1>5. sum[{}] = 0
      /\ sum[{i}] = s[CHOOSE x \in {i} : TRUE] + sum[{i} \ {CHOOSE x \in {i} : TRUE}]
  <2>1. {} \in SUBSET (DOMAIN s) /\ {i} \in SUBSET (DOMAIN s) /\ {i} # {}
    OBVIOUS
  <2> QED
    BY <1>3, <2>1
<1>6. (CHOOSE x \in {i} : TRUE) = i /\ {i} \ {i} = {}
  OBVIOUS
<1>7. sum[{i}] = s[i]
  <2> HIDE DEF sum
  <2> QED
    BY <1>5, <1>6
<1> QED
  BY <1>4, <1>7

(* The rows of an imported array are those its stream yields in all.       *)
LEMMA AllRowsImported ==
  ASSUME NEW c, c.chunks \in Seq(Nat)
  PROVE  ImportedRows(c) = SumFunction(c.chunks)
<1> DEFINE s == c.chunks
<1>1. CASE Len(s) = 0
  <2>1. DOMAIN s = {}
    BY <1>1
  <2>2. SumFunction(s) = 0
    BY <2>1, NoTerms
  <2> QED
    BY <1>1, <2>2 DEF ImportedRows
<1>2. CASE Len(s) = 1
  <2>1. DOMAIN s = {1} /\ s[1] \in Nat
    BY <1>2
  <2>2. SumFunction(s) = s[1]
    BY <2>1, OneTerm
  <2> QED
    BY <1>2, <2>2 DEF ImportedRows
<1>3. CASE Len(s) # 0 /\ Len(s) # 1
  BY <1>3 DEF ImportedRows
<1> QED
  BY <1>1, <1>2, <1>3

(***************************************************************************)
(* One lemma per kind of step.                                             *)
(***************************************************************************)

LEMMA InitInvariant == Init => IInv
<1> SUFFICES ASSUME Init PROVE IInv
  OBVIOUS
<1> USE FramesAssumption, LabelsFacts
<1>1. frame \in [Range(Labels) -> Held] /\ \A l \in DOMAIN frame : frame[l].edit = 0
  BY DEF Init, Held
<1>2. TypeOK
  <2>1. seen \in [Range(Labels) -> SUBSET (Column \cup {Gone})]
    BY <1>1 DEF Init, Held
  <2> QED
    BY <1>1, <2>1, EditsAssumption DEF Init, TypeOK, Held, Record, Status, Pending
<1>3. Aligned /\ RecordAhead /\ EditsOrdered
  BY <1>1 DEF Init, Aligned, RecordAhead, EditsOrdered, StreamsWhole, Converting
<1>4. StreamsWhole /\ PlanInHand /\ RecordsAgree /\ SourcesKept /\ AllConvertedFirst
  BY DEF Init, StreamsWhole, PlanInHand, Converting, RecordsAgree, SourcesKept, AllConvertedFirst,
       Pending, Answered
<1>5. ColumnsSeen
  BY <1>1 DEF Init, ColumnsSeen, Converting
<1> QED
  BY <1>2, <1>3, <1>4, <1>5 DEF IInv

(* What a column could become it can still become when its label has had   *)
(* more columns.                                                           *)
LEMMA DeliverableGrows ==
  ASSUME NEW l, seen[l] \subseteq seen'[l]
  PROVE  Conversion!Deliverable(l) \subseteq Conversion!Deliverable(l)'
BY DEF Conversion!Deliverable, Conversion!Delivered, Conversion!Converts, Conversion!Unsupported,
   Conversion!NotBuilt, Conversion!TakenFrom, Conversion!FromSeries, Conversion!Shares,
   Conversion!Reason, Conversion!Concatenated

(* Finished columns stay seen as long as nothing is pushed or forgotten.   *)
LEMMA ColumnsStaySeen ==
  ASSUME ColumnsSeen, UNCHANGED <<frame, seen, fields, arrays>>,
         \A k \in DOMAIN arrays : records'[k] = records[k],
         Converting' => series'.column \in seen[Label]
  PROVE  ColumnsSeen'
<1>1. \A l : Conversion!Deliverable(l)' = Conversion!Deliverable(l)
  BY DEF Conversion!Deliverable, Conversion!Delivered, Conversion!Converts, Conversion!Unsupported,
     Conversion!NotBuilt, Conversion!TakenFrom, Conversion!FromSeries, Conversion!Shares,
     Conversion!Reason, Conversion!Concatenated
<1>2. \A k \in DOMAIN arrays : DeliveredAt(k)' = DeliveredAt(k)
  BY DEF DeliveredAt
<1>3. Label' = Label
  BY DEF Label, Current
<1> QED
  BY <1>1, <1>2, <1>3 DEF ColumnsSeen

(* What was made stays as long as nothing is pushed and nobody edits.      *)
LEMMA SourcesStay ==
  ASSUME SourcesKept, UNCHANGED <<frame, seen, fields, arrays>>,
         \A k \in DOMAIN arrays : records'[k] = records[k]
  PROVE  SourcesKept'
BY DEF SourcesKept, Untouched, AsPlanned, MadeOf, ValidatedObject, Borrowable

(* The steps that end the call and push nothing.                           *)
LEMMA ReturnKeepsInvariant ==
  ASSUME IInv, pc # "done",
         NEW kind \in Status \ {"pending"}, NEW k, Return(Outcome(kind, k)),
         UNCHANGED <<frame, seen, strict, series, records, fields, arrays, edits>>,
         kind \in {"strict", "table"} => pc = "check",
         kind = "table" /\ strict => \A j \in DOMAIN records : records[j].zeroCopy,
         kind = "strict" => FirstCopied(k)
  PROVE  IInv'
<1>1. TypeOK'
  BY DEF IInv, TypeOK, Return, Outcome, Status
<1>2. Aligned' /\ RecordAhead' /\ EditsOrdered' /\ StreamsWhole' /\ RecordsAgree'
  BY DEF IInv, Aligned, RecordAhead, EditsOrdered, StreamsWhole, RecordsAgree, RecordAgrees, Return,
         Converting
<1>3. PlanInHand'
  BY DEF PlanInHand, Converting, Return
<1>4. AllConvertedFirst'
  BY DEF IInv, AllConvertedFirst, RecordAhead, Converting, Return, Outcome, Answered, FirstCopied
<1>5. SourcesKept'
  BY SourcesStay DEF IInv
<1>6. ColumnsSeen'
  <2>1. ~Converting'
    BY DEF Return, Converting
  <2> QED
    BY <2>1, ColumnsStaySeen DEF IInv
<1> QED
  BY <1>1, <1>2, <1>3, <1>4, <1>5, <1>6 DEF IInv

LEMMA PlanKeepsInvariant == IInv /\ PlanColumn => IInv'
<1> SUFFICES ASSUME IInv, PlanColumn PROVE IInv'
  OBVIOUS
<1> USE LabelsFacts
<1> DEFINE c == frame[Label].column
           new == FromPlan(Label, Planned(c))
<1>1. /\ pc = "plan" /\ Current \in DOMAIN Labels /\ c # Gone /\ Supported(c)
      /\ records' = Append(records, new) /\ series' = frame[Label]
      /\ pc' \in {"validate", "obtain"}
      /\ UNCHANGED <<frame, seen, strict, fields, arrays, result, edits>>
  BY DEF PlanColumn
<1>2. Label \in Range(Labels) /\ frame[Label] \in Held
  BY <1>1 DEF Label, IInv, TypeOK
<1>3. new \in Record
  BY <1>2 DEF FromPlan, Planned, PlanBorrows, Record
<1>4. records \in Seq(Record) /\ Len(records) = Len(arrays) /\ Len(arrays) \in Nat
  BY <1>1 DEF IInv, TypeOK, RecordAhead, Converting
<1>5. /\ records' \in Seq(Record) /\ Len(records') = Len(arrays) + 1
      /\ \A k \in DOMAIN arrays : records'[k] = records[k]
      /\ records'[Len(records')] = new
  <2>1. DOMAIN arrays = 1 .. Len(records)
    BY <1>4 DEF IInv, TypeOK
  <2> QED
    BY <1>1, <1>3, <1>4, <2>1, AppendRecord
<1>6. TypeOK'
  BY <1>1, <1>2, <1>5 DEF IInv, TypeOK
<1>7. Aligned' /\ RecordsAgree'
  BY <1>1, <1>5 DEF IInv, Aligned, RecordsAgree, RecordAgrees
<1>8. RecordAhead' /\ EditsOrdered' /\ StreamsWhole'
  BY <1>1, <1>2, <1>4, <1>5 DEF IInv, TypeOK, RecordAhead, EditsOrdered, StreamsWhole,
       Converting
<1>9. PlanInHand'
  <2>1. pc' = "obtain" => ValidatedObject(c)
    BY DEF PlanColumn, DtypeBackend, ArrowKind, KindOf, ValidatedObject
  <2>2. pc' = "validate" => c.class = "numpy" /\ c.kind = "O"
    <3>1. c \in Column
      BY <1>1, <1>2 DEF Held
    <3> QED
      BY <1>1, <3>1 DEF PlanColumn, Supported, Column, DtypeClass, DtypeKind, DtypeBackend,
           ArrowKind, KindOf
  <2> QED
    BY <1>1, <1>5, <2>1, <2>2 DEF PlanInHand, Converting, Current, Label, NewestRecord, ValidatedObject
<1>10. AllConvertedFirst'
  BY <1>1 DEF IInv, TypeOK, AllConvertedFirst, Answered
<1>11. SourcesKept'
  BY <1>1, <1>5, SourcesStay DEF IInv
<1>12. ColumnsSeen'
  <2>1. series'.column \in seen[Label]
    BY <1>1, <1>2 DEF IInv, TypeOK, ColumnsSeen
  <2> QED
    BY <1>1, <1>5, <2>1, ColumnsStaySeen DEF IInv
<1> QED
  BY <1>6, <1>7, <1>8, <1>9, <1>10, <1>11, <1>12 DEF IInv

LEMMA ValidateKeepsInvariant == IInv /\ ValidateObject => IInv'
<1> SUFFICES ASSUME IInv, ValidateObject PROVE IInv'
  OBVIOUS
<1>1. /\ pc = "validate" /\ pc' = "obtain"
      /\ UNCHANGED <<frame, seen, strict, series, records, fields, arrays, result, edits>>
  BY DEF ValidateObject
<1>2. TypeOK' /\ Aligned' /\ RecordAhead' /\ EditsOrdered' /\ StreamsWhole'
  BY <1>1 DEF IInv, TypeOK, Aligned, RecordAhead, EditsOrdered, StreamsWhole, Converting
<1>3. PlanInHand' /\ RecordsAgree'
  <2>1. ValidatedObject(series.column)
    BY DEF ValidateObject, ValidatedObject
  <2> QED
    BY <1>1, <2>1 DEF IInv, PlanInHand, Converting, Current, Label, NewestRecord, RecordsAgree,
         RecordAgrees, ValidatedObject
<1>4. AllConvertedFirst'
  BY <1>1 DEF IInv, TypeOK, AllConvertedFirst, Answered, Rectangular
<1>5. SourcesKept'
  BY <1>1, SourcesStay DEF IInv
<1>6. ColumnsSeen'
  <2>1. series'.column \in seen[Label]
    BY <1>1 DEF IInv, ColumnsSeen, Converting
  <2> QED
    BY <1>1, <2>1, ColumnsStaySeen DEF IInv
<1> QED
  BY <1>2, <1>3, <1>4, <1>5, <1>6 DEF IInv

(* What a table says of a column with this array, field and record.        *)
Pushed(rows, nullable, ordered, shared, record) ==
  [rows |-> rows, nullable |-> nullable, ordered |-> ordered, shared |-> shared,
   zeroCopy |-> record.zeroCopy, reason |-> record.reason]

(* Pushing an array and its field, with the record in hand settled so that *)
(* it agrees with how the array came about.                                *)
LEMMA PushKeepsInvariant ==
  ASSUME IInv, pc = "obtain",
         NEW held \in Held, NEW rows \in Nat, NEW batches \in Nat,
         NEW shared \in BOOLEAN, NEW nullable \in BOOLEAN, NEW record \in Record,
         record.column = Label,
         records' = [records EXCEPT ![Len(records)] = record],
         PushArray(held, rows, batches, shared, nullable),
         UNCHANGED <<frame, seen, strict, series, result, edits>>,
         held.column # Gone, held.edit <= edits,
         RecordAgrees(record, [label |-> Label, planned |-> series.edit,
                               edit |-> held.edit, rows |-> rows,
                               batches |-> batches, shared |-> shared]),
         series.edit = held.edit /\ frame[Label].edit = held.edit =>
           MadeOf(frame[Label].column, rows, Field(held, nullable).ordered, record.zeroCopy),
         Pushed(rows, nullable, Field(held, nullable).ordered, shared, record)
           \in Conversion!Deliverable(Label)
  PROVE  IInv'
<1> USE LabelsFacts
<1> DEFINE array == [label |-> Label, planned |-> series.edit, edit |-> held.edit,
                     rows |-> rows, batches |-> batches, shared |-> shared]
           FieldSet == [name : Range(Labels), nullable : BOOLEAN, ordered : BOOLEAN]
           n == Len(arrays)
<1>1. /\ Current \in DOMAIN Labels /\ n \in Nat /\ n + 1 <= Len(Labels)
      /\ Label = Labels[n + 1] /\ Label \in Range(Labels)
      /\ series \in Held /\ series.column # Gone
  BY DEF IInv, TypeOK, PlanInHand, Converting, Current, Label
<1>2. /\ records \in Seq(Record) /\ Len(records) = n + 1 /\ Len(fields) = n
      /\ fields \in Seq(FieldSet) /\ arrays \in Seq(Converted)
  BY DEF IInv, TypeOK, RecordAhead, Aligned, Converting
<1>3. Field(held, nullable) \in FieldSet /\ array \in Converted
  <2>1. held.column \in Column /\ series.column \in Column
    BY <1>1 DEF Held
  <2> QED
    BY <1>1, <2>1 DEF Field, Held, Column, Converted
<1>4. /\ arrays' = Append(arrays, array) /\ fields' = Append(fields, Field(held, nullable))
      /\ pc' = "plan" /\ UNCHANGED <<frame, seen, strict, series, result, edits>>
  BY DEF PushArray
<1>5. /\ arrays' \in Seq(Converted) /\ Len(arrays') = n + 1
      /\ \A k \in 1 .. n : arrays'[k] = arrays[k]
      /\ arrays'[n + 1] = array
  BY <1>2, <1>3, <1>4, AppendRecord
<1>6. /\ fields' \in Seq(FieldSet) /\ Len(fields') = n + 1
      /\ \A k \in 1 .. n : fields'[k] = fields[k]
      /\ fields'[n + 1] = Field(held, nullable)
  BY <1>2, <1>3, <1>4, AppendRecord
<1>7. /\ records' \in Seq(Record) /\ Len(records') = n + 1
      /\ \A k \in 1 .. n : records'[k] = records[k]
      /\ records'[n + 1] = record
  BY <1>1, <1>2
<1>8. TypeOK'
  BY <1>4, <1>5, <1>6, <1>7 DEF IInv, TypeOK
<1>9. Aligned'
  <2>1. DOMAIN arrays' = 1 .. n + 1 /\ DOMAIN arrays = 1 .. n
    BY <1>2, <1>5
  <2>2. SUFFICES ASSUME NEW k \in 1 .. n + 1
                 PROVE  /\ records'[k].column = Labels[k]
                        /\ arrays'[k].label = Labels[k]
                        /\ fields'[k].name = Labels[k]
    BY <1>1, <1>5, <1>6, <2>1 DEF Aligned
  <2>3. CASE k \in 1 .. n
    BY <1>5, <1>6, <1>7, <2>1, <2>3 DEF IInv, Aligned
  <2>4. CASE k = n + 1
    BY <1>1, <1>5, <1>6, <1>7, <2>4 DEF Field
  <2> QED
    BY <1>1, <2>3, <2>4
<1>10. RecordsAgree'
  <2>1. DOMAIN arrays' = 1 .. n + 1 /\ DOMAIN arrays = 1 .. n
    BY <1>2, <1>5
  <2>2. SUFFICES ASSUME NEW k \in 1 .. n + 1
                 PROVE  RecordAgrees(records'[k], arrays'[k])
    BY <2>1 DEF RecordsAgree, RecordAgrees
  <2>3. CASE k \in 1 .. n
    BY <1>5, <1>7, <2>1, <2>3 DEF IInv, RecordsAgree
  <2>4. CASE k = n + 1
    BY <1>5, <1>7, <2>4
  <2> QED
    BY <1>1, <2>3, <2>4
<1>11. RecordAhead' /\ StreamsWhole' /\ PlanInHand'
  BY <1>1, <1>4, <1>5, <1>7 DEF IInv, RecordAhead, StreamsWhole, PlanInHand, Converting
<1>12. EditsOrdered'
  <2>1. series.edit <= edits /\ held.edit <= edits
    BY DEF IInv, EditsOrdered
  <2> QED
    BY <1>1, <1>2, <1>4, <1>5, <2>1 DEF IInv, EditsOrdered
<1>13. AllConvertedFirst'
  BY <1>4 DEF IInv, TypeOK, AllConvertedFirst, Answered
<1>14. SourcesKept'
  <2>1. DOMAIN arrays' = 1 .. n + 1 /\ DOMAIN arrays = 1 .. n
    BY <1>2, <1>5
  <2>2. ASSUME NEW k \in 1 .. n + 1, Untouched(k)'
        PROVE  MadeOf(frame[Labels[k]].column, arrays'[k].rows, fields'[k].ordered,
                      records'[k].zeroCopy)
    <3>1. /\ arrays'[k].edit = arrays'[k].planned
          /\ frame[arrays'[k].label].edit = arrays'[k].edit
      BY <1>4, <2>2 DEF Untouched, AsPlanned
    <3>2. CASE k \in 1 .. n
      BY <1>5, <1>6, <1>7, <2>1, <3>1, <3>2 DEF IInv, SourcesKept, Untouched, AsPlanned
    <3>3. CASE k = n + 1
      BY <1>1, <1>5, <1>6, <1>7, <3>1, <3>3
    <3> QED
      BY <1>1, <3>2, <3>3
  <2>3. ASSUME NEW k \in DOMAIN arrays', Untouched(k)'
        PROVE  MadeOf(frame[Labels[k]].column, arrays[k].rows, fields[k].ordered,
                      records[k].zeroCopy)'
    <3>1. MadeOf(frame[Labels[k]].column, arrays'[k].rows, fields'[k].ordered,
                 records'[k].zeroCopy)
      BY <2>1, <2>2, <2>3
    <3>2. frame' = frame
      BY <1>4
    <3> QED
      BY <3>1, <3>2 DEF MadeOf, ValidatedObject, Borrowable
  <2> QED
    BY <2>3 DEF SourcesKept
<1>15. ColumnsSeen'
  <2>1. DOMAIN arrays' = 1 .. n + 1 /\ DOMAIN arrays = 1 .. n
    BY <1>2, <1>5
  <2>2. \A l : Conversion!Deliverable(l)' = Conversion!Deliverable(l)
    BY DEF Conversion!Deliverable, Conversion!Delivered, Conversion!Converts,
       Conversion!Unsupported, Conversion!NotBuilt, Conversion!TakenFrom, Conversion!FromSeries,
       Conversion!Shares, Conversion!Reason, Conversion!Concatenated
  <2>3. ASSUME NEW k \in 1 .. n + 1
        PROVE  DeliveredAt(k)' \in Conversion!Deliverable(Labels[k])
    <3>1. CASE k \in 1 .. n
      <4>1. DeliveredAt(k)' = DeliveredAt(k)
        BY <1>5, <1>6, <1>7, <3>1 DEF DeliveredAt
      <4> QED
        BY <2>1, <3>1, <4>1 DEF IInv, ColumnsSeen
    <3>2. CASE k = n + 1
      <4>1. Field(held, nullable).nullable = nullable
        BY DEF Field
      <4>2. DeliveredAt(k)' = Pushed(rows, nullable, Field(held, nullable).ordered, shared, record)
        BY <1>5, <1>6, <1>7, <3>2, <4>1 DEF DeliveredAt, Pushed
      <4>3. Labels[k] = Label
        BY <1>1, <3>2
      <4> QED
        BY <4>2, <4>3, Zenon
    <3> QED
      BY <1>1, <3>1, <3>2
  <2>4. ~Converting'
    BY <1>4 DEF Converting
  <2> QED
    BY <1>4, <2>1, <2>2, <2>3, <2>4 DEF IInv, ColumnsSeen
<1> QED
  BY <1>8, <1>9, <1>10, <1>11, <1>13, <1>12, <1>14, <1>15 DEF IInv

(* The record in hand while a column is obtained.                          *)
LEMMA RecordInHand ==
  ASSUME IInv, pc = "obtain"
  PROVE  /\ records \in Seq(Record) /\ records # <<>>
         /\ NewestRecord = FromPlan(Label, Planned(series.column))
         /\ NewestRecord \in Record
         /\ series \in Held /\ series.column \in Column
         /\ Label \in Range(Labels) /\ frame[Label] \in Held
         /\ frame[Label].edit = series.edit => frame[Label] = series
         /\ frame[Label].edit <= edits /\ series.edit <= edits
         /\ ValidatedObject(series.column)
<1>1. /\ records \in Seq(Record) /\ Len(records) = Len(arrays) + 1 /\ Len(arrays) \in Nat
      /\ NewestRecord = FromPlan(Label, Planned(series.column))
      /\ series \in Held /\ series.column # Gone /\ Current \in DOMAIN Labels
      /\ frame[Label].edit = series.edit => frame[Label] = series
      /\ ValidatedObject(series.column)
  BY DEF IInv, TypeOK, RecordAhead, PlanInHand, Converting
<1>2. NewestRecord \in Record
  BY <1>1 DEF NewestRecord
<1>3. Label \in Range(Labels) /\ frame[Label] \in Held
  BY <1>1, LabelsFacts DEF Label, IInv, TypeOK
<1>4. frame[Label].edit <= edits /\ series.edit <= edits
  BY <1>3 DEF IInv, TypeOK, EditsOrdered
<1> QED
  BY <1>1, <1>2, <1>3, <1>4 DEF Held

(* A column that passed its checks is one that FrameConversion converts,   *)
(* and it says alike which are taken from the Series, which cannot be      *)
(* built and which are planned as borrows.                                 *)
LEMMA ColumnPlan ==
  ASSUME NEW p \in Column, Supported(p), ValidatedObject(p)
  PROVE  /\ ~Conversion!Unsupported(p)
         /\ BorrowsBuffer(p, Planned(p)) <=> Conversion!FromSeries(p) \/ Conversion!NotBuilt(p)
         /\ Conversion!FromSeries(p) => p.kind = "iuf"
         /\ Conversion!NotBuilt(p) => p.kind = "half"
         /\ ~Conversion!NotBuilt(p) =>
              (Planned(p) <=> Conversion!FromSeries(p) \/ p.class = "ArrowDtype")
<1>1. p.class \in DtypeClass /\ p.kind \in DtypeKind /\ p # Gone
  BY FramesAssumption DEF Column
<1>2. ~Conversion!Unsupported(p)
  BY <1>1 DEF Supported, ValidatedObject, Conversion!Unsupported, DtypeClass,
       Temporal, Conversion!Temporal
<1>3. CASE p.class = "ArrowDtype"
  <2>1. DtypeBackend(p) = "Arrow" /\ ArrowKind(p) # "Categorical"
    BY <1>1, <1>3 DEF DtypeKind, DtypeBackend, ArrowKind, KindOf
  <2> QED
    BY <1>2, <1>3, <2>1 DEF Planned, PlanBorrows, BorrowsBuffer, Conversion!FromSeries,
       Conversion!NotBuilt
<1>4. CASE p.class = "CategoricalDtype"
  <2>1. DtypeBackend(p) = "Categorical"
    BY <1>4 DEF DtypeBackend
  <2> QED
    BY <1>2, <1>4, <2>1 DEF Planned, PlanBorrows, BorrowsBuffer, Conversion!FromSeries,
       Conversion!NotBuilt
<1>5. CASE p.class = "DatetimeTZDtype"
  <2>1. DtypeBackend(p) = "Numpy" /\ ArrowKind(p) = "Timestamp"
    BY <1>5 DEF DtypeBackend, ArrowKind
  <2> QED
    BY <1>2, <1>5, <2>1 DEF Planned, PlanBorrows, BorrowsBuffer, Conversion!FromSeries,
       Conversion!NotBuilt
<1>6. CASE p.class = "numpy"
  <2>1. DtypeBackend(p) = "Numpy" /\ ArrowKind(p) = KindOf[p.kind]
        /\ (IsContiguous(p) <=> p.contiguous)
    BY <1>6, <1>1 DEF DtypeBackend, ArrowKind, IsContiguous, Column
  <2>2. KindOf[p.kind] = "Numeric" <=> p.kind \in {"iuf", "half"}
    BY <1>1 DEF KindOf, DtypeKind
  <2> QED
    BY <1>2, <1>6, <2>1, <2>2 DEF Planned, PlanBorrows, BorrowsBuffer, Conversion!FromSeries,
       Conversion!NotBuilt
<1> QED
  BY <1>1, <1>3, <1>4, <1>5, <1>6 DEF Supported, DtypeClass

LEMMA IsDeliverable ==
  ASSUME NEW l, NEW p \in seen[l], NEW c \in seen[l], NEW shared \in BOOLEAN,
         Conversion!Converts(p, c), Conversion!Shares(p, c) => shared
  PROVE  Conversion!Delivered(p, c, shared) \in Conversion!Deliverable(l)
<1> DEFINE y == <<p, c, shared>>
<1>1. /\ y \in seen[l] \X seen[l] \X BOOLEAN
      /\ y[1] = p /\ y[2] = c /\ y[3] = shared
  OBVIOUS
<1> QED
  BY <1>1 DEF Conversion!Deliverable

LEMMA BorrowKeepsInvariant == IInv /\ BorrowBuffer => IInv'
<1> SUFFICES ASSUME IInv, BorrowBuffer PROVE IInv'
  OBVIOUS
<1>1. /\ pc = "obtain" /\ NewestRecord.zeroCopy
      /\ PushArray(series, series.column.rows, 0, TRUE, FALSE)
      /\ UNCHANGED <<frame, seen, strict, series, records, result, edits>>
  BY DEF BorrowBuffer, MustBorrow, BorrowsBuffer, NewestRecord
<1>2. /\ NewestRecord \in Record /\ NewestRecord.column = Label
      /\ NewestRecord.reason = "none"
  BY <1>1, RecordInHand DEF FromPlan
<1>3. series.column.rows \in Nat /\ series.column # Gone
  BY <1>1, RecordInHand, FramesAssumption DEF Column
<1>4. records' = [records EXCEPT ![Len(records)] = NewestRecord]
  BY <1>1, RecordInHand DEF NewestRecord
<1>5. RecordAgrees(NewestRecord,
        [label |-> Label, planned |-> series.edit, edit |-> series.edit,
         rows |-> series.column.rows, batches |-> 0, shared |-> TRUE])
  BY <1>1, <1>2 DEF RecordAgrees
<1>6. series \in Held /\ series.edit <= edits
  BY <1>1, RecordInHand
<1>7. ASSUME frame[Label].edit = series.edit
      PROVE  MadeOf(frame[Label].column, series.column.rows, Field(series, FALSE).ordered,
                    NewestRecord.zeroCopy)
  <2>1. frame[Label] = series /\ ValidatedObject(series.column)
    BY <1>1, <1>7, RecordInHand
  <2>2. series.column.class # "CategoricalDtype"
    BY DEF BorrowBuffer, MustBorrow, BorrowsBuffer, DtypeBackend
  <2> QED
    BY <1>1, <1>3, <2>1, <2>2 DEF MadeOf
<1>8. Pushed(series.column.rows, FALSE, Field(series, FALSE).ordered, TRUE, NewestRecord)
        \in Conversion!Deliverable(Label)
  <2> DEFINE p == series.column
  <2>1. p \in seen[Label] /\ p \in Column /\ Supported(p) /\ ValidatedObject(p)
    BY <1>1, RecordInHand DEF IInv, ColumnsSeen, PlanInHand, Converting
  <2>2. Conversion!FromSeries(p)
    <3>1. NewestRecord = FromPlan(Label, Planned(p))
      BY <1>1, RecordInHand
    <3>2. NewestRecord.zeroCopy = Planned(p)
      BY <3>1, Zenon DEF FromPlan
    <3>3. BorrowsBuffer(p, Planned(p)) /\ p.kind = "iuf"
      BY <3>2 DEF BorrowBuffer, MustBorrow, NewestRecord
    <3> QED
      BY <2>1, <3>3, ColumnPlan
  <2>3. Conversion!Converts(p, p)
    BY <1>3, <2>1, <2>2, ColumnPlan DEF Conversion!Converts, Conversion!TakenFrom,
       Conversion!FromSeries, Conversion!NotBuilt
  <2>4. Conversion!Delivered(p, p, TRUE) \in Conversion!Deliverable(Label)
    BY <2>1, <2>3, IsDeliverable
  <2>5. Pushed(p.rows, FALSE, Field(series, FALSE).ordered, TRUE, NewestRecord)
          = Conversion!Delivered(p, p, TRUE)
    BY <1>1, <1>2, <2>2 DEF Pushed, Field, Conversion!Delivered, Conversion!TakenFrom,
       Conversion!Reason, Conversion!Concatenated, Conversion!FromSeries
  <2> QED
    BY <2>4, <2>5
<1> QED
  BY <1>1, <1>2, <1>3, <1>4, <1>5, <1>6, <1>7, <1>8, PushKeepsInvariant

(* A record that still claims zero-copy after an import is that of an      *)
(* Arrow-backed column, whose only batch is shared.                        *)
LEMMA ImportedClaimIsTrue ==
  ASSUME IInv, pc = "obtain", ~MustBorrow, NewestRecord.zeroCopy,
         frame[Label].edit = series.edit,
         NEW shared \in MayShare(frame[Label].column),
         Len(frame[Label].column.chunks) <= 1
  PROVE  shared
<1>1. frame[Label] = series /\ Planned(series.column)
  BY RecordInHand DEF FromPlan
<1>2. series.column.class = "ArrowDtype"
  BY <1>1 DEF Planned, PlanBorrows, MustBorrow, BorrowsBuffer, NewestRecord, DtypeBackend
<1> QED
  BY <1>1, <1>2 DEF MayShare

LEMMA ImportKeepsInvariant == IInv /\ ImportStream => IInv'
<1> SUFFICES ASSUME IInv, ImportStream PROVE IInv'
  OBVIOUS
<1> DEFINE c == frame[Label].column
           batches == Len(c.chunks)
           n == Len(records)
<1>1. /\ pc = "obtain" /\ ~MustBorrow /\ c # Gone
      /\ records' = Corrected(batches)
      /\ UNCHANGED <<frame, seen, strict, series, result, edits>>
  BY DEF ImportStream
<1>2. PICK shared \in MayShare(c) :
        PushArray(frame[Label], ImportedRows(c), batches, shared, TRUE)
  BY DEF ImportStream
<1>3. frame[Label] \in Held /\ c \in Column /\ frame[Label].edit <= edits
  BY <1>1, RecordInHand DEF Held
<1>4. batches \in Nat /\ shared \in BOOLEAN
  BY <1>3 DEF Column, MayShare
<1>5. /\ records \in Seq(Record) /\ records # <<>> /\ n \in DOMAIN records
      /\ NewestRecord \in Record /\ NewestRecord = records[n]
      /\ NewestRecord.column = Label
      /\ NewestRecord.zeroCopy <=> NewestRecord.reason = "none"
      /\ NewestRecord.reason # "chunked"
  BY <1>1, RecordInHand DEF FromPlan, NewestRecord
<1>6. ImportedRows(c) \in Nat
  <2>1. Label \in DOMAIN frame
    BY <1>1, RecordInHand DEF IInv, TypeOK
  <2>2. SumFunction(c.chunks) = c.rows
    BY <1>1, <2>1 DEF IInv, StreamsWhole
  <2> QED
    BY <1>3, <2>2 DEF ImportedRows, Column
<1> DEFINE Agrees(r) ==
             RecordAgrees(r, [label |-> Label, planned |-> series.edit,
                              edit |-> frame[Label].edit, rows |-> ImportedRows(c),
                              batches |-> batches, shared |-> shared])
<1>7. \E record \in Record :
        /\ record.column = Label
        /\ records' = [records EXCEPT ![n] = record]
        /\ Agrees(record)
        /\ batches <= 1 => record.zeroCopy = NewestRecord.zeroCopy
        /\ IF batches > 1 THEN ~record.zeroCopy /\ record.reason = "chunked"
           ELSE record = NewestRecord
  <2>1. CASE batches > 1
    <3> DEFINE record == [NewestRecord EXCEPT !.zeroCopy = FALSE, !.reason = "chunked"]
    <3>1. record \in Record /\ record.column = Label
      BY <1>5 DEF Record
    <3>2. records' = [records EXCEPT ![n] = record]
      BY <1>1, <1>5, <2>1 DEF Corrected
    <3>3. Agrees(record)
      BY <1>5, <2>1 DEF RecordAgrees, Record
    <3>4. ~(batches <= 1)
      BY <1>4, <2>1
    <3>5. ~record.zeroCopy /\ record.reason = "chunked"
      BY <1>5 DEF Record
    <3> QED
      BY <2>1, <3>1, <3>2, <3>3, <3>4, <3>5
  <2>2. CASE ~(batches > 1)
    <3>1. records' = [records EXCEPT ![n] = NewestRecord]
      BY <1>1, <1>5, <2>2 DEF Corrected
    <3>2. frame[Label].edit = series.edit /\ NewestRecord.zeroCopy => shared
      BY <1>1, <1>4, <2>2, ImportedClaimIsTrue
    <3>3. Agrees(NewestRecord)
      BY <1>5, <2>2, <3>2 DEF RecordAgrees
    <3> QED
      BY <1>5, <2>2, <3>1, <3>3
  <2> QED
    BY <2>1, <2>2
<1>8. ASSUME frame[Label].edit = series.edit, NEW z \in BOOLEAN,
             batches <= 1 => z = NewestRecord.zeroCopy
      PROVE  MadeOf(c, ImportedRows(c), Field(frame[Label], TRUE).ordered, z)
  <2>1. frame[Label] = series /\ ValidatedObject(series.column) /\ Label \in DOMAIN frame
        /\ NewestRecord.zeroCopy = Planned(c)
    BY <1>1, <1>8, RecordInHand DEF IInv, TypeOK, FromPlan
  <2>2. ImportedRows(c) = c.rows
    <3>1. SumFunction(c.chunks) = c.rows
      BY <1>1, <2>1 DEF IInv, StreamsWhole
    <3>2. c.chunks \in Seq(Nat)
      BY <1>3 DEF Column
    <3> QED
      BY <3>1, <3>2, AllRowsImported
  <2>3. c.class = "CategoricalDtype" => Field(frame[Label], TRUE).ordered = c.ordered
    BY <1>3, <2>1 DEF Field, Column
  <2>4. ASSUME Borrowable(c)
        PROVE  Planned(c)
    <3>1. CASE c.class = "ArrowDtype"
      <4>1. DtypeBackend(c) = "Arrow" /\ ArrowKind(c) # "Categorical"
        BY <1>3, <3>1 DEF Column, DtypeKind, DtypeBackend, ArrowKind, KindOf
      <4> QED
        BY <4>1 DEF Planned, PlanBorrows
    <3>2. CASE c.class = "numpy" /\ c.kind = "iuf" /\ c.contiguous
      <4>1. DtypeBackend(c) = "Numpy" /\ ArrowKind(c) = "Numeric" /\ IsContiguous(c)
        BY <3>2 DEF DtypeBackend, ArrowKind, KindOf, IsContiguous
      <4> QED
        BY <4>1 DEF Planned, PlanBorrows
    <3> QED
      BY <2>4, <3>1, <3>2 DEF Borrowable
  <2>5. Borrowable(c) /\ Planned(c) => c.class = "ArrowDtype" /\ batches <= 1
    BY <1>1, <2>1 DEF Borrowable, MustBorrow, BorrowsBuffer, NewestRecord, DtypeBackend,
         ArrowKind, KindOf
  <2> QED
    BY <1>1, <1>8, <2>1, <2>2, <2>3, <2>4, <2>5 DEF MadeOf
<1>9. ASSUME NEW record \in Record,
              IF batches > 1 THEN ~record.zeroCopy /\ record.reason = "chunked"
              ELSE record = NewestRecord
       PROVE  Pushed(ImportedRows(c), TRUE, Field(frame[Label], TRUE).ordered, shared, record)
                \in Conversion!Deliverable(Label)
  <2> DEFINE p == series.column
  <2>1. /\ p \in seen[Label] /\ p \in Column /\ Supported(p) /\ ValidatedObject(p)
        /\ c \in seen[Label]
    BY <1>1, RecordInHand DEF IInv, TypeOK, ColumnsSeen, PlanInHand, Converting
  <2>2. NewestRecord = FromPlan(Label, Planned(p))
    BY <1>1, RecordInHand
  <2>3. ~BorrowsBuffer(p, Planned(p))
    <3>1. NewestRecord.zeroCopy = Planned(p)
      BY <2>2, Zenon DEF FromPlan
    <3> QED
      BY <1>1, <3>1 DEF MustBorrow, NewestRecord
  <2>4. ~Conversion!FromSeries(p) /\ ~Conversion!NotBuilt(p) /\ ~Conversion!Unsupported(p)
        /\ (Planned(p) <=> p.class = "ArrowDtype")
    BY <2>1, <2>3, ColumnPlan
  <2>5. Conversion!Converts(p, c)
    BY <1>1, <2>4 DEF Conversion!Converts, Conversion!TakenFrom
  <2>6. Conversion!Shares(p, c) => shared
    BY <1>4, <2>4 DEF Conversion!Shares, MayShare
  <2>7. Conversion!Delivered(p, c, shared) \in Conversion!Deliverable(Label)
    BY <1>4, <2>1, <2>5, <2>6, IsDeliverable
  <2>8. ImportedRows(c) = c.rows
    <3>1. SumFunction(c.chunks) = c.rows /\ c.chunks \in Seq(Nat)
      BY <1>1, <1>3, RecordInHand DEF IInv, TypeOK, StreamsWhole, Column
    <3> QED
      BY <3>1, AllRowsImported
  <2>9. Conversion!Concatenated(p, c) <=> batches > 1
    BY <2>4 DEF Conversion!Concatenated
  <2>10. /\ record.zeroCopy = (Conversion!Reason(p, c) = "none")
         /\ record.reason = Conversion!Reason(p, c)
    <3>1. CASE batches > 1
      <4>1. record.zeroCopy = FALSE /\ record.reason = "chunked"
        BY <1>9, <3>1 DEF Record
      <4> QED
        BY <2>9, <3>1, <4>1 DEF Conversion!Reason
    <3>2. CASE ~(batches > 1)
      <4>1. record = FromPlan(Label, Planned(p))
        BY <1>9, <2>2, <3>2
      <4>2. record.zeroCopy = Planned(p)
        BY <4>1, Zenon DEF FromPlan
      <4>3. record.reason = IF Planned(p) THEN "none" ELSE "planned"
        BY <4>1, Zenon DEF FromPlan
      <4>4. Conversion!Reason(p, c) = IF p.class = "ArrowDtype" THEN "none" ELSE "planned"
        BY <2>4, <2>9, <3>2 DEF Conversion!Reason
      <4>5. CASE Planned(p)
        <5>1. record.zeroCopy = TRUE
          BY <4>2, <4>5, Zenon
        <5> QED
          BY <2>4, <4>3, <4>4, <4>5, <5>1
      <4>6. CASE ~Planned(p)
        <5>1. Planned(p) \in BOOLEAN
          BY DEF Planned, PlanBorrows
        <5>2. record.zeroCopy = FALSE
          BY <4>2, <4>6, <5>1, Zenon
        <5> QED
          BY <2>4, <4>3, <4>4, <4>6, <5>2
      <4> QED
        BY <4>5, <4>6
    <3> QED
      BY <3>1, <3>2
  <2>11. Field(frame[Label], TRUE).ordered
           = (p.class = "CategoricalDtype" /\ c.class = "CategoricalDtype" /\ p.ordered)
    BY DEF Field
  <2>12. Conversion!TakenFrom(p, c) = c
    BY <2>4 DEF Conversion!TakenFrom
  <2>13. Pushed(ImportedRows(c), TRUE, Field(frame[Label], TRUE).ordered, shared, record)
           = Conversion!Delivered(p, c, shared)
    BY <2>4, <2>8, <2>10, <2>11, <2>12 DEF Pushed, Conversion!Delivered
  <2> QED
    BY <2>7, <2>13
<1>10. PICK held \in Held, rows \in Nat, count \in Nat, record \in Record :
        /\ held.column # Gone /\ held.edit <= edits
        /\ PushArray(held, rows, count, shared, TRUE)
        /\ record.column = Label
        /\ records' = [records EXCEPT ![Len(records)] = record]
        /\ RecordAgrees(record, [label |-> Label, planned |-> series.edit,
                                 edit |-> held.edit, rows |-> rows,
                                 batches |-> count, shared |-> shared])
        /\ series.edit = held.edit /\ frame[Label].edit = held.edit =>
             MadeOf(frame[Label].column, rows, Field(held, TRUE).ordered, record.zeroCopy)
        /\ Pushed(rows, TRUE, Field(held, TRUE).ordered, shared, record)
             \in Conversion!Deliverable(Label)
  <2>1. PICK record \in Record :
          /\ record.column = Label
          /\ records' = [records EXCEPT ![n] = record]
          /\ Agrees(record)
          /\ batches <= 1 => record.zeroCopy = NewestRecord.zeroCopy
          /\ IF batches > 1 THEN ~record.zeroCopy /\ record.reason = "chunked"
             ELSE record = NewestRecord
    BY <1>7
  <2>2. record.zeroCopy \in BOOLEAN
    BY DEF Record
  <2>3. frame[Label].edit = series.edit =>
          MadeOf(c, ImportedRows(c), Field(frame[Label], TRUE).ordered, record.zeroCopy)
    BY <1>8, <2>1, <2>2
  <2>4. PushArray(frame[Label], ImportedRows(c), batches, shared, TRUE)
    BY <1>2
  <2>5. series.edit = frame[Label].edit /\ frame[Label].edit = frame[Label].edit =>
          MadeOf(frame[Label].column, ImportedRows(c), Field(frame[Label], TRUE).ordered,
                 record.zeroCopy)
    BY <2>3
  <2>6. Pushed(ImportedRows(c), TRUE, Field(frame[Label], TRUE).ordered, shared, record)
          \in Conversion!Deliverable(Label)
    BY <1>9, <2>1
  <2> QED
    BY <1>1, <1>3, <1>4, <1>6, <2>1, <2>4, <2>5, <2>6, Zenon
<1> QED
  BY <1>1, <1>4, <1>10, PushKeepsInvariant

LEMMA AssembleKeepsInvariant == IInv /\ AssembleBatch => IInv'
<1> SUFFICES ASSUME IInv, AssembleBatch PROVE IInv'
  OBVIOUS
<1> USE LabelsFacts
<1>1. /\ pc = "plan" /\ pc' = "check" /\ Current \notin DOMAIN Labels
      /\ UNCHANGED <<frame, seen, strict, series, records, fields, arrays, result, edits>>
  BY DEF AssembleBatch, AllConverted
<1>2. Len(arrays) = Len(Labels)
  BY <1>1 DEF IInv, TypeOK, Aligned, Current
<1>3. TypeOK' /\ Aligned' /\ RecordAhead' /\ EditsOrdered' /\ StreamsWhole' /\ RecordsAgree'
  BY <1>1 DEF IInv, TypeOK, Aligned, RecordAhead, EditsOrdered, StreamsWhole, Converting, RecordsAgree,
       RecordAgrees
<1>4. PlanInHand'
  BY <1>1 DEF PlanInHand, Converting
<1>5. AllConvertedFirst'
  BY <1>1, <1>2 DEF AssembleBatch, IInv, TypeOK, AllConvertedFirst, Answered, Rectangular
<1>6. SourcesKept'
  BY <1>1, SourcesStay DEF IInv
<1>7. ColumnsSeen'
  BY <1>1, ColumnsStaySeen DEF IInv, Converting
<1> QED
  BY <1>3, <1>4, <1>5, <1>6, <1>7 DEF IInv

(* A new edit number is greater than any the call has seen, so it cannot   *)
(* make a replaced column look like the one that was planned.              *)
LEMMA EditKeepsInvariant == IInv /\ Edit => IInv'
<1> SUFFICES ASSUME IInv, Edit PROVE IInv'
  OBVIOUS
<1> USE LabelsFacts
<1>1. /\ pc # "done" /\ edits < MaxEdits /\ edits' = edits + 1
      /\ UNCHANGED <<strict, pc, series, records, fields, arrays, result>>
  BY DEF Edit
<1>2. PICK f \in Frames :
        frame' = [l \in DOMAIN frame |->
                    IF f[l] = frame[l].column THEN frame[l]
                    ELSE [column |-> f[l], edit |-> edits + 1]]
  BY DEF Edit
<1>3. /\ frame \in [Range(Labels) -> Held] /\ edits \in Nat /\ MaxEdits \in Nat
      /\ \A l \in DOMAIN frame : frame[l].edit <= edits
  BY EditsAssumption DEF IInv, TypeOK, EditsOrdered
<1>4. \A l \in Range(Labels) : f[l] \in Column \cup {Gone}
  BY <1>2, FramesAssumption
<1>5. frame' \in [Range(Labels) -> Held]
  BY <1>2, <1>3, <1>4 DEF Held
<1>6. /\ seen' \in [Range(Labels) -> SUBSET (Column \cup {Gone})]
       /\ \A l \in Range(Labels) :
            seen[l] \subseteq seen'[l] /\ frame'[l].column \in seen'[l]
  <2>1. seen' = [l \in DOMAIN seen |-> seen[l] \cup {frame'[l].column}]
    BY DEF Edit
  <2>2. DOMAIN seen = Range(Labels) /\ \A l \in DOMAIN seen : seen[l] \subseteq Column \cup {Gone}
    BY DEF IInv, TypeOK
  <2>3. \A l \in Range(Labels) : frame'[l].column \in Column \cup {Gone}
    BY <1>5 DEF Held
  <2> QED
    BY <2>1, <2>2, <2>3
<1>7. TypeOK'
  BY <1>1, <1>3, <1>5, <1>6 DEF IInv, TypeOK
<1>8. ColumnsSeen'
  <2>1. \A k \in DOMAIN arrays : DeliveredAt(k)' = DeliveredAt(k) /\ Labels[k] \in Range(Labels)
    BY <1>1 DEF DeliveredAt, IInv, TypeOK, Aligned
  <2>2. \A k \in DOMAIN arrays : DeliveredAt(k)' \in Conversion!Deliverable(Labels[k])'
    BY <1>6, <2>1, DeliverableGrows DEF IInv, ColumnsSeen
  <2>3. Converting => Label \in Range(Labels) /\ series.column \in seen[Label]
    BY DEF IInv, PlanInHand, ColumnsSeen, Label
  <2>4. Label' = Label /\ Converting' = Converting
    BY <1>1 DEF Label, Current, Converting
  <2> QED
    BY <1>1, <1>5, <1>6, <2>2, <2>3, <2>4 DEF ColumnsSeen
<1>9. EditsOrdered'
  <2>1. \A l \in DOMAIN frame' : frame'[l].edit <= edits + 1
    BY <1>2, <1>3 DEF Held
  <2>2. /\ series.edit \in Nat /\ series.edit <= edits
        /\ \A k \in DOMAIN arrays :
             /\ arrays[k].planned \in Nat /\ arrays[k].planned <= edits
             /\ arrays[k].edit \in Nat /\ arrays[k].edit <= edits
    BY EditNumbers DEF IInv, EditsOrdered
  <2> QED
    BY <1>1, <1>3, <2>1, <2>2 DEF EditsOrdered
<1>10. StreamsWhole'
  <2>1. \A l \in Range(Labels) : f[l] # Gone => SumFunction(f[l].chunks) = f[l].rows
    BY <1>2, FramesAssumption
  <2> QED
    BY <1>2, <1>3, <2>1 DEF IInv, StreamsWhole
<1>11. PlanInHand'
  <2>1. SUFFICES ASSUME Converting
                 PROVE  frame'[Label].edit = series.edit => frame'[Label] = series
    BY <1>1 DEF IInv, PlanInHand, Converting, Current, Label, NewestRecord
  <2>2. Label \in DOMAIN frame /\ series.edit \in Nat /\ series.edit <= edits
    BY <1>3, <2>1 DEF IInv, TypeOK, PlanInHand, Label, EditsOrdered, Held
  <2> QED
    BY <1>2, <1>3, <2>1, <2>2 DEF IInv, PlanInHand
<1>12. Aligned' /\ RecordAhead' /\ RecordsAgree'
  BY <1>1 DEF IInv, Aligned, RecordAhead, Converting, RecordsAgree, RecordAgrees
<1>13. AllConvertedFirst'
  BY <1>1 DEF IInv, TypeOK, AllConvertedFirst, Answered, Rectangular, FirstCopied
<1>14. SourcesKept'
  <2>1. ASSUME NEW k \in DOMAIN arrays, frame'[Labels[k]].edit = arrays[k].edit
        PROVE  frame'[Labels[k]] = frame[Labels[k]]
    <3>1. arrays[k].edit \in Nat /\ arrays[k].edit <= edits /\ Labels[k] \in DOMAIN frame
      <4>1. k \in DOMAIN Labels
        BY DEF IInv, TypeOK, Aligned
      <4> QED
        BY <1>3, <4>1, EditNumbers DEF IInv, EditsOrdered
    <3> QED
      BY <1>2, <1>3, <2>1, <3>1
  <2>2. \A k \in DOMAIN arrays : arrays[k].label = Labels[k]
    BY DEF IInv, Aligned
  <2> QED
    BY <1>1, <2>1, <2>2 DEF IInv, SourcesKept, Untouched, AsPlanned, MadeOf, ValidatedObject,
         Borrowable
<1> QED
  BY <1>7, <1>9, <1>11, <1>12, <1>10, <1>14, <1>13, <1>8 DEF IInv

LEMMA StutterKeepsInvariant == IInv /\ UNCHANGED vars => IInv'
<1> SUFFICES ASSUME IInv, UNCHANGED vars PROVE IInv'
  OBVIOUS
<1>1. ColumnsSeen'
  BY ColumnsStaySeen DEF vars, IInv, ColumnsSeen, Converting
<1> QED
  BY <1>1 DEF vars, IInv, TypeOK, Aligned, RecordAhead, EditsOrdered, StreamsWhole, PlanInHand,
       Converting, Current, Label, NewestRecord, RecordsAgree, RecordAgrees, AllConvertedFirst,
       Answered, ValidatedObject, SourcesKept, Untouched, AsPlanned, MadeOf, Borrowable, FirstCopied,
       Rectangular

LEMMA StepInvariant == IInv /\ [Next]_vars => IInv'
<1> SUFFICES ASSUME IInv, [Next]_vars PROVE IInv'
  OBVIOUS
<1>1. CASE RejectColumn
  BY <1>1, ReturnKeepsInvariant DEF RejectColumn, Status
<1>2. CASE RejectObject
  BY <1>2, ReturnKeepsInvariant DEF RejectObject, Status
<1>3. CASE BorrowFails
  BY <1>3, ReturnKeepsInvariant DEF BorrowFails, Status
<1>4. CASE ImportFails
  BY <1>4, ReturnKeepsInvariant DEF ImportFails, Status
<1>5. CASE AssembleFails
  BY <1>5, ReturnKeepsInvariant DEF AssembleFails, AllConverted, Status
<1>6. CASE CheckStrict
  BY <1>6, ReturnKeepsInvariant DEF CheckStrict, Status
<1>7. CASE ReturnTable
  BY <1>7, ReturnKeepsInvariant DEF ReturnTable, Status
<1> QED
  BY <1>1, <1>2, <1>3, <1>4, <1>5, <1>6, <1>7, PlanKeepsInvariant, ValidateKeepsInvariant,
     BorrowKeepsInvariant, ImportKeepsInvariant, AssembleKeepsInvariant,
     EditKeepsInvariant, StutterKeepsInvariant
  DEF Next, Convert, Returned

-----------------------------------------------------------------------------
(***************************************************************************)
(* The theorems.                                                           *)
(***************************************************************************)

(* The invariant holds whatever the frame is and however often another     *)
(* thread changes it during the call.                                      *)
THEOREM Invariance == Spec => []IInv
BY InitInvariant, StepInvariant, PTL DEF Spec

(* Type correctness: fields, arrays and records stay well formed.          *)
THEOREM TypeCorrect == Spec => []TypeOK
<1>1. IInv => TypeOK
  BY DEF IInv
<1> QED
  BY <1>1, Invariance, PTL

(* T-01-05: a column reported as zero-copy does share the buffer it was    *)
(* imported from, unless it was replaced between its plan and its import.  *)
THEOREM ReportIsHonest == Spec => []ReportsTheOutcome
<1>1. IInv => ReportsTheOutcome
  BY DEF IInv, RecordsAgree, RecordAgrees, ReportsTheOutcome, AsPlanned
<1> QED
  BY <1>1, Invariance, PTL

(* D-13: concatenated columns, and only they, are reported as chunked, at  *)
(* their own place in the report.                                          *)
THEOREM ChunksAreReported == Spec => []ChunkedColumnsReported
<1>1. IInv => ChunkedColumnsReported
  BY DEF IInv, RecordsAgree, RecordAgrees, ChunkedColumnsReported
<1> QED
  BY <1>1, Invariance, PTL

(* D-03: strict mode returns a table only if every column that was not     *)
(* replaced between its plan and its import shares the memory it is from.  *)
THEOREM StrictIsZeroCopy == Spec => []StrictSharesAsPlanned
<1>1. IInv => StrictSharesAsPlanned
  <2> SUFFICES ASSUME IInv, Answered, strict, NEW k \in DOMAIN arrays, AsPlanned(k)
               PROVE  arrays[k].shared
    BY DEF StrictSharesAsPlanned
  <2>1. k \in DOMAIN records /\ records[k].zeroCopy
    BY DEF IInv, TypeOK, AllConvertedFirst, Answered
  <2> QED
    BY <2>1 DEF IInv, RecordsAgree, RecordAgrees, AsPlanned
<1> QED
  BY <1>1, Invariance, PTL

(* D-03: the column the exception names is the first that needed a copy,   *)
(* and every column before it was shared.                                  *)
THEOREM BlameIsDeserved == Spec => []StrictBlamesACopy
<1>1. IInv => StrictBlamesACopy
  <2> DEFINE b == result.column
  <2> SUFFICES ASSUME IInv, result.status = "strict"
               PROVE  /\ Len(arrays) = Len(Labels)
                      /\ \A j \in 1 .. b - 1 : AsPlanned(j) => arrays[j].shared
                      /\ Untouched(b) => ~Borrowable(frame[Labels[b]].column)
    BY DEF StrictBlamesACopy
  <2>1. Len(arrays) = Len(Labels) /\ Len(records) = Len(arrays) /\ FirstCopied(b)
    BY DEF IInv, AllConvertedFirst
  <2>2. DOMAIN records = DOMAIN arrays /\ DOMAIN arrays = 1 .. Len(arrays) /\ b \in DOMAIN arrays
    BY <2>1 DEF IInv, TypeOK, FirstCopied
  <2>3. \A j \in 1 .. b - 1 : j \in DOMAIN arrays /\ records[j].zeroCopy
    BY <2>1, <2>2 DEF FirstCopied, IInv, TypeOK
  <2>4. \A j \in 1 .. b - 1 : AsPlanned(j) => arrays[j].shared
    BY <2>3 DEF IInv, RecordsAgree, RecordAgrees, AsPlanned
  <2>5. Untouched(b) => ~Borrowable(frame[Labels[b]].column)
    BY <2>1, <2>2 DEF IInv, SourcesKept, MadeOf, FirstCopied
  <2> QED
    BY <2>1, <2>4, <2>5
<1> QED
  BY <1>1, Invariance, PTL

(* CR-01 and D-17: every column of a returned table that nobody replaced   *)
(* has all its rows, whatever batches its stream came in, and its order    *)
(* flag.                                                                   *)
THEOREM NoRowIsTruncated == Spec => []ColumnsArriveWhole
<1>1. IInv => ColumnsArriveWhole
  BY DEF IInv, AllConvertedFirst, Answered, SourcesKept, MadeOf, ColumnsArriveWhole
<1> QED
  BY <1>1, Invariance, PTL

(* D-11: no object column reaches the table but one whose every value was  *)
(* looked at.                                                              *)
THEOREM ObjectsAreValidated == Spec => []ObjectColumnsValidated
<1>1. IInv => ObjectColumnsValidated
  BY DEF IInv, SourcesKept, MadeOf, ValidatedObject, ObjectColumnsValidated
<1> QED
  BY <1>1, Invariance, PTL
-----------------------------------------------------------------------------
(***************************************************************************)
(* The refinement of FrameConversion.                                      *)
(***************************************************************************)

LEMMA InitConverts == Init => Conversion!ConversionInit
<1> SUFFICES ASSUME Init PROVE Conversion!ConversionInit
  OBVIOUS
<1>1. PICK f \in Frames : frame = [l \in DOMAIN f |-> [column |-> f[l], edit |-> 0]]
  BY DEF Init
<1>2. seen = [l \in DOMAIN f |-> {f[l]}]
  BY <1>1 DEF Init
<1>3. Answer = Conversion!Unanswered
  BY DEF Init, Answer, Answered, Pending, Conversion!Unanswered
<1> QED
  BY <1>2, <1>3 DEF Init, Conversion!ConversionInit

(* Nothing is answered while the call is running.                          *)
LEMMA NothingAnswered ==
  ASSUME IInv, pc # "done"
  PROVE  Answer = Conversion!Unanswered
BY DEF IInv, AllConvertedFirst, Pending, Answer, Answered, Conversion!Unanswered

(* The step of a failure at the column being converted.                    *)
LEMMA FailureAtColumn ==
  ASSUME IInv, pc # "done", Current \in DOMAIN Labels,
         UNCHANGED <<seen, strict>>,
         NEW status \in {"unsupported", "other", "import"},
         Return(Outcome(status, Current)),
         status \in Conversion!Failures(Label)
  PROVE  Conversion!FailToConvert
<1>1. Answer = Conversion!Unanswered
  BY NothingAnswered
<1>2. Answer' = Conversion!Failure(status, Current)
  BY DEF Return, Outcome, Answer, Answered, Conversion!Failure
<1>3. \A j \in 1 .. Current - 1 : Conversion!Deliverable(Labels[j]) # {}
  <2>1. 1 .. Current - 1 = DOMAIN arrays
    BY DEF IInv, TypeOK, Current
  <2>2. \A j \in DOMAIN arrays : DeliveredAt(j) \in Conversion!Deliverable(Labels[j])
    BY DEF IInv, ColumnsSeen
  <2> QED
    BY <2>1, <2>2
<1> QED
  BY <1>1, <1>2, <1>3 DEF Label, Conversion!FailToConvert

(* What has been built, once every column is converted.                    *)
LEMMA BuiltTable ==
  ASSUME IInv, Len(arrays) = Len(Labels)
  PROVE  /\ [k \in DOMAIN arrays |-> DeliveredAt(k)] \in Conversion!Tables
         /\ DOMAIN arrays = DOMAIN Labels
         /\ (Rectangular <=> Conversion!Rectangular([k \in DOMAIN arrays |-> DeliveredAt(k)]))
<1> DEFINE t == [k \in DOMAIN arrays |-> DeliveredAt(k)]
<1>1. DOMAIN arrays = DOMAIN Labels /\ (arrays = <<>> <=> Labels = <<>>)
  BY LabelsFacts DEF IInv, TypeOK
<1>2. \A k \in DOMAIN Labels :
        t[k] \in Conversion!Deliverable(Labels[k]) /\ t[k].rows = arrays[k].rows
        /\ Labels[k] \in Range(Labels)
  BY <1>1, LabelsFacts DEF IInv, ColumnsSeen, DeliveredAt
<1>3. t \in [DOMAIN Labels -> UNION {Conversion!Deliverable(l) : l \in Range(Labels)}]
  BY <1>1, <1>2
<1>4. t \in Conversion!Tables
  <2> HIDE DEF t
  <2> QED
    BY <1>2, <1>3 DEF Conversion!Tables, Conversion!Range, Range
<1>5. Rectangular <=> Conversion!Rectangular(t)
  BY <1>1, <1>2 DEF Rectangular, Conversion!Rectangular
<1> QED
  BY <1>1, <1>4, <1>5

LEMMA StepConverts ==
  ASSUME IInv, [Next]_vars
  PROVE  [Conversion!ConversionNext]_<<seen, strict, Answer>>
<1> DEFINE Step == [Conversion!ConversionNext]_<<seen, strict, Answer>>
<1>1. ASSUME UNCHANGED <<seen, strict, result>>, ~Answered
      PROVE  Step
  BY <1>1 DEF Answer, Answered
<1>2. ~Answered \/ pc = "done"
  BY DEF IInv, TypeOK, Answered
<1>3. CASE PlanColumn \/ ValidateObject \/ BorrowBuffer \/ ImportStream \/ AssembleBatch
  <2>1. pc # "done" /\ UNCHANGED <<seen, strict, result>>
    BY <1>3 DEF PlanColumn, ValidateObject, BorrowBuffer, ImportStream, AssembleBatch,
         AllConverted
  <2> QED
    BY <1>1, <1>2, <2>1
<1>4. CASE RejectColumn
  <2> DEFINE p == frame[Label].column
  <2>1. /\ pc = "plan" /\ Current \in DOMAIN Labels
        /\ Return(Outcome("unsupported", Current))
        /\ UNCHANGED <<seen, strict>>
        /\ p # Gone => ~Supported(p)
    BY <1>4 DEF RejectColumn
  <2>2. p \in seen[Label] /\ p \in Column \cup {Gone}
    BY <2>1, LabelsFacts DEF IInv, TypeOK, ColumnsSeen, Label, Held
  <2>3. Conversion!Unsupported(p)
    BY <2>1, <2>2 DEF Supported, Column, DtypeClass, DtypeKind, Temporal, Conversion!Temporal,
         Conversion!Unsupported
  <2>4. "unsupported" \in Conversion!Failures(Label)
    BY <2>2, <2>3 DEF Conversion!Failures
  <2> QED
    BY <2>1, <2>4, FailureAtColumn DEF Conversion!ConversionNext
<1>5. CASE RejectObject
  <2> DEFINE p == series.column
  <2>1. /\ pc = "validate" /\ ~p.onlyStr
        /\ Return(Outcome("unsupported", Current))
        /\ UNCHANGED <<seen, strict>>
    BY <1>5 DEF RejectObject
  <2>2. p \in seen[Label] /\ Current \in DOMAIN Labels
    BY <2>1 DEF IInv, ColumnsSeen, PlanInHand, Converting
  <2>3. p.class = "numpy" /\ p.kind = "O"
    BY <2>1 DEF IInv, PlanInHand, Converting
  <2>4. "unsupported" \in Conversion!Failures(Label)
    BY <2>1, <2>2, <2>3 DEF Conversion!Failures, Conversion!Unsupported
  <2> QED
    BY <2>1, <2>2, <2>4, FailureAtColumn DEF Conversion!ConversionNext
<1>6. CASE BorrowFails \/ ImportFails
  <2> DEFINE p == series.column
             status == IF MustBorrow THEN "other" ELSE "import"
  <2>1. /\ pc = "obtain"
        /\ Return(Outcome(status, Current))
        /\ UNCHANGED <<seen, strict>>
        /\ MustBorrow => p.kind # "iuf"
    BY <1>6 DEF BorrowFails, ImportFails
  <2>2. p \in seen[Label] /\ Current \in DOMAIN Labels /\ p \in Column /\ Supported(p)
        /\ ValidatedObject(p) /\ NewestRecord = FromPlan(Label, Planned(p))
    BY <2>1, RecordInHand DEF IInv, ColumnsSeen, PlanInHand, Converting
  <2>3. MustBorrow <=> BorrowsBuffer(p, Planned(p))
    <3>1. NewestRecord.zeroCopy = Planned(p)
      BY <2>2, Zenon DEF FromPlan
    <3> QED
      BY <3>1 DEF MustBorrow, NewestRecord
  <2>4. status \in Conversion!Failures(Label)
    <3>1. CASE MustBorrow
      <4>1. ~Conversion!Unsupported(p) /\ Conversion!NotBuilt(p)
        BY <2>1, <2>2, <2>3, <3>1, ColumnPlan
      <4> QED
        BY <2>2, <3>1, <4>1 DEF Conversion!Failures
    <3>2. CASE ~MustBorrow
      <4>1. ~Conversion!Unsupported(p) /\ ~Conversion!NotBuilt(p) /\ ~Conversion!FromSeries(p)
        BY <2>2, <2>3, <3>2, ColumnPlan
      <4> QED
        BY <2>2, <3>2, <4>1 DEF Conversion!Failures
    <3> QED
      BY <3>1, <3>2
  <2> QED
    BY <2>1, <2>2, <2>4, FailureAtColumn DEF Conversion!ConversionNext
<1> DEFINE t == [k \in DOMAIN arrays |-> DeliveredAt(k)]
<1>7. CASE AssembleFails
  <2>1. /\ pc = "plan" /\ Current \notin DOMAIN Labels /\ ~Rectangular
        /\ Return(Outcome("arrow", 0))
        /\ UNCHANGED <<seen, strict>>
    BY <1>7 DEF AssembleFails, AllConverted
  <2>2. Len(arrays) = Len(Labels)
    BY <2>1, LabelsFacts DEF IInv, TypeOK, Aligned, Current
  <2>3. t \in Conversion!Tables /\ ~Conversion!Rectangular(t)
    BY <2>1, <2>2, BuiltTable
  <2>4. Answer = Conversion!Unanswered
    BY <2>1, NothingAnswered
  <2>5. Answer' = Conversion!Failure("arrow", 0)
    BY <2>1 DEF Return, Outcome, Answer, Answered, Conversion!Failure
  <2> QED
    BY <2>1, <2>3, <2>4, <2>5 DEF Conversion!FailToAssemble, Conversion!ConversionNext
<1>8. ASSUME pc = "check"
      PROVE  /\ t \in Conversion!Tables
             /\ Conversion!Rectangular(t)
             /\ Answer = Conversion!Unanswered
             /\ DOMAIN records = DOMAIN Labels /\ DOMAIN arrays = DOMAIN Labels
             /\ \A k \in DOMAIN Labels : t[k].zeroCopy = records[k].zeroCopy
  <2>1. Len(arrays) = Len(Labels) /\ Rectangular /\ Len(records) = Len(arrays)
    BY <1>8 DEF IInv, TypeOK, AllConvertedFirst, RecordAhead, Converting
  <2>2. DOMAIN records = DOMAIN Labels /\ DOMAIN arrays = DOMAIN Labels
    BY <2>1, LabelsFacts DEF IInv, TypeOK
  <2>3. \A k \in DOMAIN Labels : t[k].zeroCopy = records[k].zeroCopy
    BY <2>2 DEF DeliveredAt
  <2> QED
    BY <1>8, <2>1, <2>2, <2>3, BuiltTable, NothingAnswered
<1>9. CASE CheckStrict
  <2>1. PICK k \in DOMAIN records : FirstCopied(k) /\ Return(Outcome("strict", k))
    BY <1>9 DEF CheckStrict
  <2>2. pc = "check" /\ strict /\ UNCHANGED <<seen, strict>>
    BY <1>9 DEF CheckStrict
  <2>3. Answer' = Conversion!Failure("strict", k)
    BY <2>1 DEF Return, Outcome, Answer, Answered, Conversion!Failure
  <2>4. k \in DOMAIN Labels /\ ~t[k].zeroCopy /\ \A j \in 1 .. k - 1 : t[j].zeroCopy
    <3>1. k \in DOMAIN Labels /\ \A j \in 1 .. k - 1 : j \in DOMAIN Labels
      BY <1>8, <2>2, LabelsFacts
    <3> HIDE DEF t
    <3> QED
      BY <1>8, <2>1, <2>2, <3>1 DEF FirstCopied
  <2> QED
    BY <1>8, <2>2, <2>3, <2>4 DEF Conversion!RefuseCopies, Conversion!ConversionNext
<1>10. CASE ReturnTable
  <2>1. /\ pc = "check" /\ Return(Outcome("table", 0))
        /\ strict => \A k \in DOMAIN records : records[k].zeroCopy
        /\ UNCHANGED <<seen, strict, records, fields, arrays>>
    BY <1>10 DEF ReturnTable
  <2>2. Answer' = Conversion!Table(t)
    BY <2>1 DEF Return, Outcome, Answer, Answered, DeliveredAt, Conversion!Table
  <2>3. strict => \A k \in DOMAIN Labels : t[k].zeroCopy
    BY <1>8, <2>1
  <2>4. (Answer').table = t
    BY <2>2 DEF Conversion!Table
  <2> QED
    BY <1>8, <2>1, <2>2, <2>3, <2>4 DEF Conversion!AnswerTable, Conversion!ConversionNext
<1>11. CASE Edit
  <2>1. /\ UNCHANGED <<strict, result, arrays, fields, records>>
        /\ seen' = [l \in DOMAIN seen |-> seen[l] \cup {frame'[l].column}]
    BY <1>11 DEF Edit
  <2>2. Answer' = Answer
    BY <2>1 DEF Answer, Answered, DeliveredAt
  <2>3. \A l \in DOMAIN seen : seen[l] \subseteq seen'[l]
    BY <2>1
  <2> QED
    BY <2>1, <2>2, <2>3 DEF Conversion!ChangeFrame, Conversion!ConversionNext
<1>12. CASE UNCHANGED vars
  BY <1>12 DEF vars, Answer, Answered, DeliveredAt
<1> QED
  BY <1>3, <1>4, <1>5, <1>6, <1>7, <1>9, <1>10, <1>11, <1>12 DEF Next, Convert, Returned


(* D-03, D-08, D-11, D-13 and D-15: whatever other threads do to the       *)
(* DataFrame, the call answers as FrameConversion says.                    *)
THEOREM ImplementsFrameConversion == Spec => ConvertsTheFrame
<1>1. Init => Conversion!ConversionInit
  BY InitConverts
<1>2. IInv /\ [Next]_vars => [Conversion!ConversionNext]_<<seen, strict, Answer>>
  BY StepConverts
<1> QED
  BY <1>1, <1>2, Invariance, PTL DEF Spec, ConvertsTheFrame, Conversion!ConversionSpec,
     Conversion!conversionVars
=============================================================================

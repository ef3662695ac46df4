----------------------------- MODULE FromPandas -----------------------------
(***************************************************************************)
(* Table.from_pandas: one pass over the columns of a DataFrame.  For each  *)
(* column the code classifies the dtype, plans a borrow or a copy, pushes  *)
(* a conversion record, and then obtains the array: it borrows the numpy   *)
(* buffer of the Series it has in hand, or it asks the DataFrame for the   *)
(* column a second time and imports its Arrow stream.  The record is       *)
(* corrected when the stream turns out to be chunked.  The arrays become   *)
(* one RecordBatch; strict mode is decided last, from the records.         *)
(*                                                                         *)
(* Every step is a call into Python, which may let another Python thread   *)
(* run: that thread may leave the DataFrame in another state.              *)
(***************************************************************************)
EXTENDS FrameColumns

CONSTANT MaxEdits  \* Bound on the changes made by another thread.

ASSUME EditsAssumption == MaxEdits \in Nat

VARIABLES
  frame,    \* Per label: the column and the number of the edit it is from.
  strict,   \* The caller's strict flag.
  pc,       \* "plan", "validate", "obtain", "check" or "done".
  series,   \* The Series of the column being converted, as fetched.
  records,  \* ColumnConversionRecords pushed so far.
  fields,   \* Schema fields pushed so far.
  arrays,   \* Arrays pushed so far.
  result,   \* [status, column]
  edits,    \* Edits made by another thread so far.
  seen      \* History: the columns each label has had.

vars == <<frame, strict, pc, series, records, fields, arrays, result, edits, seen>>

Held == [column : Column \cup {Gone}, edit : Nat]

-----------------------------------------------------------------------------
(***************************************************************************)
(* classify_dtype and plan_column.                                         *)
(***************************************************************************)

FixedWidth == {"iuf", "half"} \cup Temporal

(* Masked extension dtypes, dtypes of no supported kind and resolutions    *)
(* other than nanoseconds are rejected.                                    *)
Supported(c) ==
  \/ c.class = "CategoricalDtype"
  \/ c.class = "DatetimeTZDtype" /\ c.ns
  \/ /\ c.class \in {"ArrowDtype", "numpy"}
     /\ c.kind # "other"
     /\ c.kind \in Temporal => c.ns

DtypeBackend(c) ==
  CASE c.class = "ArrowDtype" -> "Arrow"
    [] c.class = "CategoricalDtype" -> "Categorical"
    [] OTHER -> "Numpy"

KindOf ==
  [iuf |-> "Numeric", half |-> "Numeric", b |-> "Bool", O |-> "String",
   M |-> "Timestamp", m |-> "Duration", other |-> "none"]

ArrowKind(c) ==
  CASE c.class = "CategoricalDtype" -> "Categorical"
    [] c.class = "DatetimeTZDtype"  -> "Timestamp"
    [] OTHER -> KindOf[c.kind]

(* The contiguity from_pandas reads: of the values of a numpy-backed       *)
(* column only.                                                            *)
IsContiguous(c) == DtypeBackend(c) = "Numpy" => c.contiguous

(* Mutant: an object column planned as if its strings were Arrow memory.   *)
PlanBorrowsObjects(backend, kind, contiguous) ==
  \/ backend = "Arrow" /\ kind # "Categorical"
  \/ backend = "Numpy" /\ kind = "Numeric" /\ contiguous
  \/ backend = "Numpy" /\ kind = "String"

PlanBorrows(backend, kind, contiguous) ==
  \/ backend = "Arrow" /\ kind # "Categorical"
  \/ backend = "Numpy" /\ kind = "Numeric" /\ contiguous

Planned(c) == PlanBorrows(DtypeBackend(c), ArrowKind(c), IsContiguous(c))

(* Only a contiguous numpy numeric column is borrowed as a numpy buffer.   *)
BorrowsBuffer(c, zeroCopy) ==
  zeroCopy /\ DtypeBackend(c) = "Numpy" /\ ArrowKind(c) = "Numeric"

FromPlan(label, zeroCopy) ==
  [column |-> label, zeroCopy |-> zeroCopy,
   reason |-> IF zeroCopy THEN "none" ELSE "planned"]

-----------------------------------------------------------------------------
Pending == [status |-> "pending", column |-> 0]
Outcome(kind, k) == [status |-> kind, column |-> k]

Init ==
  /\ \E f \in Frames :
       frame = [l \in DOMAIN f |-> [column |-> f[l], edit |-> 0]]
  /\ strict \in BOOLEAN
  /\ pc = "plan"
  /\ series = [column |-> Gone, edit |-> 0]
  /\ records = <<>> /\ fields = <<>> /\ arrays = <<>>
  /\ result = Pending
  /\ edits = 0
  /\ seen = [l \in DOMAIN frame |-> {frame[l].column}]

(* The column being converted.                                             *)
Current == Len(arrays) + 1
Label == Labels[Current]

(* Mutant: the result is there and the call goes on.                       *)
ReturnAndGoOn(res) == pc' = pc /\ result' = res

Return(res) == pc' = "done" /\ result' = res

(* Fetch the Series, classify it, plan it and push its record.             *)
PlanColumn ==
  /\ pc = "plan"
  /\ Current \in DOMAIN Labels
  /\ frame[Label].column # Gone
  /\ LET c == frame[Label].column
     IN  /\ Supported(c)
         /\ records' = Append(records, FromPlan(Label, Planned(c)))
         /\ pc' = IF DtypeBackend(c) = "Numpy" /\ ArrowKind(c) = "String"
                  THEN "validate" ELSE "obtain"
  /\ series' = frame[Label]
  /\ UNCHANGED <<frame, seen, strict, fields, arrays, result, edits>>

(* Mutant: the failure names the first column.                             *)
RejectFirst ==
  /\ pc = "plan"
  /\ Current \in DOMAIN Labels
  /\ frame[Label].column # Gone => ~Supported(frame[Label].column)
  /\ Return(Outcome("unsupported", 1))
  /\ UNCHANGED <<frame, seen, strict, series, records, fields, arrays, edits>>

(* The label is gone, or classify_dtype rejects the dtype.                 *)
RejectColumn ==
  /\ pc = "plan"
  /\ Current \in DOMAIN Labels
  /\ frame[Label].column # Gone => ~Supported(frame[Label].column)
  /\ Return(Outcome("unsupported", Current))
  /\ UNCHANGED <<frame, seen, strict, series, records, fields, arrays, edits>>

(* Mutant: the validation looks at no value.                               *)
ValidateNothing ==
  /\ pc = "validate"
  /\ pc' = "obtain"
  /\ UNCHANGED <<frame, seen, strict, series, records, fields, arrays, result, edits>>

(* validate_object_column_contents on the Series in hand.                  *)
ValidateObject ==
  /\ pc = "validate"
  /\ series.column.onlyStr
  /\ pc' = "obtain"
  /\ UNCHANGED <<frame, seen, strict, series, records, fields, arrays, result, edits>>

RejectObject ==
  /\ pc = "validate"
  /\ ~series.column.onlyStr
  /\ Return(Outcome("unsupported", Current))
  /\ UNCHANGED <<frame, seen, strict, series, records, fields, arrays, edits>>

(* build_field: a dictionary array takes the is_ordered flag, which comes  *)
(* from the dtype of the Series in hand.                                   *)
Field(held, nullable) ==
  [name |-> Label, nullable |-> nullable,
   ordered |-> /\ held.column.class = "CategoricalDtype"
               /\ series.column.class = "CategoricalDtype"
               /\ series.column.ordered]

PushArray(held, rows, batches, shared, nullable) ==
  /\ arrays' = Append(arrays,
       [label |-> Label, planned |-> series.edit, edit |-> held.edit,
        rows |-> rows, batches |-> batches, shared |-> shared])
  /\ fields' = Append(fields, Field(held, nullable))
  /\ pc' = "plan"

MustBorrow == BorrowsBuffer(series.column, records[Len(records)].zeroCopy)

(* borrow_numpy_numeric_column: the array shares the Series' buffer.       *)
BorrowBuffer ==
  /\ pc = "obtain"
  /\ MustBorrow
  /\ series.column.kind = "iuf"
  /\ PushArray(series, series.column.rows, 0, TRUE, FALSE)
  /\ UNCHANGED <<frame, seen, strict, series, records, result, edits>>

(* A numeric dtype the borrow has no arm for.                              *)
BorrowFails ==
  /\ pc = "obtain"
  /\ MustBorrow
  /\ series.column.kind # "iuf"
  /\ Return(Outcome("other", Current))
  /\ UNCHANGED <<frame, seen, strict, series, records, fields, arrays, edits>>

(* Mutants: the prediction stands, or the first record is the one changed. *)
CorrectNever(batches) == records

CorrectFirst(batches) ==
  IF batches > 1
  THEN [records EXCEPT ![1].zeroCopy = FALSE, ![1].reason = "chunked"]
  ELSE records

(* The record of the column being converted, once its stream has yielded   *)
(* more than one batch.                                                    *)
Corrected(batches) ==
  IF batches > 1
  THEN [records EXCEPT ![Len(records)].zeroCopy = FALSE,
                       ![Len(records)].reason = "chunked"]
  ELSE records

(* Mutant: only the first batch is used.                                   *)
FirstBatchRows(c) == IF c.chunks = <<>> THEN 0 ELSE c.chunks[1]

(* The rows of the array: none without a batch, those of the only batch,   *)
(* or those of all batches concatenated.                                   *)
ImportedRows(c) ==
  CASE Len(c.chunks) = 0 -> 0
    [] Len(c.chunks) = 1 -> c.chunks[1]
    [] OTHER -> SumFunction(c.chunks)

(* Whether the array can share the column's memory.  A single batch of an  *)
(* Arrow-backed column is shared, several are copied; pandas may share     *)
(* numpy's fixed-width values, and has to convert everything else.         *)
MayShare(c) ==
  {shared \in BOOLEAN :
     /\ shared => /\ Len(c.chunks) <= 1
                  /\ c.class # "CategoricalDtype"
                  /\ c.class = "ArrowDtype" \/ c.kind \in FixedWidth
     /\ c.class = "ArrowDtype" /\ Len(c.chunks) <= 1 => shared}

(* import_column_via_pandas_stream asks the DataFrame for the column       *)
(* again.                                                                  *)
ImportStream ==
  /\ pc = "obtain"
  /\ ~MustBorrow
  /\ frame[Label].column # Gone
  /\ LET c == frame[Label].column
         batches == Len(c.chunks)
     IN  \E shared \in MayShare(c) :
           /\ PushArray(frame[Label], ImportedRows(c), batches, shared, TRUE)
           /\ records' = Corrected(batches)
  /\ UNCHANGED <<frame, seen, strict, series, result, edits>>

(* The column is gone, or pandas or arrow-rs cannot export it.             *)
ImportFails ==
  /\ pc = "obtain"
  /\ ~MustBorrow
  /\ Return(Outcome("import", Current))
  /\ UNCHANGED <<frame, seen, strict, series, records, fields, arrays, edits>>

(* RecordBatch::try_new refuses no columns and columns of unequal length.  *)
Rectangular ==
  /\ arrays # <<>>
  /\ \A j, k \in DOMAIN arrays : arrays[j].rows = arrays[k].rows

AllConverted == pc = "plan" /\ Current \notin DOMAIN Labels

AssembleBatch ==
  /\ AllConverted
  /\ Rectangular
  /\ pc' = "check"
  /\ UNCHANGED <<frame, seen, strict, series, records, fields, arrays, result, edits>>

AssembleFails ==
  /\ AllConverted
  /\ ~Rectangular
  /\ Return(Outcome("arrow", 0))
  /\ UNCHANGED <<frame, seen, strict, series, records, fields, arrays, edits>>

(* check_strict names the first record that is not zero-copy.              *)
FirstCopied(k) ==
  /\ k \in DOMAIN records
  /\ ~records[k].zeroCopy
  /\ \A j \in 1 .. k - 1 : records[j].zeroCopy

CheckStrict ==
  /\ pc = "check"
  /\ strict
  /\ \E k \in DOMAIN records : FirstCopied(k) /\ Return(Outcome("strict", k))
  /\ UNCHANGED <<frame, seen, strict, series, records, fields, arrays, edits>>

ReturnTable ==
  /\ pc = "check"
  /\ strict => \A k \in DOMAIN records : records[k].zeroCopy
  /\ Return(Outcome("table", 0))
  /\ UNCHANGED <<frame, seen, strict, series, records, fields, arrays, edits>>

(* Another Python thread changes the DataFrame while a call is out.        *)
Edit ==
  /\ pc # "done"
  /\ edits < MaxEdits
  /\ edits' = edits + 1
  /\ \E f \in Frames :
       frame' = [l \in DOMAIN frame |->
                   IF f[l] = frame[l].column THEN frame[l]
                   ELSE [column |-> f[l], edit |-> edits + 1]]
  /\ seen' = [l \in DOMAIN seen |-> seen[l] \cup {frame'[l].column}]
  /\ UNCHANGED <<strict, pc, series, records, fields, arrays, result>>

Returned == pc = "done" /\ UNCHANGED vars

Convert ==
  \/ PlanColumn \/ RejectColumn
  \/ ValidateObject \/ RejectObject
  \/ BorrowBuffer \/ BorrowFails
  \/ ImportStream \/ ImportFails
  \/ AssembleBatch \/ AssembleFails
  \/ CheckStrict \/ ReturnTable

Next == Convert \/ Edit \/ Returned

Spec == Init /\ [][Next]_vars

-----------------------------------------------------------------------------
(***************************************************************************)
(* Properties.                                                             *)
(***************************************************************************)

Status == {"pending", "unsupported", "other", "import", "arrow", "strict", "table"}

Record == [column : Range(Labels), zeroCopy : BOOLEAN, reason : {"none", "planned", "chunked"}]

Converted ==
  [label : Range(Labels), planned : Nat, edit : Nat, rows : Nat, batches : Nat,
   shared : BOOLEAN]

(* The type invariant of the conversion: what is pushed for a column, and  *)
(* a result exactly when the call has returned.                            *)
TypeOK ==
  /\ frame \in [Range(Labels) -> Held]
  /\ strict \in BOOLEAN
  /\ pc \in {"plan", "validate", "obtain", "check", "done"}
  /\ series \in Held
  /\ records \in Seq(Record)
  /\ fields \in Seq([name : Range(Labels), nullable : BOOLEAN, ordered : BOOLEAN])
  /\ arrays \in Seq(Converted)
  /\ result.status \in Status
  /\ result.status = "pending" <=> pc # "done"
  /\ edits \in 0 .. MaxEdits
  /\ seen \in [Range(Labels) -> SUBSET (Column \cup {Gone})]

Answered == result.status = "table"

(* The column array k was made from is the one its record was planned for. *)
AsPlanned(k) == arrays[k].edit = arrays[k].planned

(* Nobody has touched the column since.                                    *)
Untouched(k) == AsPlanned(k) /\ frame[arrays[k].label].edit = arrays[k].edit

(* T-01-05 and D-04: "copy_report() reports the real outcome".  A column   *)
(* the table reports as zero-copy shares the buffer it was imported from,  *)
(* whichever columns other threads replace meanwhile, as long as this one  *)
(* is not replaced between its plan and its import.                        *)
ReportsTheOutcome ==
  Answered =>
    \A k \in DOMAIN arrays :
      AsPlanned(k) /\ records[k].zeroCopy => arrays[k].shared

(* D-13: "correct that column's record here, in place".  A column whose    *)
(* batches were concatenated is reported as a copy, for the reason that it *)
(* was chunked, at its own place in the report, and no other column is.    *)
ChunkedColumnsReported ==
  \A k \in DOMAIN arrays :
    arrays[k].batches > 1 <=> records[k].reason = "chunked"

(* CR-01: "Silently returning only the first batch would truncate every    *)
(* row after it".  Each column of a returned table that nobody replaced    *)
(* has all the rows of the column of that label, and for a categorical the *)
(* order flag of its dtype (D-17).                                         *)
ColumnsArriveWhole ==
  Answered =>
    /\ Len(arrays) = Len(Labels)
    /\ \A k \in DOMAIN arrays :
         LET c == frame[Labels[k]].column
         IN  Untouched(k) =>
               /\ arrays[k].rows = c.rows
               /\ c.class = "CategoricalDtype" => fields[k].ordered = c.ordered

(* D-11: an object column reaches the table only if all it holds is str or *)
(* missing: pandas' own export, which would accept ints or dicts, is never *)
(* reached with the column that was planned and not validated.             *)
ObjectColumnsValidated ==
  \A k \in DOMAIN arrays :
    LET c == frame[Labels[k]].column
    IN  Untouched(k) /\ c.class = "numpy" /\ c.kind = "O" => c.onlyStr

(* D-03 as from_pandas documents it (table.rs): "a caller never receives a *)
(* copied Table under strict=True".                                        *)
StrictNeverCopied ==
  Answered /\ strict => \A k \in DOMAIN arrays : arrays[k].shared

(* D-03 as the code keeps it: under strict=True the caller receives copies *)
(* of no columns but those replaced between their plan and their import.   *)
StrictSharesAsPlanned ==
  Answered /\ strict => \A k \in DOMAIN arrays : AsPlanned(k) => arrays[k].shared

(* D-31 and WR-01 as build_field documents it: declaring every imported    *)
(* column nullable is a "safe broadening (never breaks concat_tables the   *)
(* way a wrongly-non-nullable field does)".  Then columns of one dtype     *)
(* have to be declared alike, wherever their values lie.                   *)
NullableByDtype ==
  \A j, k \in DOMAIN fields :
    LET c == frame[Labels[j]].column
        d == frame[Labels[k]].column
    IN  Untouched(j) /\ Untouched(k) /\ <<c.class, c.kind>> = <<d.class, d.kind>> =>
          fields[j].nullable = fields[k].nullable

(* Columns whose memory an Arrow array can share as it is.                 *)
Borrowable(c) ==
  \/ c.class = "ArrowDtype" /\ Len(c.chunks) <= 1
  \/ c.class = "numpy" /\ c.kind = "iuf" /\ c.contiguous

(* D-03: the exception of strict mode attributes the copy to the first     *)
(* column that needs one, and it is raised only for a frame whose every    *)
(* column converts: never in place of a conversion error.                  *)
StrictBlamesACopy ==
  result.status = "strict" =>
    /\ Len(arrays) = Len(Labels)
    /\ \A j \in 1 .. result.column - 1 : AsPlanned(j) => arrays[j].shared
    /\ Untouched(result.column) => ~Borrowable(frame[Labels[result.column]].column)

(* The inductive invariant behind the properties about records.  The three *)
(* vectors grow together, a record ahead while its column is obtained;     *)
(* an edit number tells the states of a column apart; the record in hand   *)
(* is the plan of the Series in hand; each finished record agrees with how *)
(* its array came about; and a column still there is what the array,       *)
(* field and record were made of.                                          *)
Converting == pc \in {"validate", "obtain"}

NewestRecord == records[Len(records)]

RecordAgrees(record, array) ==
  /\ array.batches > 1 <=> record.reason = "chunked"
  /\ record.zeroCopy <=> record.reason = "none"
  /\ array.edit = array.planned /\ record.zeroCopy => array.shared

Aligned ==
  /\ Len(fields) = Len(arrays)
  /\ Len(arrays) <= Len(Labels)
  /\ \A k \in DOMAIN arrays :
       /\ records[k].column = Labels[k]
       /\ arrays[k].label = Labels[k]
       /\ fields[k].name = Labels[k]

RecordAhead ==
  /\ Len(records) >= Len(arrays)
  /\ pc # "done" => Len(records) = Len(arrays) + (IF Converting THEN 1 ELSE 0)

EditsOrdered ==
  /\ \A l \in DOMAIN frame : frame[l].edit <= edits
  /\ series.edit <= edits
  /\ \A k \in DOMAIN arrays : arrays[k].planned <= edits /\ arrays[k].edit <= edits

(* The stream of every column yields all its rows, whatever the edits.     *)
StreamsWhole ==
  \A l \in DOMAIN frame :
    LET c == frame[l].column
    IN  c # Gone => SumFunction(c.chunks) = c.rows

ValidatedObject(c) == c.class = "numpy" /\ c.kind = "O" => c.onlyStr

PlanInHand ==
  Converting =>
    /\ Current \in DOMAIN Labels
    /\ frame[Label].edit = series.edit => frame[Label] = series
    /\ series.column # Gone /\ Supported(series.column)
    /\ NewestRecord = FromPlan(Label, Planned(series.column))
    /\ pc = "obtain" => ValidatedObject(series.column)
    /\ pc = "validate" => series.column.class = "numpy" /\ series.column.kind = "O"

RecordsAgree == \A k \in DOMAIN arrays : RecordAgrees(records[k], arrays[k])

(* What was made of column c: all its rows, its order flag and, unless it  *)
(* could not be borrowed, a record that says zero-copy.                    *)
MadeOf(c, rows, ordered, zeroCopy) ==
  /\ c # Gone
  /\ rows = c.rows
  /\ c.class = "CategoricalDtype" => ordered = c.ordered
  /\ ValidatedObject(c)
  /\ Borrowable(c) => zeroCopy

SourcesKept ==
  \A k \in DOMAIN arrays :
    Untouched(k) =>
      MadeOf(frame[Labels[k]].column, arrays[k].rows, fields[k].ordered, records[k].zeroCopy)

AllConvertedFirst ==
  /\ pc # "done" => result = Pending
  /\ pc = "check" => Len(arrays) = Len(Labels) /\ Rectangular
  /\ result.status \in {"strict", "table"} =>
       Len(arrays) = Len(Labels) /\ Len(records) = Len(arrays)
  /\ Answered /\ strict => \A k \in DOMAIN records : records[k].zeroCopy
  /\ result.status = "strict" => FirstCopied(result.column)

(***************************************************************************)
(* The conversion as its caller sees it: the result and, of a table, what  *)
(* its columns, their fields and the report say.                           *)
(***************************************************************************)
DeliveredAt(k) ==
  [rows     |-> arrays[k].rows,
   nullable |-> fields[k].nullable,
   ordered  |-> fields[k].ordered,
   shared   |-> arrays[k].shared,
   zeroCopy |-> records[k].zeroCopy,
   reason   |-> records[k].reason]

Answer ==
  [status |-> result.status, column |-> result.column,
   table |-> IF Answered THEN [k \in DOMAIN arrays |-> DeliveredAt(k)] ELSE <<>>]

Conversion == INSTANCE FrameConversion WITH answer <- Answer

(* D-03, D-08, D-11, D-13 and D-15 taken together: from_pandas answers   *)
(* as FrameConversion says, for the columns the DataFrame had during the   *)
(* call and, if nobody changes it, for exactly the columns it has.         *)
ConvertsTheFrame == Conversion!ConversionSpec

(* Every finished column is one that its label's history allows.           *)
ColumnsSeen ==
  /\ \A l \in DOMAIN frame : frame[l].column \in seen[l]
  /\ Converting => series.column \in seen[Label]
  /\ \A k \in DOMAIN arrays : DeliveredAt(k) \in Conversion!Deliverable(Labels[k])

IInv ==
  /\ TypeOK
  /\ Aligned
  /\ RecordAhead
  /\ EditsOrdered
  /\ StreamsWhole
  /\ PlanInHand
  /\ RecordsAgree
  /\ SourcesKept
  /\ AllConvertedFirst
  /\ ColumnsSeen
=============================================================================

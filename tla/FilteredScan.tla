---------------------------- MODULE FilteredScan ----------------------------
(***************************************************************************)
(* What reading one Parquet file with filters and a projection promises:   *)
(* one answer, either an error or all the rows that every filter accepts,  *)
(* once each, in file order, with the columns asked for in the order asked *)
(* for.  Row groups, statistics and batches do not appear.                 *)
(***************************************************************************)
EXTENDS ScalarFilter, Sequences

CONSTANTS
  Names,        \* The column names a caller may write, known or not.
  Schema,       \* The columns of the file, in declared order.
  ColType,      \* The type of each column.
  Files,        \* The file contents considered.
  FilterLists,  \* The filter lists considered.
  Projections,  \* The projections considered.
  AllColumns    \* The projection None.

VARIABLES
  file,     \* The file: n rows, cell[r][c], plus its row-group layout.
  filters,  \* A sequence of FilterExpr, AND-combined.
  columns,  \* A sequence of column names, or AllColumns.
  result    \* [status, rows, cols]

(* FilterExpr: one condition.                                              *)
FilterExpr == [column : Names, op : Op, value : ScalarValue]

ColumnNames == {Schema[i] : i \in DOMAIN Schema}

Pending == [status |-> "pending", rows |-> <<>>, cols |-> <<>>]
Err     == [status |-> "err",     rows |-> <<>>, cols |-> <<>>]

Rows == 1 .. file.n

Accepts(f, r) ==
  /\ f.column \in ColumnNames
  /\ EvaluatePredicate(ColType[f.column], f.op, f.value, file.cell[r][f.column])

Matching == {r \in Rows : \A i \in DOMAIN filters : Accepts(filters[i], r)}

(* s lists exactly the elements of S, increasing.                          *)
IsListing(s, S) ==
  /\ \A i \in DOMAIN s : s[i] \in S
  /\ \A i, j \in DOMAIN s : i < j => s[i] < s[j]
  /\ \A r \in S : \E i \in DOMAIN s : s[i] = r

Requested == IF columns = AllColumns THEN Schema ELSE columns

AllKnown ==
  /\ \A i \in DOMAIN filters : filters[i].column \in ColumnNames
  /\ \A i \in DOMAIN Requested : Requested[i] \in ColumnNames

ScanInit ==
  /\ file \in Files
  /\ filters \in FilterLists
  /\ columns \in Projections
  /\ result = Pending

ScanAnswer ==
  /\ result.status = "pending"
  /\ AllKnown
  /\ result'.status = "ok"
  /\ IsListing(result'.rows, Matching)
  /\ result'.cols = Requested
  /\ UNCHANGED <<file, filters, columns>>

ScanFail ==
  /\ result.status = "pending"
  /\ result' = Err
  /\ UNCHANGED <<file, filters, columns>>

ScanNext == ScanAnswer \/ ScanFail

scanVars == <<file, filters, columns, result>>

ScanSpec == ScanInit /\ [][ScanNext]_scanVars
=============================================================================

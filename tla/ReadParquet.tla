----------------------------- MODULE ReadParquet -----------------------------
(***************************************************************************)
(* read_parquet of pydart-core: open the file, let each filter rule out    *)
(* row groups from their statistics, install the exact row filter over the *)
(* surviving groups, collect the reader's batches, concatenate them and    *)
(* put the columns in the order the caller asked for.  Any step of the     *)
(* reader can fail, and then the whole call fails.                         *)
(*                                                                         *)
(* A row is its position in the file.  The vector of batches is the        *)
(* sequence of rows pushed so far together with the end of each batch.     *)
(***************************************************************************)
EXTENDS FilteredScan

CONSTANT BatchSize  \* Rows the reader puts in one batch.

VARIABLES
  pc,         \* "open", "prune", "read" or "done".
  current,    \* The filter surviving_row_groups looks at next.
  keep,       \* surviving_row_groups' keep vector.
  selected,   \* Rows the reader's row filter selects.
  collected,  \* Rows of the batches so far, the one being filled included.
  ends        \* Where each pushed batch ends in collected.

vars == <<file, filters, columns, result, pc, current, keep, selected,
          collected, ends>>

request == <<file, filters, columns>>

Groups == 1 .. file.groups

(* What the format promises about a file: rows are assigned to groups in   *)
(* order, cells have the type of their column, and a statistic that is     *)
(* present bounds every non-null cell of its group.                        *)
StatBounds(f, g, c) ==
  LET s == f.stat[g][c]
  IN  \A r \in 1 .. f.n :
        f.group[r] = g /\ f.cell[r][c] # Null =>
          /\ s.min # Null => s.min <= f.cell[r][c]
          /\ s.max # Null => f.cell[r][c] <= s.max

IsFile(f) ==
  /\ f.n \in Nat /\ f.groups \in Nat
  /\ f.group \in [1 .. f.n -> 1 .. f.groups]
  /\ \A q, r \in 1 .. f.n : q <= r => f.group[q] <= f.group[r]
  /\ \A r \in 1 .. f.n : \A c \in ColumnNames :
       f.cell[r][c] \in Values(ColType[c]) \cup {Null}
  /\ \A g \in 1 .. f.groups : \A c \in ColumnNames :
       /\ f.stat[g][c].min \in Values(ColType[c]) \cup {Null}
       /\ f.stat[g][c].max \in Values(ColType[c]) \cup {Null}
       /\ StatBounds(f, g, c)

ASSUME ReadAssumption ==
  /\ BatchSize \in Nat \ {0}
  /\ Schema \in Seq(Names)
  /\ \A c \in ColumnNames : ColType[c] \in ColumnType
  /\ \A f \in Files : IsFile(f)
  /\ FilterLists \subseteq Seq(FilterExpr)
  /\ Projections \subseteq Seq(Names) \cup {AllColumns}
  /\ AllColumns \notin Seq(Names)

-----------------------------------------------------------------------------
(***************************************************************************)
(* The steps of one call.                                                  *)
(***************************************************************************)

Init ==
  /\ ScanInit
  /\ pc = "open"
  /\ current = 1
  /\ keep = [g \in Groups |-> TRUE]
  /\ selected = {}
  /\ collected = <<>>
  /\ ends = <<>>

(* Mutant: the result is there and the call goes on.                       *)
ReturnAndGoOn(res) == pc' = pc /\ result' = res

Return(res) == pc' = "done" /\ result' = res

(* File::open and the footer parse.                                        *)
Open ==
  /\ pc = "open"
  /\ pc' = "prune"
  /\ UNCHANGED <<request, result, current, keep, selected, collected, ends>>

(* could_match_range for one filter and one row group.                     *)
MayMatch(f, g) ==
  LET type == ColType[f.column]
      stat == file.stat[g][f.column]
  IN  CouldMatchRange(f.op, f.value, ScalarFromArray(type, stat.min),
                      ScalarFromArray(type, stat.max))

(* Mutants: a later filter revives an excluded group; the loop never       *)
(* advances.                                                               *)
PruneByLastFilter ==
  /\ pc = "prune"
  /\ current \in DOMAIN filters
  /\ filters[current].column \in ColumnNames
  /\ keep' = [g \in Groups |-> MayMatch(filters[current], g)]
  /\ current' = current + 1
  /\ UNCHANGED <<request, result, pc, selected, collected, ends>>

PruneSameFilter ==
  /\ pc = "prune"
  /\ current \in DOMAIN filters
  /\ filters[current].column \in ColumnNames
  /\ keep' = [g \in Groups |-> keep[g] /\ MayMatch(filters[current], g)]
  /\ UNCHANGED <<request, result, pc, current, selected, collected, ends>>

(* One round of the filter loop of surviving_row_groups: a group an        *)
(* earlier filter excluded stays excluded.                                 *)
PruneByFilter ==
  /\ pc = "prune"
  /\ current \in DOMAIN filters
  /\ filters[current].column \in ColumnNames
  /\ keep' = [g \in Groups |-> keep[g] /\ MayMatch(filters[current], g)]
  /\ current' = current + 1
  /\ UNCHANGED <<request, result, pc, selected, collected, ends>>

(* StatisticsConverter::try_new refuses a column the schema lacks.         *)
PruneUnknownColumn ==
  /\ pc = "prune"
  /\ current \in DOMAIN filters
  /\ filters[current].column \notin ColumnNames
  /\ Return(Err)
  /\ UNCHANGED <<request, current, keep, selected, collected, ends>>

SurvivingRowGroups == {g \in Groups : keep[g]}

(* build_row_filter: one predicate per filter, all must accept the row.    *)
RowFilter(r) == \A i \in DOMAIN filters : Accepts(filters[i], r)

(* The reader is built over the surviving groups with the row filter.      *)
BuildReader ==
  /\ pc = "prune"
  /\ current \notin DOMAIN filters
  /\ selected' = {r \in Rows : file.group[r] \in SurvivingRowGroups /\ RowFilter(r)}
  /\ pc' = "read"
  /\ UNCHANGED <<request, result, current, keep, collected, ends>>

LastEnd == IF ends = <<>> THEN 0 ELSE ends[Len(ends)]

Filling == Len(collected) - LastEnd

LastRow == IF collected = <<>> THEN 0 ELSE collected[Len(collected)]

Remaining == {r \in selected : r > LastRow}

(* Mutant: rows in any order.                                              *)
DecodeAnyRow ==
  /\ pc = "read"
  /\ Filling < BatchSize
  /\ \E r \in Remaining : collected' = Append(collected, r)
  /\ UNCHANGED <<request, result, pc, current, keep, selected, ends>>

(* The reader decodes the next selected row into the batch it is filling.  *)
DecodeRow ==
  /\ pc = "read"
  /\ Filling < BatchSize
  /\ \E r \in Remaining :
       /\ \A q \in Remaining : r <= q
       /\ collected' = Append(collected, r)
  /\ UNCHANGED <<request, result, pc, current, keep, selected, ends>>

(* batches.push(batch?): the batch is full, or the rows are exhausted.     *)
PushBatch ==
  /\ pc = "read"
  /\ Filling > 0
  /\ Filling = BatchSize \/ Remaining = {}
  /\ ends' = Append(ends, Len(collected))
  /\ UNCHANGED <<request, result, pc, current, keep, selected, collected>>

(* No batch gives an empty batch, several are concatenated.                *)
Concat == IF ends = <<>> THEN <<>> ELSE SubSeq(collected, 1, ends[Len(ends)])

(* ProjectionMask::columns: the requested columns, as positions of Schema, *)
(* so in declared order; a name the schema lacks selects nothing.          *)
ProjectionMask ==
  {i \in DOMAIN Schema : \E k \in DOMAIN Requested : Requested[k] = Schema[i]}

IndexOf(name) == CHOOSE i \in ProjectionMask : Schema[i] = name

Found(name) == \E i \in ProjectionMask : Schema[i] = name

(* Mutant: the columns stay in declared order.                             *)
DeclaredOrder ==
  SelectSeq(Schema, LAMBDA name : \E k \in DOMAIN Requested : Requested[k] = name)

(* The requested order, or the declared one for None.                      *)
Reordered ==
  IF columns = AllColumns THEN Schema
  ELSE [k \in DOMAIN columns |-> Schema[IndexOf(columns[k])]]

Exhausted == pc = "read" /\ Filling = 0 /\ Remaining = {}

(* Concatenate, then index_of every requested column and project.          *)
Assemble ==
  /\ Exhausted
  /\ columns # AllColumns => \A k \in DOMAIN columns : Found(columns[k])
  /\ Return([status |-> "ok", rows |-> Concat, cols |-> Reordered])
  /\ UNCHANGED <<request, current, keep, selected, collected, ends>>

AssembleUnknownColumn ==
  /\ Exhausted
  /\ columns # AllColumns
  /\ \E k \in DOMAIN columns : ~Found(columns[k])
  /\ Return(Err)
  /\ UNCHANGED <<request, current, keep, selected, collected, ends>>

(* A missing or corrupt file, unreadable statistics, a predicate or decode *)
(* error: the `?` at each step abandons what was read.                     *)
ReaderFails ==
  /\ pc \in {"open", "prune", "read"}
  /\ Return(Err)
  /\ UNCHANGED <<request, current, keep, selected, collected, ends>>

Returned == pc = "done" /\ UNCHANGED vars

(* What the call does when nothing fails.                                  *)
Step ==
  \/ Open
  \/ PruneByFilter
  \/ PruneUnknownColumn
  \/ BuildReader
  \/ DecodeRow
  \/ PushBatch
  \/ Assemble
  \/ AssembleUnknownColumn

Next == Step \/ ReaderFails \/ Returned

Spec == Init /\ [][Next]_vars

FairSpec == Spec /\ WF_vars(Step)

-----------------------------------------------------------------------------
(***************************************************************************)
(* Properties.                                                             *)
(***************************************************************************)

(* The type invariant of the call: the keep vector has one slot per row    *)
(* group, only rows of the file are selected and collected, and a result   *)
(* is there exactly when the call has returned.                            *)
TypeOK ==
  /\ file \in Files /\ filters \in FilterLists /\ columns \in Projections
  /\ pc \in {"open", "prune", "read", "done"}
  /\ current \in Nat \ {0}
  /\ keep \in [Groups -> BOOLEAN]
  /\ selected \subseteq Rows
  /\ collected \in Seq(Rows)
  /\ ends \in Seq(Nat)
  /\ result.status \in {"pending", "ok", "err"}
  /\ result.status = "pending" <=> pc # "done"

(* T-03-04: "over-pruning silently drops matching rows, which D-26         *)
(* explicitly forbids".  A row group surviving_row_groups has ruled out    *)
(* holds no row that the exact row filter would have accepted.             *)
NoOverPruning == \A r \in Rows : ~keep[file.group[r]] => ~RowFilter(r)

(* The filters whose literal and column can be compared at all, by what    *)
(* they mean and not by how either side computes it.                       *)
Wanted(r) ==
  \A i \in DOMAIN filters :
    LET f == filters[i]
    IN  Comparable(ColType[f.column], f.value) =>
          Satisfies(f.op, file.cell[r][f.column], f.value)

(* D-26: "the returned Table contains ONLY matching rows", by what the     *)
(* filters mean: no row reaches the answer whose value does not compare as *)
(* asked with the literal the caller wrote.                                *)
OnlyMatchingRows ==
  result.status = "ok" =>
    \A i \in DOMAIN result.rows : Wanted(result.rows[i])

(* The other half of exact filtering: no row that compares as asked with   *)
(* the literal the caller wrote is missing from the answer, whichever row  *)
(* group it lies in and whatever that group's statistics are.              *)
NoMatchingRowLost ==
  result.status = "ok" =>
    \A r \in Rows :
      Wanted(r) => \E i \in DOMAIN result.rows : result.rows[i] = r

(* PARQ-05: pruning takes effect.  The reader is built only over row       *)
(* groups that every filter of the list may match: one that any filter     *)
(* rules out is never read, even when a later filter would have kept it.   *)
PrunedGroupsUnread ==
  pc = "read" =>
    \A g \in SurvivingRowGroups : \A k \in DOMAIN filters : MayMatch(filters[k], g)

(* PARQ-05 once more: pruning is as sharp as the statistics allow.  The    *)
(* reader is built over a row group only if, for every filter that         *)
(* compares numbers with trusted bounds, some value of the column between  *)
(* the bounds is one the row filter would accept.                          *)
HasCandidate(f, g) ==
  LET type == ColType[f.column]
      stat == file.stat[g][f.column]
  IN  \E x \in Values(type) :
        stat.min <= x /\ x <= stat.max /\ EvaluatePredicate(type, f.op, f.value, x)

Bounded(f, g) ==
  LET type == ColType[f.column]
      stat == file.stat[g][f.column]
  IN  Trusted(type, stat.min) /\ Trusted(type, stat.max) /\ stat.min <= stat.max

PruningIsSharp ==
  pc = "read" =>
    \A g \in SurvivingRowGroups : \A k \in DOMAIN filters :
      Decidable(ColType[filters[k].column], filters[k].value) /\ Bounded(filters[k], g)
        => HasCandidate(filters[k], g)

(* The inductive invariant behind the properties above.  keep is exactly   *)
(* the verdict of the filters looked at so far; once the reader is built   *)
(* it selects exactly the accepted rows of the surviving groups; the       *)
(* collected rows are the selected ones up to the last collected, in       *)
(* order; the pushed batches never reach beyond them; and an answer lists  *)
(* the selection.                                                          *)
SelectedRows == {r \in Rows : keep[file.group[r]] /\ RowFilter(r)}

AllLookedAt == current = Len(filters) + 1

IInv ==
  /\ TypeOK
  /\ \A k \in 1 .. current - 1 : k \in DOMAIN filters /\ filters[k].column \in ColumnNames
  /\ \A g \in Groups : keep[g] <=> \A k \in 1 .. current - 1 : MayMatch(filters[k], g)
  /\ pc \in {"open", "prune"} => selected = {} /\ collected = <<>> /\ ends = <<>>
  /\ selected # {} \/ pc = "read" => AllLookedAt /\ selected = SelectedRows
  /\ \A i \in DOMAIN collected : collected[i] \in selected
  /\ \A i, j \in DOMAIN collected : i < j => collected[i] < collected[j]
  /\ \A r \in selected : r <= LastRow => \E i \in DOMAIN collected : collected[i] = r
  /\ ends # <<>> => LastEnd \in 1 .. Len(collected)
  /\ result.status = "ok" => AllLookedAt /\ IsListing(result.rows, SelectedRows)

(* What the call has still to do: steps, filters, rows and an open batch.  *)
StepsLeft == CASE pc = "open" -> 3 [] pc = "prune" -> 2 [] pc = "read" -> 1 [] pc = "done" -> 0

FiltersLeft == Len(filters) + 1 - current

RowsLeft == file.n - LastRow

BatchOpen == IF Filling > 0 THEN 1 ELSE 0

Work == StepsLeft + FiltersLeft + 2 * RowsLeft + BatchOpen

(* Every step of the filter, decode and batch loops leaves less to do, so  *)
(* none of them can go round without progress: a call ends after at most   *)
(* as many steps as Work says when it starts, whatever fails on the way.   *)
WorkShrinks == [][Work' \in Nat /\ Work' < Work]_vars

(* Every filter of the call sees one number on both sides.                 *)
FiltersSameNumber ==
  \A i \in DOMAIN filters :
    filters[i].column \in ColumnNames =>
      SameNumber(ColType[filters[i].column], filters[i].value)

(* Every filter of the call asks for what its column can represent.        *)
FiltersExact ==
  \A i \in DOMAIN filters :
    filters[i].column \in ColumnNames =>
      Exact(ColType[filters[i].column], filters[i].value)

(* Every call returns, whether or not the reader ever fails: no filter,    *)
(* batch or projection loop goes on for ever, and none of them waits.      *)
Terminates == <>(pc = "done")
=============================================================================

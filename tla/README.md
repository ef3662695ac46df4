# pydart-io in TLA+

pydart moves tables between pandas, Arrow and Parquet: `Table.from_pandas`
borrows or copies each column of a DataFrame and can report which
(`copy_report`, `strict=True`), `Table.from_parquet` reads Parquet files with a
projection and AND-combined filters pushed down to row groups and rows,
`to_parquet` and `to_pandas` go the other way, and tables are exchanged with other
libraries through the Arrow PyCapsule interface. This directory models the parts of
it whose correctness rests on several steps or several pieces of code agreeing, has
TLC check them on small instances and has TLAPS prove the main results for all of
them.

    tlc -config ReadFile.cfg MCReadParquet      # any run: see "Runs"
    tlapm ReadParquetProofs.tla                 # any module *Proofs.tla

## 1. Inventory of the system

| part | source | state it keeps | operations | what makes it correct |
|---|---|---|---|---|
| filter arithmetic | `parquet_filter.rs`, `parquet_io.rs:404-517` | none | `could_match_range` on statistics, `evaluate_predicate` on rows, the conversions on both sides | the two agree: statistics never rule out a row the predicate accepts, and the predicate means what the caller wrote |
| single-file read | `parquet_io.rs:143-397` | the `keep` vector, the reader, the vector of batches | prune, build the reader, push batches, concatenate, reorder | exactly the matching rows, once, in file order; columns in the requested order; any failure fails the call |
| multi-file read | `parquet_io.rs:247-339`, `table.rs:86-154` | first schema, batches | resolve paths, compare schemas, read each, concatenate | strict schema agreement, caller's order, errors name the right file; a file rewritten under the read harms no other part of the answer |
| write | `parquet_io.rs:83-126`, `table.rs:431-470` | the target file | validate options, create, write, close | nothing is touched on a bad option; a readable file afterwards |
| from_pandas | `pandas.rs`, `pandas_plan.rs`, `diagnostics.rs`, `table.rs:230-249` | records, fields, arrays (three vectors in step) | classify, plan, validate, borrow or import, correct the record, assemble, strict check | the report says what happened; all rows arrive; strict mode never returns a copy |
| filter arguments | `table.rs:51-65,161-179,365-375`, `error.rs:93-122` | the list of parsed filters | map operator and value of each tuple, refuse the first bad one | no tuple is dropped or reread as another comparison; what the table holds is what the tuples ask for |
| table lifecycle | `table.rs`, `import.rs`, `pandas.rs:613-700` | shared buffers and their owners | borrow, export, import once, `column`, `to_pandas`, drop | a buffer outlives its users and no longer; what one object shows changes only by a write to the DataFrame's memory it shares |
| diagnostics, errors, Python surface | `diagnostics.rs`, `error.rs`, `__init__.py` | none | formatting, exception classes | the class of each error |

**Interaction.** `from_parquet` parses the filters once and hands them to
`read_parquet_multi`, which calls `read_parquet` for each path; inside it the same
`FilterExpr` list drives two decisions taken by different code in different
arithmetic: which row groups to skip and which rows to keep. `from_pandas` talks to
pandas by Python calls: it looks at a Series to plan, and for most columns asks the
DataFrame for the column *again* to import its Arrow stream. Every such call may run
another Python thread. `strict` is decided after the conversion, from the records.

**What is hard.** (1) *Numbers*: a literal is an i64, a double, a bool or a string;
a column is one of eight integer widths, two float widths and more; each side of the
filter converts differently. (2) *Loops over shared state*: several filters refine one
`keep` vector, batches accumulate, three vectors grow in step and one element is
corrected late. (3) *Staleness*: plan and import of a column see the DataFrame at two
moments; a file's schema and rows are read at two moments, its footer and pages at two more; borrowed memory can change
under the table. (4) *Lifetime*: a borrowed buffer is kept alive by reference counts in two
languages, and given up by whoever is last, on any thread. (5) *Partial failure*: every step of a read or a conversion can fail
with the ones before it done.

The full list of hazards, each at its line and with the properties that would
catch it, is in `PROJECT.json`.

## 2. Modules

| module | models | how it corresponds to the code |
|---|---|---|
| `ScalarFilter` | the filter arithmetic | one operator per function: `Compare`, `ScalarLe/Lt/Eq`, `CouldMatchRange` (`parquet_filter.rs`), `ScalarFromArray`, `OutOfRange`, `AllRowsMatch`, `EvaluatePredicate` (`parquet_io.rs`). `Cast`, `Holds`, `Truncate` and `Round` are arrow's cast and comparison kernels and IEEE rounding (external). `Satisfies` is the reference meaning of "column op literal", with no widths, casts or rounding |
| `FilteredScan` | what a single-file read promises | abstract specification: one step answers with all matching rows in file order and the requested columns, or fails |
| `ReadParquet` | `read_parquet`, `surviving_row_groups`, `build_row_filter` | `pc` is the place in the function; `current` and `keep` are the filter loop, `collected` and `ends` the vector of batches. `Open`, `PruneByFilter` / `PruneUnknownColumn`, `BuildReader`, `DecodeRow`, `PushBatch`, `Assemble` / `AssembleUnknownColumn` follow the statements; `ReaderFails` is the `?` on each of them |
| `SmallFiles`, `MCReadParquet` | instances for TLC | files of at most three rows cut into row groups in every way; literals and Python values around their bounds |
| `FilterArguments` | `parse_filter_operator`, `parse_filter_value`, `From<PydartError> for PyErr` | `OpOf`, `ParseFilterValue` with the extractions in their order, `PyErr` for the errors a read of one file ends with. `Means` and `Representable` are the reference: what a tuple asks of a row, and which tuples the read can honour to the letter |
| `CallerScan` | what `from_parquet` on one file promises its caller | abstract specification, in terms of the Python tuples: the exception of the first malformed tuple, or a table whose rows satisfy the tuples as written |
| `FromParquet` | `Table.from_parquet` on one file | `ParseTuple` / `RejectOperator` / `RejectValue` for each tuple, `StartRead`, then the steps of `ReadParquet` (`Reader == INSTANCE ReadParquet`, whose `filters` variable is the list just parsed), then `ReturnTable` or `RaiseReadError`. `Answer == INSTANCE CallerScan WITH answer <- Outcome` is the refinement |
| `MCFromParquet` | instances for TLC | Python values of each type against columns of each kind |
| `SharedBuffers` | who keeps a column's memory alive: `from_pandas` with `NumpyBufferOwner`, `__arrow_c_stream__`, `from_arrow`, `to_pandas`, `column` | `refs` is, per block of memory, what refers to it: labels of the frame, the Series in hand, owners of arrays. `FetchSeries`, `BorrowBuffer`, `ImportShared` / `ImportCopied`, `ReturnTable` and `Abandon` are `from_pandas`, one action per call into Python; `Export`, `Consume`, `FromArrow`, `ToPandas`, `ColumnOf` hand arrays on; `Drop`, `DropWithoutGil`, `ReleasePool` give them up; `WriteInPlace`, `ReplaceColumn`, `DropColumn` are the caller with the DataFrame |
| `TableViews` | what holders of Tables read | abstract specification without memory: `view` is, per object, the columns it shows with the writes seen in each and whether later ones will show; `NewTable`, `HandOn` and `LetGo` are the calls, `Write` and `Detach` the caller with the DataFrame. `Views == INSTANCE TableViews WITH writes <- Writes, view <- Shown` in `SharedBuffers` is the refinement; freed memory would read as `None` |
| `MCSharedBuffers` | instance for TLC | two columns, the first borrowed, the second of every kind |
| `FrameColumns` | what `from_pandas` looks at in a DataFrame | `Column` is a Series with its dtype, contiguity, length and Arrow stream; `Frames` are the states of a DataFrame |
| `FrameConversion` | what `from_pandas` promises while other threads change the DataFrame | abstract specification: `Deliverable` is what the columns a label has had can become, with field, sharing and report, and `Failures` how they can fail; the call answers once, with the first failing column, a ragged frame, the first copied column under strict, or a table of deliverable columns |
| `FromPandas` | `from_pandas` with `classify_dtype`, `plan_column`, `check_strict` | one action per call into Python: `PlanColumn`, `ValidateObject`, `BorrowBuffer` or `ImportStream`, `AssembleBatch`, `CheckStrict` / `ReturnTable`, and the failure of each. `Edit` is another thread changing the DataFrame between two of them; an edit number tells apart successive columns of one label, and the history `seen` collects them. `Conversion == INSTANCE FrameConversion WITH answer <- Answer` is the refinement |
| `MCFromPandas` | instances for TLC | pairs of columns, one column of each kind the code tells apart |
| `ParquetFiles` | the files of one directory, `resolve_parquet_paths`, `schema_mismatch` | `disk` is what is at each path: nothing, a directory, a file without footer, one with a footer whose pages do not decode, one with a footer over pages of several writers (`Mixed`), a whole table. `Resolvable` / `Resolutions` are the paths a request stands for, `SchemasMatch` / `FirstMismatch` the strict comparison. `Readings` is what one file gives: of a whole one `BatchOf`, the promise of `FilteredScan`; of a mixed one `Scrambled`, the columns of the footer with any rows |
| `MultiScan` | what a multi-file read promises | abstract specification, for files nobody writes: one step answers with what every file gives, in order of the paths, all of the first one's schema, or fails |
| `BusyScan` | what a multi-file read promises while others write | extends `MultiScan`: the paths are resolved once; then one step answers with one part per path under the names asked for, or with an error about one of those paths. A part is what the request leaves of a table that was whole at its path at some time, unless it is `torn`: then its rows are anything. `MayTear` says where that can be: at paths at which a file was created since the call began (`written`), or that held a mixed one |
| `ParquetStore` | `to_parquet` and `write_parquet` | `Validate` / `Refuse` the arguments, `Create` (which truncates), `WriteOver` (row groups into a file another process is writing, too), `Close` (which writes the footer), `CreateFails`, `WriteFails` (an error or the death of the process, at any point). One call per process; `openers` says which calls may still write to the file at a path, `held` is the history of whole tables and `written` that of created files |
| `MultiRead` | `from_parquet`, `read_parquet_multi`, composed with `ParquetStore` | `rpc` is the place in the function: `ResolvePaths` / `RejectPaths`, `ReadFirstSchema`, for each path `CheckSchema` / `RejectSchema` from one opening and `OpenFile`, `ReadRows` from another, then `ReturnOnly` or `Concat`, and the failure of each. Any step of a writer may come between two of them. `Decoded` is what an open file gives: if it is `Untouched` since its footer was read, `Readings`; otherwise any rows, because row groups are chosen by the statistics of that footer and pages are then fetched at its offsets from a file that a writer truncates and fills in place. `ScanSpec` (nobody writes) and `BusySpec` are the refinements |
| `MCMultiRead` | instances for TLC | tables over two columns, one for each way two schemas can differ |
| `ScalarFilterProofs`, `ReadParquetProofs`, `FromParquetProofs`, `FromPandasProofs`, `SharedBuffersProofs`, `MultiReadProofs` | theorems | see section 5 |

Operators introduced by a comment that starts with "Mutant" are plausible mistakes in
the definition that follows them. They are used by nothing in the models; substituting
one must make the property `PROJECT.json` pairs it with fail, which shows that the
property can.

**Data.** A row is its position in the file and a batch is the end position of its rows,
since properties are about which rows arrive. Numbers are integers counting units of
`1/One`, so that fractions exist: with `One = 2` the number 1.5 is 3. `F64` and `F32`
are the *sets* of representable numbers, so a column of doubles "with gaps" is a small
set with gaps, and i64 has bounds of a few units: the same wrap-around, rounding and
out-of-range cases occur as at 2^53 and 2^63. A string is its rank in the order. In
`FromPandas` a column is its dtype class and kind, contiguity, length, the lengths of
its stream's batches, and two flags. In `MultiRead` a row is a number, a filter the set
of rows it accepts, and a path its rank in the order of the listing. What a torn read returns
is any set of rows: of the columns each is decoded on its own, so that a row need not be one
of any table, nor satisfy the filter, nor come only once; no property looks into it. A Python value is
its type and a number. In `SharedBuffers` the memory of a column is one block (pandas may
consolidate several columns into one array: for lifetimes that array is the block of each),
what is in it is the number of writes to it so far, and a label keeps its dtype.

## 3. Runs

All bounds are in the MC modules and the .cfg files.

| run | question | instance |
|---|---|---|
| `ReadFile` | does the read return exactly the matching rows for every i64 literal and for two filters, are statistics beyond i64 harmless, do statistics exclude every group they can (`PruningIsSharp`), does it implement `FilteredScan`, keep its inductive invariant, come closer to its end with every step (`WorkShrinks`) and return? | a narrow integer column, its literals on both sides of its range, and an unsigned one reaching beyond i64 under pairs of filters; known, unknown, repeated, reordered and empty projections; 0 or 3 rows, nulls included, every layout, with and without statistics; batches of 2, so answers span batches |
| `ReadArguments` | does `from_parquet` implement `CallerScan`, is pruning conservative for whatever the tuples hold, is no tuple lost? | a double column with gaps, so that an int rounds, a boolean, a string and an i64 one; bools, ints within and beyond i64 and beyond the doubles, floats, NaN, decimals, strings and other objects; single tuples and pairs of which one or both are refused; two rows |
| `ConvertFrame` | does the conversion implement `FrameConversion` (`ConvertsTheFrame`), is strict mode exact, do the records match the arrays, does every row and flag arrive, are objects validated? | every pair of 16 kinds of column and pairs of empty ones; for pairs of one of 6 kinds with one of 3, another thread changes the frame up to twice (`MaxEdits`), drops a column or brings one of another length |
| `ShareBuffers` | who keeps memory alive, what is released, does all this implement `TableViews`, that is, does nothing but a write to a linked column change what an object shows? | two columns, three blocks, four owners, two objects holding arrays, one write per block |
| `ReadQuietStore` | does the multi-file read implement `MultiScan`, keep its inductive invariant and name the right file? | every content of two paths out of 16, two of them mixed; single paths, the directory and lists, with repetitions and bad elements; every projection and filter of a few |
| `ReadBusyStore` | which parts can be torn and what survives writers otherwise, does the read implement `BusyScan`, come closer to its end with every step of its own, and return? | two processes write one of three tables, or are refused or fail, on the same path or two; a list or the directory is read meanwhile, with and without a filter or projection; one file may be mixed from the start |
| `PythonLiterals`, `RoundedBounds`, `StrictRace`, `NullableByLayout`, `SchemaRace`, `BlamedFile` | disagreements, section 4 | small instances showing each |

*Why the bounds are enough.* Three rows give a group of several rows, several groups,
and more than one batch. The decisions about a row group depend on one literal and two
bounds, whose order relations (below, at, between, above, beyond the type) all occur.
Two filters are enough for one to revive what the other excluded. Two columns are
enough for a correction to hit the wrong record and for an error in the second column
after the first converted. Two edits let the column change both before its plan and
between plan and import; every edit number beyond is like the second. Two paths, of which
a list repeats one, tell apart the first file, a later one and the same one twice; two
writers overlap with each other and with the reader at every point, and the reader's
steps see at most one file at a time. Two rows (`TwoRows`) give a torn part that lacks a row,
one that has a row too many, and one that is of no table at all. Two objects that hold arrays are a Table and its
export, import, column or DataFrame, two Tables of one frame, or two exports of one Table
whose third holder has gone: `Drop` decides for each owner by the other holders, of which one
is as good as several. A block beyond those of the two columns is a copy or a replaced
column, and as blocks are never used twice the run stops where they run out, which is why
it alone does not look for deadlocks. The theorems of
section 5 remove the bounds for the properties they cover.

Only one property per module is about types alone. In `ShareBuffers`,
`ReadArguments` and the two runs of `MCMultiRead` it is a conjunct of `IInv`.

*Fairness.* Only the two `Terminates` need any. In `ReadParquet` it is weak fairness of
`Step`, the steps of `read_parquet` other than a failure; in `MultiRead` weak fairness of
`Read`, the steps of the call, failures included since the call answers by one of them where
it cannot go on. Both are successive statements of one synchronous function, so
nothing but their own guards can hold them up. Writers are never assumed to finish. `WorkShrinks`,
which needs no fairness, is the half of termination that can be proved: a step of the call
makes a natural number smaller, so that the call can stop early but not go on for ever. A
deadlock is looked for in every run but `ShareBuffers`: a call stops only by returning,
which is the stuttering action `Returned`.

## 4. Disagreements between the code and its documentation

1. `PythonLiterals`: the guard for literals beyond an integer column's range looks at `Int64`
   literals only, and a float literal goes through the cast. Beyond the range (also any
   Python int beyond i64, which is parsed as float) it becomes null and matches no row,
   where `a < 300.0` on an int8 column should match all; a fraction is truncated, so that
   `a < 1.5` loses the rows with `a = 1` and `a == 1.5` returns them.
2. `RoundedBounds`: the pruning compares in f64 what the row filter compares in the
   column's type. On a float32 column the row filter rounds the literal to float32, and
   `a == 0.1` drops the row groups holding the very rows the filter accepts; beyond 2^53
   integer statistics are rounded and rows are not, with the same effect.
3. `StrictRace`: a column replaced by another thread between its plan and the second
   fetch is copied, while strict mode returns the table and reports zero-copy.
4. `NullableByLayout`: a contiguous numpy numeric column is declared non-nullable, and a
   strided one of the same dtype, which goes through the stream, nullable. `build_field`'s
   doc calls the broadening safe because it never breaks a concatenation; between a table of
   each kind it does, and so does `from_parquet`'s strict comparison of files written from
   them.
5. `SchemaRace`: a file rewritten by another process between its schema check and its
   read, with another column name, is concatenated by position: its rows are returned
   under the first file's column name although the schemas must agree strictly.
6. `BlamedFile`: a failed concatenation, such as dictionaries of two good files that do
   not fit one key type, is reported as the first file being unreadable.

`FiltersExact` and `FiltersSameNumber` in `ReadParquet` are the conditions that exclude
1 and 2: the theorems hold under them, and the runs show that they are needed
(`Representable` says the same of the caller's tuples). 5 and 6
bound what `MultiRead` can promise: `ProjectedByName` holds under writers because every
read projects by name, `StrictAcrossFiles` only if nobody writes, and `ReadErrorIsTrue`
only for columns whose concatenation cannot overflow.

## 5. Proofs

*`ScalarFilterProofs`.* `PruningIsSound`: for any column type, operator, literal and
bounds, if the two sides compare the same number (`SameNumber`), a row the predicate
accepts is never in a range `CouldMatchRange` rules out. By cases on how the pair
compares: `TableIsSound` is the decision table for comparable numbers,
`IncomparableKeeps` the conservative readings, `IntegerPredicate` and `ExactPredicate`
say what the predicate amounts to once the range guard and the cast are resolved, and
`TrustedStatistics` that a bound is either absent or unchanged. `PruningIsTight` is the
converse: where literal and bounds compare, a range is kept only if a value between its
bounds satisfies the filter, so pruning neither loses rows nor gives up early.

*`ReadParquetProofs`.* `Invariance` proves the inductive invariant `IInv`. The
properties are not inductive: that no excluded group holds an accepted row says nothing
about how `keep` came about. `IInv` adds that `keep` is exactly the conjunction of the
verdicts of the filters looked at, that the reader selects exactly the accepted rows of
the kept groups, that what has been collected is the selection up to the last collected
row, and that batch ends stay within it. From it follow `TypeCorrect`,
`PruningTakesEffect`, `NeverOverPrunes` (with `PruningIsSound` and that the file's
statistics bound its cells), `AnswerIsExact`, `AnswerIsComplete`, and
`ImplementsFilteredScan`: `Init` maps to `ScanInit`, `Assemble` to `ScanAnswer`, each
failure to `ScanFail` and every other step to a stutter. `PrunesToTheBounds` carries
`PruningIsTight` over to the row groups that are read. `EveryStepIsProgress` proves
`WorkShrinks` with a measure made of the steps, filters and rows left and the batch not yet
pushed.

*`FromParquetProofs`.* `CallInv` is the call's `IInv` (the parsed list is a prefix of what
the tuples stand for, all of it once the read has started, until when the reader is as it
was made) together with the reader's own invariant. The reader is a second instance of
`ReadParquet` whose list grows while tuples are parsed, so its theorems do not apply as
they stand: `StartKeeps` shows that the complete list leaves the reader in an initial state
of the read, and `SameStep` that its steps from then on are those `ReadParquetProofs`
reasons about. From it follow `NoTupleIsDropped` and `ImplementsCallerScan`: `Init` maps to
`CallInit`, `RejectOperator` and `RejectValue` to `RefuseTuple`, `RaiseReadError` to
`FailToRead`, `ReturnTable` to `AnswerTable` and the rest to stutters. `HonouredMeaning` is
its core: a row the predicate accepts satisfies the tuple, if the column can represent the
tuple's value. `PruningKeepsRows` carries `NoOverPruning` over to what callers write; it is
stated, as the finding `RoundedBounds` requires, for tuples whose literals the column and
the statistics read as the same number (`TuplesReadAlike`, which holds in every state of the
run).

*`FromPandasProofs`.* `Invariance` proves its `IInv`, for any number of columns and of
edits. Its parts: the three vectors are aligned and the records one ahead while a column
is obtained; edit numbers never exceed the count, so a new one cannot be mistaken for a
planned one; the record in hand is the plan of the Series in hand; each finished record
agrees with its array, and with what the column looked like when it was planned
(`SourcesKept`). `ReportIsHonest`, `ChunksAreReported`, `StrictIsZeroCopy`,
`BlameIsDeserved`, `NoRowIsTruncated` and `ObjectsAreValidated` follow. `AllRowsImported`
is the fact about sums that an import rests on: a stream of at most one batch, or of
several that are concatenated, yields as many rows as the Series has.
`ImplementsFrameConversion` proves the refinement: failures map to `FailToConvert`,
`AssembleFails` to `FailToAssemble`, `CheckStrict` to `RefuseCopies`, `ReturnTable` to
`AnswerTable`, `Edit` to `ChangeFrame` and the rest to stutters. It needs `ColumnsSeen` in
`IInv`: the Series in hand and what every finished column was made of belong to the history
of their label, which no edit shortens (`DeliverableGrows`). `ColumnPlan` is its core: the
dtype checks, the plan matrix and the choice between borrow and import, each of them its own
piece of code, together come to the few cases that `FrameConversion` lists.

*`SharedBuffersProofs`.* `Invariance` proves an `IInv` of four parts besides the
type. `ReferentsExact`: a block is live exactly while something refers to it,
and what refers to it are the labels and the Series that have it and owners of arrays, or
owners waiting for the GIL. `OwnersSeparate`: an array's owner still refers to its block,
an owner refers to one block only, and no object shares an owner with a table under
construction. `WritesStay`: no two labels have one block, and a label has an array's block
only if the array is of that column, and never one of bools or objects. `TablesComplete`: a
table under construction has an array for every column before `next`, and the records call
numpy's numbers zero-copy and of the rest at most Arrow memory. `Exchanged` says
what an action does to the references when one referrer takes others' place, `Released`
when some only go. `BuffersOutliveArrays` and `BuffersAreReleased`
follow. `ImplementsTableViews` is the refinement: `ReturnTable` maps to `NewTable`, the four
that clone arrays to `HandOn`, the drops to `LetGo`, `DropColumn` and `ReplaceColumn` to
`Detach`, `WriteInPlace` to `Write`, and the rest to stutters, the conversion's own steps and
late releases among them. That `Write` reaches exactly the linked columns is `WritesStay`;
that no other step changes a reading is that an array's block is live before and after it.

*`MultiReadProofs`.* `Invariance` proves `IInv` for any number of paths, writers and
tables. `StoreInv` is about the writers alone: every process writing to a path is among
the path's `openers`, only calls past their checks are, they have created their file
(`written`), and a whole file is part of the history `held` of its path. `ReadInv` adds that
batch k, unless torn, is what the request leaves of a table path k has held, which no later
write can undo since history only grows; that k is torn only where `MayTear` allows it; and
that an open file at a path nobody has written is the file there, without which a read could
be torn where no writer has been. `StoreMoves` is the fact about the writers behind it: a step
of theirs changes what is at a path only where a file has been created. `QuietInv`
holds when nobody writes: paths are still the resolution of the request, the open file is
the one that was checked, and every batch is one the file at its path gives (`BatchCurrent`),
that file matching the first.
From these follow `TypeCorrect`, `PartsAreWhole`, `ProjectionIsByName`,
`RefusalsAreClean`, `WritesStay`, and, without writers, `ImplementsMultiScan`:
`ReturnOnly` and `Concat` map to `ScanAnswer`, failures to `ScanFail`, the rest to
stutters, and `ConcatPanics` cannot happen. `ImplementsBusyScan` is the refinement with any number of
writers: `ReturnOnly` and `Concat` map to `BusyAnswer`, for which the tables of the parts not
torn are those `ReadInv` says the batches come from, a `ReadRows` that is not `Certain` to
`BusyTear`, the resolution to `BusyResolve`, failures to `BusyFail` and the writers' steps to
`BusyWrite`. Nothing in it restricts what a torn read returns but its columns. `EveryStepIsProgress` proves
`WorkShrinks`: what is left depends on the paths and the place in the function only, and
no writer can add to it. `MismatchNamesFirst` and
`ReadErrorNamesTheFile` say which file an error names: the first differing column is the
least element of the positions that differ, which exists since `<` on the naturals is
well-founded (`LeastElement`).

*Assumptions* (all evaluated by TLC in the runs): `ScalarAssumption` (the special values
are not numbers, doubles are among the integers counted and rounding stays in range),
`ReadAssumption` (rows are assigned to row groups in order, cells have the column's
type, a statistic that is present bounds its group), `FramesAssumption` (a column's
stream yields all its rows), `EditsAssumption` (the bound on edits is a natural number), `FilesAssumption`, `CallsAssumption` and
`MultiReadAssumption` (finitely many paths, columns of a file named apart, requests and
contents of the shapes the modules describe),
`ArgumentAssumption` and `CallAssumption` (every number a Python object's double can be
rounds to a double; tuples are of the shape the modules describe) and `BufferAssumption`
(labels, owners, blocks and counts of writes are told apart, every column has a kind).

Nothing is assumed about what a read returns of a file that is written while it is open.

*Only model-checked*: the two `Terminates` (liveness). Every other property of a passing run
is stated by a theorem, `NoOverPruning` under the conditions given above.

## 6. Not modelled

* Rows holding NaN and the sign of zero: arrow's kernels and the writer's statistics
  treat them by different orders, both decided outside this repository.
* Timestamp and dictionary columns in filters: like strings they have no trusted
  statistics, so they take the path `ReadArguments` takes for the string column.
* `ProjectionMask::columns` matching by path prefix: names are atoms here.
* A tie in rounding goes to either neighbour, where IEEE takes the even one.
* Repeated column names in a file. A repeated label of a DataFrame makes its fetch fail,
  which `FromPandas` has as the failure of a column that is gone.
* Filter tuples of the wrong shape and unknown keyword arguments, which PyO3 refuses
  before the code runs.
* In `SharedBuffers`: tables read from files, which own all their memory; streams without
  batches; `copy_report` and `buffer_address`, which only read. Whether pandas and pyarrow
  share or copy, and when PyO3 releases what was dropped without the GIL, is their choice
  and any outcome is allowed wherever Arrow's layout is that of the column: a Categorical's
  codes, datetimes and timedeltas may share memory although reported as copied. So nothing is
  claimed of a column reported as copied but that it shows one conversion and changes, if at
  all, by writes to that column. Bools and objects have another layout in Arrow and are copied.
* In `MultiRead` the checks of a list's elements are one step, and so is the listing of
  the directory. How the rows of a torn read come about (which
  row groups the old statistics kept, which pages had been replaced) is not: any rows are
  allowed. That the parquet crate may panic on pages that are not those of the footer appears
  as a failed read. Files are not removed while they are read, and transient I/O errors
  appear as contents that cannot be decoded.
* What pandas, arrow and parquet do beyond the contracts named above; message texts;
  benchmarks, packaging and CI.

## 7. Plan

1. (done) `ScalarFilter`, `FilteredScan`, `ReadParquet`, `FromPandas` with runs and proofs.
2. (done) `ParquetFiles`, `MultiScan`, `ParquetStore` and their composition `MultiRead`
   with runs and proofs.
3. (done) `SharedBuffers`: owners of borrowed buffers, in-place writes through numpy,
   streams consumed once, `to_pandas` sharing, with run and proofs.
4. (done) `FilterArguments`, composed with `ReadParquet` in `FromParquet`, and `CallerScan`,
   with runs and the refinement proved.
5. (done) The nullability `from_pandas` declares, as `NullableByLayout`. Composing
   `FromPandas` with `ParquetStore` and `MultiRead` would repeat it at the cost of a product
   of their states, since `SchemasMatch` already compares it.
6. (done) The remaining invariants of `FromPandas`, `MultiRead` and `FromParquet` proved;
   pruning proved tight as well as sound; progress of both reads proved.
7. (done) The multi-file read under writers refined to `BusyScan`, a weaker `MultiScan` that
   says which tables an answer may mix and which of its parts may be torn; `from_pandas` refined to `FrameConversion`.
8. (done) `SharedBuffers` refined to `TableViews`, in which a column is linked to the
   DataFrame's or not and nothing counts references.
9. Open: rows holding NaN and signed zeros, once the writer's treatment of them in
   statistics is pinned down.

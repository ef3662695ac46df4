----------------------------- MODULE FromParquet -----------------------------
(***************************************************************************)
(* Table.from_parquet on one file, from the Python call to its return: the *)
(* tuples of the filters argument are parsed one by one, the first bad one *)
(* ends the call before any file is opened, and read_parquet then runs on  *)
(* the parsed list; an error becomes a Python exception.                   *)
(*                                                                         *)
(* The reader's steps are those of ReadParquet, by INSTANCE.  Paths and    *)
(* the schema openings before the read are modelled in MultiRead.          *)
(***************************************************************************)
EXTENDS FilterArguments, Sequences

CONSTANTS
  Names, Schema, ColType, Files, Projections, AllColumns, BatchSize,
  ArgLists  \* The filters arguments considered.

VARIABLES
  stage,    \* "parse", "read" or "done".
  args,     \* filters: a sequence of tuples [column, operator, value].
  next,     \* The tuple to parse.
  filters,  \* filter_exprs: the FilterExprs parsed so far.
  raised,   \* The class of the exception raised, or "none".
  file, columns, result, pc, current, keep, selected, collected, ends

reader == <<result, pc, current, keep, selected, collected, ends>>

call == <<stage, args, next, filters, raised>>

vars == <<call, file, columns, reader>>

FilterTuple == [column : Names, operator : STRING, value : PyValue]

Expr(t) ==
  [column |-> t.column, op |-> OpOf[t.operator], value |-> ParseFilterValue(t.value)]

(* What a filters argument stands for; nothing if a tuple is malformed.    *)
Exprs(s) ==
  IF \E k \in DOMAIN s : Malformed(s[k]) THEN <<>>
  ELSE [k \in DOMAIN s |-> Expr(s[k])]

FilterLists == {<<>>} \cup {Exprs(s) : s \in ArgLists}

(* read_parquet, on the list parsed.                                       *)
Reader == INSTANCE ReadParquet

ASSUME CallAssumption ==
  /\ BatchSize \in Nat \ {0}
  /\ Schema \in Seq(Names)
  /\ \A i \in DOMAIN Schema : ColType[Schema[i]] \in ColumnType
  /\ \A f \in Files : Reader!IsFile(f)
  /\ ArgLists \subseteq Seq(FilterTuple)
  /\ Projections \subseteq Seq(Names) \cup {AllColumns}
  /\ AllColumns \notin Seq(Names)

-----------------------------------------------------------------------------

Init ==
  /\ stage = "parse"
  /\ args \in ArgLists
  /\ next = 1
  /\ filters = <<>>
  /\ raised = "none"
  /\ Reader!Init

Tuple == args[next]

Raise(error) == stage' = "done" /\ raised' = PyErr[error]

(* Mutant: a tuple with an unknown operator is left out.                   *)
SkipOperator ==
  /\ stage = "parse"
  /\ next \in DOMAIN args
  /\ Tuple.operator \notin Operators
  /\ next' = next + 1
  /\ UNCHANGED <<stage, args, filters, raised, file, columns, reader>>

(* parse_filter_operator refuses the tuple.                                *)
RejectOperator ==
  /\ stage = "parse"
  /\ next \in DOMAIN args
  /\ Tuple.operator \notin Operators
  /\ Raise("UnsupportedFilterOperator")
  /\ UNCHANGED <<args, next, filters, file, columns, reader>>

(* Mutant: the value is looked at before the operator.                     *)
RejectValueFirst ==
  /\ stage = "parse"
  /\ next \in DOMAIN args
  /\ ParseFilterValue(Tuple.value) = Unsupported
  /\ Raise("Other")
  /\ UNCHANGED <<args, next, filters, file, columns, reader>>

(* parse_filter_value refuses the tuple.                                   *)
RejectValue ==
  /\ stage = "parse"
  /\ next \in DOMAIN args
  /\ Tuple.operator \in Operators
  /\ ParseFilterValue(Tuple.value) = Unsupported
  /\ Raise("Other")
  /\ UNCHANGED <<args, next, filters, file, columns, reader>>

ParseTuple ==
  /\ stage = "parse"
  /\ next \in DOMAIN args
  /\ Tuple.operator \in Operators
  /\ ParseFilterValue(Tuple.value) # Unsupported
  /\ filters' = Append(filters, Expr(Tuple))
  /\ next' = next + 1
  /\ UNCHANGED <<stage, args, raised, file, columns, reader>>

(* Every tuple is parsed: read_parquet_multi is called.                    *)
StartRead ==
  /\ stage = "parse"
  /\ next \notin DOMAIN args
  /\ stage' = "read"
  /\ UNCHANGED <<args, next, filters, raised, file, columns, reader>>

ReaderStep ==
  /\ stage = "read"
  /\ Reader!Step \/ Reader!ReaderFails
  /\ UNCHANGED call

ReturnTable ==
  /\ stage = "read"
  /\ result.status = "ok"
  /\ stage' = "done"
  /\ UNCHANGED <<args, next, filters, raised, file, columns, reader>>

RaiseReadError ==
  /\ stage = "read"
  /\ result.status = "err"
  /\ Raise("ParquetReadError")
  /\ UNCHANGED <<args, next, filters, file, columns, reader>>

Returned == stage = "done" /\ UNCHANGED vars

Next ==
  \/ RejectOperator \/ RejectValue \/ ParseTuple
  \/ StartRead \/ ReaderStep \/ ReturnTable \/ RaiseReadError
  \/ Returned

Spec == Init /\ [][Next]_vars

-----------------------------------------------------------------------------
(***************************************************************************)
(* Properties.                                                             *)
(***************************************************************************)

(* The type invariant of the call.                                         *)
TypeOK ==
  /\ stage \in {"parse", "read", "done"}
  /\ args \in ArgLists
  /\ next \in Nat \ {0}
  /\ filters \in Seq(Reader!FilterExpr)
  /\ raised \in {"none", "PydartError", "ValueError"}
  /\ raised # "none" => stage = "done"

(* T-03-05: "an unrecognized operator is never silently dropped/ignored,   *)
(* which would otherwise return too many rows".  From the opening of the   *)
(* file on, the reader's list has one condition per tuple the caller       *)
(* wrote, on its column, and no tuple was malformed.                       *)
NoTupleDropped ==
  pc # "open" \/ stage = "read" =>
    /\ Len(filters) = Len(args)
    /\ \A k \in DOMAIN args :
         ~Malformed(args[k]) /\ filters[k].column = args[k].column

(* T-03-04 from the caller's side: whatever Python values the tuples hold, *)
(* a row group ruled out by its statistics holds no row that the row       *)
(* filter built from the same tuples accepts.                              *)
NoOverPruning == Reader!NoOverPruning

(* Every tuple on a column of the file is one both sides read alike.       *)
TuplesReadAlike ==
  \A k \in DOMAIN args :
    args[k].column \in Reader!ColumnNames =>
      ReadAlike(ColType[args[k].column], args[k].value)

(* What the call promises its caller: the abstract specification, with the *)
(* answer read off the call's outcome.                                     *)
ReturnedTable == stage = "done" /\ raised = "none"

Outcome ==
  [kind  |-> IF stage # "done" THEN "pending"
             ELSE IF raised = "none" THEN "table" ELSE "raised",
   class |-> raised,
   rows  |-> IF ReturnedTable THEN result.rows ELSE <<>>,
   cols  |-> IF ReturnedTable THEN result.cols ELSE <<>>]

Answer == INSTANCE CallerScan WITH answer <- Outcome

(* D-25 and D-26 as a whole: from_parquet implements CallerScan.  A bad    *)
(* tuple, or a bad value, is answered by the exception of the first one;   *)
(* a table's rows satisfy the tuples as the caller wrote them, for every   *)
(* tuple the column can represent.                                         *)
AnswersTheCaller == Answer!CallSpec

(* The same promise for every tuple that compares like with like, a float  *)
(* on an integer column and an int beyond i64 included: no row that        *)
(* satisfies the tuples as written is missing from the table (D-26).       *)
NoMatchingRowLost ==
  result.status = "ok" =>
    \A r \in 1 .. file.n :
      (\A k \in DOMAIN args :
         LET t == args[k]
         IN  /\ Meaningful(ColType[t.column], t.value)
             /\ Means(t.operator, file.cell[r][t.column], t.value))
      => \E i \in DOMAIN result.rows : result.rows[i] = r

(* The inductive invariant: the parsed list is a prefix of what the        *)
(* argument stands for, all of it once the read has started; the reader    *)
(* is as it was made until then; and an exception is that of the first     *)
(* malformed tuple or of the failed read.                                  *)
Fresh ==
  /\ result = Reader!Pending /\ pc = "open" /\ current = 1
  /\ keep = [g \in Reader!Groups |-> TRUE]
  /\ selected = {} /\ collected = <<>> /\ ends = <<>>

Parsed == next = Len(args) + 1

Refused ==
  /\ next \in DOMAIN args
  /\ Malformed(Tuple)
  /\ raised = IF Tuple.operator \in Operators THEN "ValueError" ELSE "PydartError"
  /\ Fresh

IInv ==
  /\ TypeOK
  /\ file \in Files /\ columns \in Projections
  /\ next = Len(filters) + 1 /\ Len(filters) <= Len(args)
  /\ \A k \in DOMAIN filters : ~Malformed(args[k]) /\ filters[k] = Expr(args[k])
  /\ stage = "parse" => Fresh
  /\ stage = "read" => Parsed
  /\ stage = "done" =>
       \/ Parsed /\ result.status = "ok" /\ raised = "none"
       \/ Parsed /\ result.status = "err" /\ raised = "ValueError"
       \/ Refused
=============================================================================

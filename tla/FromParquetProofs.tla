-------------------------- MODULE FromParquetProofs --------------------------
(***************************************************************************)
(* For every file, list of Python tuples and projection: from_parquet on   *)
(* one file keeps its types, reads nothing before every tuple is parsed    *)
(* and drops none, and implements CallerScan.  The proof adds to the       *)
(* parsing what ReadParquetProofs proves of the reader, instantiated here. *)
(***************************************************************************)
EXTENDS FromParquet, ScalarFilterProofs

Read == INSTANCE ReadParquetProofs

-----------------------------------------------------------------------------
(***************************************************************************)
(* Parsing.                                                                *)
(***************************************************************************)

(* A value that is not malformed parses, to a scalar.                      *)
LEMMA ParseShape ==
  ASSUME NEW v \in PyValue,
         v.type # "other", v.type = "int" => v.val \in I64 \cup (-F64Max .. F64Max)
  PROVE  ParseFilterValue(v) \in ScalarValue /\ ParseFilterValue(v) # Unsupported
<1>1. NoStat.kind = "None"
  BY DEF NoStat
<1>2. CASE v.type = "bool"
  BY <1>1, <1>2 DEF PyValue, ParseFilterValue, ScalarValue, Unsupported
<1>3. CASE v.type = "int"
  <2>1. CASE v.val \in I64
    BY <1>1, <1>3, <2>1 DEF ParseFilterValue, HasI64, ScalarValue, Unsupported
  <2>2. CASE v.val \notin I64
    <3>1. v.val \in -F64Max .. F64Max /\ v.val # Nan
      BY <1>3, <2>2, ScalarAssumption, ArgumentAssumption
    <3>2. Double(v) \in F64
      BY <3>1, ArgumentAssumption DEF Double
    <3> QED
      BY <1>1, <1>3, <2>2, <3>1, <3>2
         DEF ParseFilterValue, HasI64, HasF64, ScalarValue, Unsupported
  <2> QED
    BY <2>1, <2>2
<1>4. CASE v.type \in {"float", "decimal"}
  <2>1. Double(v) \in F64 \cup {Nan}
    <3>1. CASE v.val = Nan
      BY <3>1 DEF Double
    <3>2. CASE v.val \in F64
      BY <3>2, ScalarAssumption DEF Double, Round
    <3>3. CASE v.val \in -F64Max .. F64Max
      BY <3>3, ScalarAssumption, ArgumentAssumption DEF Double
    <3> QED
      BY <1>4, <3>1, <3>2, <3>3 DEF PyValue
  <2> QED
    BY <1>1, <1>4, <2>1 DEF ParseFilterValue, HasI64, HasF64, ScalarValue, Unsupported
<1>5. CASE v.type = "str"
  BY <1>1, <1>5 DEF PyValue, ParseFilterValue, HasI64, HasF64, ScalarValue, Unsupported
<1> QED
  BY <1>2, <1>3, <1>4, <1>5 DEF PyValue

(* A value refused is malformed.                                           *)
LEMMA UnsupportedShape ==
  ASSUME NEW v \in PyValue, ParseFilterValue(v) = Unsupported
  PROVE  \/ v.type = "other"
         \/ v.type = "int" /\ v.val \notin I64 \cup (-F64Max .. F64Max)
  BY ParseShape

LEMMA ExprShape ==
  ASSUME NEW t \in FilterTuple, ~Malformed(t)
  PROVE  /\ Expr(t) \in Reader!FilterExpr
         /\ Expr(t).value \in ScalarValue /\ Expr(t).op \in Op
<1>1. t.column \in Names /\ t.value \in PyValue /\ t.operator \in Operators
  BY DEF FilterTuple, Malformed
<1>2. ParseFilterValue(t.value) \in ScalarValue
  BY <1>1, ParseShape DEF Malformed
<1>3. OpOf[t.operator] \in Op
  BY <1>1 DEF OpOf, Operators, Op
<1>4. Reader!ScalarValue = ScalarValue /\ Reader!Op = Op
  BY DEF Reader!ScalarValue, ScalarValue, Reader!I64, I64, Reader!Op, Op
<1> QED
  BY <1>1, <1>2, <1>3, <1>4 DEF Expr, Reader!FilterExpr

LEMMA ScalarsMatch == Read!ScalarAssumption
  BY ScalarAssumption DEF Read!ScalarAssumption, Round, Distance, Read!Round, Read!Distance

LEMMA SameFilterExpr == Read!FilterExpr = Reader!FilterExpr
  BY DEF Read!FilterExpr, Reader!FilterExpr, Read!Op, Reader!Op,
         Read!ScalarValue, Reader!ScalarValue, Read!I64, Reader!I64

LEMMA ExprsShape ==
  ASSUME NEW s \in Seq(FilterTuple)
  PROVE  Exprs(s) \in Seq(Reader!FilterExpr)
<1>1. CASE \E k \in DOMAIN s : Malformed(s[k])
  BY <1>1 DEF Exprs
<1>2. CASE \A k \in DOMAIN s : ~Malformed(s[k])
  <2>1. DOMAIN s = 1 .. Len(s) /\ Len(s) \in Nat
    OBVIOUS
  <2>2. \A k \in 1 .. Len(s) : Expr(s[k]) \in Reader!FilterExpr
    BY <1>2, <2>1, ExprShape
  <2>3. Exprs(s) = [k \in 1 .. Len(s) |-> Expr(s[k])]
    BY <1>2, <2>1 DEF Exprs
  <2> QED
    BY <2>1, <2>2, <2>3
<1> QED
  BY <1>1, <1>2

(* The constants of the reader satisfy its assumptions.                    *)
LEMMA ReaderMatches == Read!ReadAssumption
<1>1. FilterLists \subseteq Seq(Read!FilterExpr)
  <2>1. \A s \in ArgLists : Exprs(s) \in Seq(Reader!FilterExpr)
    BY ExprsShape, CallAssumption
  <2>2. <<>> \in Seq(Reader!FilterExpr)
    OBVIOUS
  <2> QED
    BY <2>1, <2>2, SameFilterExpr DEF FilterLists
<1>2. \A f : Reader!IsFile(f) <=> Read!IsFile(f)
  BY DEF Reader!IsFile, Read!IsFile, Reader!ColumnNames, Read!ColumnNames,
         Reader!Values, Read!Values, Reader!StatBounds, Read!StatBounds
<1>3. Read!ColumnType = ColumnType
  BY DEF Read!ColumnType, ColumnType, Read!Kinds, Kinds
<1>4. \A c \in Read!ColumnNames : ColType[c] \in Read!ColumnType
  BY <1>3, CallAssumption DEF Read!ColumnNames
<1> QED
  BY <1>1, <1>2, <1>4, CallAssumption DEF Read!ReadAssumption

-----------------------------------------------------------------------------
(***************************************************************************)
(* The reader's steps and states under the two instances of ReadParquet.   *)
(***************************************************************************)

LEMMA SameRound == \A S, x : Reader!Round(S, x) = Read!Round(S, x)
  BY DEF Reader!Round, Read!Round, Reader!Distance, Read!Distance

LEMMA SamePruning ==
  \A f, g : Reader!MayMatch(f, g) <=> Read!MayMatch(f, g)
<1>1. \A v : Reader!AsF64(v) = Read!AsF64(v)
  BY SameRound DEF Reader!AsF64, Read!AsF64
<1>2. \A v, w : Reader!Compare(v, w) = Read!Compare(v, w)
  BY <1>1 DEF Reader!Compare, Read!Compare, Reader!PartialCmp, Read!PartialCmp,
              Reader!IsNumeric, Read!IsNumeric
<1>3. \A op, v, x, y : Reader!CouldMatchRange(op, v, x, y) <=> Read!CouldMatchRange(op, v, x, y)
  BY <1>2 DEF Reader!CouldMatchRange, Read!CouldMatchRange, Reader!ScalarLe, Read!ScalarLe,
              Reader!ScalarLt, Read!ScalarLt, Reader!ScalarEq, Read!ScalarEq,
              Reader!NoStat, Read!NoStat
<1>4. \A type, x : Reader!ScalarFromArray(type, x) = Read!ScalarFromArray(type, x)
  BY DEF Reader!ScalarFromArray, Read!ScalarFromArray, Reader!Trusted, Read!Trusted,
         Reader!StatKind, Read!StatKind, Reader!NoStat, Read!NoStat
<1> QED
  BY <1>3, <1>4 DEF Reader!MayMatch, Read!MayMatch

LEMMA SameRows ==
  \A r : Reader!RowFilter(r) <=> Read!RowFilter(r)
<1>1. \A v : Reader!AsF64(v) = Read!AsF64(v)
  BY SameRound DEF Reader!AsF64, Read!AsF64
<1>2. \A v, type : Reader!Cast(v, type) = Read!Cast(v, type)
  BY <1>1, SameRound
     DEF Reader!Cast, Read!Cast, Reader!CastText, Read!CastText,
         Reader!CastToInt, Read!CastToInt, Reader!Truncate, Read!Truncate
<1>3. \A op, x, y : Reader!Holds(op, x, y) = Read!Holds(op, x, y)
  BY DEF Reader!Holds, Read!Holds
<1>4. \A type, op, v, x : Reader!EvaluatePredicate(type, op, v, x)
                           <=> Read!EvaluatePredicate(type, op, v, x)
  BY <1>2, <1>3
     DEF Reader!EvaluatePredicate, Read!EvaluatePredicate, Reader!OutOfRange,
         Read!OutOfRange, Reader!AllRowsMatch, Read!AllRowsMatch
<1> QED
  BY <1>4 DEF Reader!RowFilter, Read!RowFilter, Reader!Accepts, Read!Accepts,
              Reader!ColumnNames, Read!ColumnNames

LEMMA SameStep == Reader!Step \/ Reader!ReaderFails => Read!Next
<1> USE DEF Reader!request, Read!request, Reader!Return, Read!Return,
            Reader!ColumnNames, Read!ColumnNames, Reader!Err, Read!Err
<1>1. Reader!Groups = Read!Groups /\ Reader!Rows = Read!Rows
  BY DEF Reader!Groups, Read!Groups, Reader!Rows, Read!Rows
<1>2. /\ Reader!LastEnd = Read!LastEnd /\ Reader!Filling = Read!Filling
      /\ Reader!Remaining = Read!Remaining /\ Reader!Concat = Read!Concat
  BY DEF Reader!LastEnd, Read!LastEnd, Reader!Filling, Read!Filling, Reader!LastRow,
         Read!LastRow, Reader!Remaining, Read!Remaining, Reader!Concat, Read!Concat
<1>3. Reader!Requested = Read!Requested /\ Reader!ProjectionMask = Read!ProjectionMask
  BY DEF Reader!Requested, Read!Requested, Reader!ProjectionMask, Read!ProjectionMask
<1>4. CASE Reader!Open
  BY <1>4 DEF Reader!Open, Read!Open, Read!Step, Read!Next
<1>5. CASE Reader!PruneByFilter
  <2>1. keep' = [g \in Read!Groups |-> keep[g] /\ Read!MayMatch(filters[current], g)]
    BY <1>1, <1>5, SamePruning DEF Reader!PruneByFilter
  <2> QED
    BY <1>5, <2>1 DEF Reader!PruneByFilter, Read!PruneByFilter, Read!Step, Read!Next
<1>6. CASE Reader!PruneUnknownColumn
  BY <1>6 DEF Reader!PruneUnknownColumn, Read!PruneUnknownColumn, Read!Step, Read!Next
<1>7. CASE Reader!BuildReader
  <2>1. Reader!SurvivingRowGroups = Read!SurvivingRowGroups
    BY <1>1 DEF Reader!SurvivingRowGroups, Read!SurvivingRowGroups
  <2>2. selected' = {r \in Read!Rows : file.group[r] \in Read!SurvivingRowGroups
                                        /\ Read!RowFilter(r)}
    BY <1>1, <1>7, <2>1, SameRows DEF Reader!BuildReader
  <2> QED
    BY <1>7, <2>2 DEF Reader!BuildReader, Read!BuildReader, Read!Step, Read!Next
<1>8. CASE Reader!DecodeRow
  BY <1>2, <1>8, Zenon DEF Reader!DecodeRow, Read!DecodeRow, Read!Step, Read!Next
<1>9. CASE Reader!PushBatch
  BY <1>2, <1>9 DEF Reader!PushBatch, Read!PushBatch, Read!Step, Read!Next
<1>10. CASE Reader!Assemble \/ Reader!AssembleUnknownColumn
  <2>1. \A name : Reader!Found(name) <=> Read!Found(name)
    BY <1>3 DEF Reader!Found, Read!Found
  <2>2. Reader!Reordered = Read!Reordered
    BY <1>3 DEF Reader!Reordered, Read!Reordered, Reader!IndexOf, Read!IndexOf
  <2> QED
    BY <1>2, <1>10, <2>1, <2>2
       DEF Reader!Assemble, Read!Assemble, Reader!AssembleUnknownColumn,
           Read!AssembleUnknownColumn, Reader!Exhausted, Read!Exhausted, Read!Step, Read!Next
<1>11. CASE Reader!ReaderFails
  BY <1>11 DEF Reader!ReaderFails, Read!ReaderFails, Read!Next
<1> QED
  BY <1>4, <1>5, <1>6, <1>7, <1>8, <1>9, <1>10, <1>11 DEF Reader!Step

(* A step of the reader leaves the file and the request alone.             *)
LEMMA StepKeepsRequest ==
  Reader!Step \/ Reader!ReaderFails => UNCHANGED <<file, filters, columns>>
  BY DEF Reader!Step, Reader!Open, Reader!PruneByFilter, Reader!PruneUnknownColumn,
         Reader!BuildReader, Reader!DecodeRow, Reader!PushBatch, Reader!Assemble,
         Reader!AssembleUnknownColumn, Reader!ReaderFails, Reader!request

-----------------------------------------------------------------------------
(***************************************************************************)
(* The invariant: IInv, and the reader's own once the read has started.    *)
(***************************************************************************)

CallInv == IInv /\ (stage # "parse" /\ Parsed => Read!IInv)

LEMMA ArgsShape ==
  ASSUME args \in ArgLists
  PROVE  /\ args \in Seq(FilterTuple)
         /\ DOMAIN args = 1 .. Len(args) /\ Len(args) \in Nat
         /\ \A k \in DOMAIN args : args[k] \in FilterTuple
<1>1. args \in Seq(FilterTuple)
  BY CallAssumption
<1> QED
  BY <1>1

LEMMA InitCall == Init => CallInv
<1> SUFFICES ASSUME Init PROVE CallInv
  OBVIOUS
<1>1. /\ stage = "parse" /\ args \in ArgLists /\ next = 1 /\ filters = <<>> /\ raised = "none"
      /\ file \in Files /\ columns \in Projections
  BY DEF Init, Reader!Init, Reader!ScanInit
<1>2. Fresh
  BY DEF Init, Fresh, Reader!Init, Reader!ScanInit
<1>3. TypeOK
  BY <1>1 DEF TypeOK
<1> QED
  BY <1>1, <1>2, <1>3, ArgsShape DEF CallInv, IInv

(* A refused tuple is malformed, and its exception is that of the tuple.   *)
LEMMA RejectKeeps == CallInv /\ (RejectOperator \/ RejectValue) => CallInv'
<1> SUFFICES ASSUME CallInv, RejectOperator \/ RejectValue PROVE CallInv'
  OBVIOUS
<1>1. /\ stage = "parse" /\ next \in DOMAIN args /\ stage' = "done"
      /\ UNCHANGED <<args, next, filters, file, columns, reader>>
  BY DEF RejectOperator, RejectValue, Raise
<1>2. IInv /\ TypeOK /\ Fresh
  BY <1>1 DEF CallInv, IInv
<1>3. Tuple \in FilterTuple /\ DOMAIN args = 1 .. Len(args) /\ Len(args) \in Nat
  BY <1>1, <1>2, ArgsShape DEF TypeOK, Tuple
<1>4. /\ Malformed(Tuple) /\ raised' \in {"PydartError", "ValueError"}
      /\ raised' = IF Tuple.operator \in Operators THEN "ValueError" ELSE "PydartError"
  <2>1. CASE RejectOperator
    BY <2>1 DEF RejectOperator, Raise, PyErr, Malformed
  <2>2. CASE RejectValue
    <3>1. Tuple.value \in PyValue
      BY <1>3 DEF FilterTuple
    <3> QED
      BY <2>2, <3>1, UnsupportedShape DEF RejectValue, Raise, PyErr, Malformed
  <2> QED
    BY <2>1, <2>2
<1>5. Tuple' = Tuple /\ Fresh' /\ (Parsed' <=> Parsed)
  BY <1>1, <1>2 DEF Tuple, Fresh, reader, Reader!Groups, Parsed
<1>6. Refused'
  BY <1>1, <1>4, <1>5 DEF Refused
<1>7. TypeOK'
  BY <1>1, <1>2, <1>4 DEF TypeOK
<1>8. ~Parsed'
  BY <1>1, <1>3, <1>5 DEF Parsed
<1>9. \A k \in DOMAIN filters' : ~Malformed(args'[k]) /\ filters'[k] = Expr(args'[k])
  BY <1>1, <1>2 DEF IInv
<1> QED
  BY <1>1, <1>2, <1>6, <1>7, <1>8, <1>9 DEF CallInv, IInv

LEMMA ParseKeeps == CallInv /\ ParseTuple => CallInv'
<1> SUFFICES ASSUME CallInv, ParseTuple PROVE CallInv'
  OBVIOUS
<1>1. /\ stage = "parse" /\ next \in DOMAIN args /\ Tuple.operator \in Operators
      /\ ParseFilterValue(Tuple.value) # Unsupported
      /\ filters' = Append(filters, Expr(Tuple)) /\ next' = next + 1
      /\ UNCHANGED <<stage, args, raised, file, columns, reader>>
  BY DEF ParseTuple
<1>2. IInv /\ TypeOK /\ Fresh
  BY <1>1 DEF CallInv, IInv
<1>3. Tuple \in FilterTuple /\ DOMAIN args = 1 .. Len(args) /\ Len(args) \in Nat
  BY <1>1, <1>2, ArgsShape DEF TypeOK, Tuple
<1>4. ~Malformed(Tuple)
  <2>1. Tuple.value \in PyValue
    BY <1>3 DEF FilterTuple
  <2>2. ASSUME Tuple.value.type = "other" PROVE FALSE
    BY <1>1, <2>2 DEF ParseFilterValue, HasI64, HasF64
  <2>3. ASSUME Tuple.value.type = "int", Tuple.value.val \notin I64 \cup (-F64Max .. F64Max)
        PROVE  FALSE
    BY <1>1, <2>3 DEF ParseFilterValue, HasI64, HasF64
  <2> QED
    BY <1>1, <2>2, <2>3 DEF Malformed
<1>5. Expr(Tuple) \in Reader!FilterExpr
  BY <1>3, <1>4, ExprShape
<1>6. filters \in Seq(Reader!FilterExpr) /\ Len(filters) \in Nat /\ DOMAIN filters = 1 .. Len(filters)
  BY <1>2 DEF TypeOK
<1>7. /\ filters' \in Seq(Reader!FilterExpr) /\ Len(filters') = Len(filters) + 1
      /\ DOMAIN filters' = 1 .. Len(filters) + 1
      /\ \A k \in 1 .. Len(filters) : filters'[k] = filters[k]
      /\ filters'[Len(filters) + 1] = Expr(Tuple)
  BY <1>1, <1>5, <1>6
<1>8. next = Len(filters) + 1 /\ next' = Len(filters') + 1 /\ Len(filters') <= Len(args')
  BY <1>1, <1>2, <1>3, <1>6, <1>7 DEF IInv
<1>9. \A k \in DOMAIN filters' : ~Malformed(args'[k]) /\ filters'[k] = Expr(args'[k])
  <2> SUFFICES ASSUME NEW k \in DOMAIN filters'
               PROVE  ~Malformed(args[k]) /\ filters'[k] = Expr(args[k])
    BY <1>1
  <2>1. CASE k = Len(filters) + 1
    BY <1>4, <1>7, <1>8, <2>1 DEF Tuple
  <2>2. CASE k \in DOMAIN filters
    BY <1>2, <1>6, <1>7, <2>2 DEF IInv
  <2> QED
    BY <1>6, <1>7, <2>1, <2>2
<1>10. TypeOK'
  BY <1>1, <1>2, <1>7, <1>8 DEF TypeOK
<1>11. Fresh'
  BY <1>1, <1>2 DEF Fresh, reader, Reader!Groups
<1> QED
  BY <1>1, <1>2, <1>8, <1>9, <1>10, <1>11 DEF CallInv, IInv

(* When every tuple is parsed, the list is what the argument stands for.   *)
LEMMA ParsedAll ==
  ASSUME IInv, Parsed
  PROVE  /\ filters = Exprs(args) /\ Len(filters) = Len(args)
         /\ \A k \in DOMAIN args : ~Malformed(args[k])
<1>1. args \in Seq(FilterTuple) /\ DOMAIN args = 1 .. Len(args) /\ Len(args) \in Nat
  BY ArgsShape DEF IInv, TypeOK
<1>2. filters \in Seq(Reader!FilterExpr) /\ Len(filters) \in Nat /\ DOMAIN filters = 1 .. Len(filters)
  BY DEF IInv, TypeOK
<1>3. Len(filters) = Len(args)
  <2>1. next = Len(filters) + 1
    BY DEF IInv
  <2>2. next = Len(args) + 1
    BY DEF Parsed
  <2>3. Len(filters) \in Nat /\ Len(args) \in Nat
    BY <1>1, <1>2
  <2> QED
    BY ONLY <2>1, <2>2, <2>3
<1>4. \A k \in DOMAIN args : ~Malformed(args[k]) /\ filters[k] = Expr(args[k])
  BY <1>1, <1>2, <1>3 DEF IInv
<1>5. filters = [k \in DOMAIN args |-> Expr(args[k])]
  BY <1>1, <1>2, <1>3, <1>4
<1> QED
  BY <1>3, <1>4, <1>5 DEF Exprs

LEMMA StartKeeps == CallInv /\ StartRead => CallInv'
<1> SUFFICES ASSUME CallInv, StartRead PROVE CallInv'
  OBVIOUS
<1>1. /\ stage = "parse" /\ next \notin DOMAIN args /\ stage' = "read"
      /\ UNCHANGED <<args, next, filters, raised, file, columns, reader>>
  BY DEF StartRead
<1>2. IInv /\ TypeOK /\ Fresh
  BY <1>1 DEF CallInv, IInv
<1>3. DOMAIN args = 1 .. Len(args) /\ Len(args) \in Nat
  BY <1>2, ArgsShape DEF TypeOK
<1>4. Len(filters) \in Nat /\ next = Len(filters) + 1 /\ Len(filters) <= Len(args)
  BY <1>2 DEF IInv, TypeOK
<1>5. Parsed
  BY <1>1, <1>3, <1>4 DEF Parsed
<1>6. filters \in FilterLists
  BY <1>2, <1>5, ParsedAll DEF FilterLists, TypeOK
<1>7. Read!Init
  BY <1>2, <1>6 DEF Fresh, IInv, Read!Init, Read!ScanInit, Read!Pending, Reader!Pending,
                    Reader!Groups, Read!Groups
<1>8. Read!IInv
  BY <1>7, Read!InitInvariant, ScalarsMatch, ReaderMatches
     DEF Read!ScalarAssumption, Read!ReadAssumption
<1>9. Read!IInv'
  <2>1. UNCHANGED Read!vars
    BY <1>1 DEF reader, Read!vars
  <2> QED
    BY <1>8, <2>1, Read!StepInvariant, ScalarsMatch, ReaderMatches
       DEF Read!ScalarAssumption, Read!ReadAssumption
<1>10. TypeOK' /\ Parsed'
  BY <1>1, <1>2, <1>5 DEF TypeOK, Parsed
<1>11. /\ file' \in Files /\ columns' \in Projections
       /\ next' = Len(filters') + 1 /\ Len(filters') <= Len(args')
       /\ \A k \in DOMAIN filters' : ~Malformed(args'[k]) /\ filters'[k] = Expr(args'[k])
  BY <1>1, <1>2 DEF IInv
<1> QED
  BY <1>1, <1>9, <1>10, <1>11 DEF CallInv, IInv

LEMMA ReaderStepKeeps == CallInv /\ ReaderStep => CallInv'
<1> SUFFICES ASSUME CallInv, ReaderStep PROVE CallInv'
  OBVIOUS
<1>1. stage = "read" /\ UNCHANGED call /\ (Reader!Step \/ Reader!ReaderFails)
  BY DEF ReaderStep
<1>2. IInv /\ TypeOK /\ Parsed /\ Read!IInv
  BY <1>1 DEF CallInv, IInv
<1>3. Read!IInv'
  BY <1>1, <1>2, SameStep, Read!StepInvariant, ScalarsMatch, ReaderMatches
     DEF Read!ScalarAssumption, Read!ReadAssumption
<1>4. UNCHANGED <<stage, args, next, filters, raised, file, columns>>
  BY <1>1, StepKeepsRequest DEF call
<1>5. TypeOK' /\ Parsed'
  BY <1>2, <1>4 DEF TypeOK, Parsed
<1>6. /\ file' \in Files /\ columns' \in Projections
      /\ next' = Len(filters') + 1 /\ Len(filters') <= Len(args')
      /\ \A k \in DOMAIN filters' : ~Malformed(args'[k]) /\ filters'[k] = Expr(args'[k])
  BY <1>2, <1>4 DEF IInv
<1> QED
  BY <1>1, <1>3, <1>4, <1>5, <1>6 DEF CallInv, IInv

LEMMA ReturnKeeps == CallInv /\ (ReturnTable \/ RaiseReadError) => CallInv'
<1> SUFFICES ASSUME CallInv, ReturnTable \/ RaiseReadError PROVE CallInv'
  OBVIOUS
<1>1. /\ stage = "read" /\ stage' = "done"
      /\ UNCHANGED <<args, next, filters, file, columns, reader>>
      /\ \/ result.status = "ok" /\ raised' = raised
         \/ result.status = "err" /\ raised' = "ValueError"
  BY DEF ReturnTable, RaiseReadError, Raise, PyErr
<1>2. IInv /\ TypeOK /\ Parsed /\ Read!IInv /\ raised = "none"
  BY <1>1 DEF CallInv, IInv, TypeOK
<1>3. Read!IInv'
  <2>1. UNCHANGED Read!vars
    BY <1>1 DEF reader, Read!vars
  <2> QED
    BY <1>2, <2>1, Read!StepInvariant, ScalarsMatch, ReaderMatches
       DEF Read!ScalarAssumption, Read!ReadAssumption
<1>4. TypeOK' /\ Parsed' /\ result' = result
  BY <1>1, <1>2 DEF TypeOK, Parsed, reader
<1>5. /\ file' \in Files /\ columns' \in Projections
      /\ next' = Len(filters') + 1 /\ Len(filters') <= Len(args')
      /\ \A k \in DOMAIN filters' : ~Malformed(args'[k]) /\ filters'[k] = Expr(args'[k])
  BY <1>1, <1>2 DEF IInv
<1> QED
  BY <1>1, <1>2, <1>3, <1>4, <1>5 DEF CallInv, IInv

LEMMA StutterKeeps == CallInv /\ UNCHANGED vars => CallInv'
<1> SUFFICES ASSUME CallInv, UNCHANGED vars PROVE CallInv'
  OBVIOUS
<1>1. UNCHANGED <<stage, args, next, filters, raised, file, columns, reader>>
  BY DEF vars, call
<1>2. IInv
  BY DEF CallInv
<1>3. TypeOK' /\ (Parsed' <=> Parsed) /\ (Fresh' <=> Fresh) /\ (Refused' <=> Refused) /\ result' = result
  BY <1>1, <1>2 DEF IInv, TypeOK, Parsed, Fresh, Refused, Tuple, reader, Reader!Groups
<1>4. IInv'
  BY <1>1, <1>2, <1>3 DEF IInv
<1>5. UNCHANGED Read!vars
  BY <1>1 DEF reader, Read!vars
<1>6. Read!IInv => Read!IInv'
  BY <1>5, Read!StepInvariant, ScalarsMatch, ReaderMatches
     DEF Read!ScalarAssumption, Read!ReadAssumption
<1> QED
  BY <1>1, <1>3, <1>4, <1>6 DEF CallInv

LEMMA StepCall == CallInv /\ [Next]_vars => CallInv'
  BY RejectKeeps, ParseKeeps, StartKeeps, ReaderStepKeeps, ReturnKeeps, StutterKeeps
     DEF Next, Returned

LEMMA CallInvariance == Spec => []CallInv
  BY InitCall, StepCall, PTL DEF Spec

(* IInv is an invariant of the call.                                       *)
THEOREM Invariance == Spec => []IInv
<1>1. CallInv => IInv
  BY DEF CallInv
<1> QED
  BY <1>1, CallInvariance, PTL

(* The call keeps its types.                                               *)
THEOREM TypeCorrect == Spec => []TypeOK
<1>1. IInv => TypeOK
  BY DEF IInv
<1> QED
  BY <1>1, Invariance, PTL

(* T-03-05: the reader runs on one condition per tuple the caller wrote,   *)
(* and on none of them before all are parsed.                              *)
THEOREM NoTupleIsDropped == Spec => []NoTupleDropped
<1>1. IInv => NoTupleDropped
  <2> SUFFICES ASSUME IInv, pc # "open" \/ stage = "read"
               PROVE  /\ Len(filters) = Len(args)
                      /\ \A k \in DOMAIN args :
                           ~Malformed(args[k]) /\ filters[k].column = args[k].column
    BY DEF NoTupleDropped
  <2>1. Parsed
    BY DEF IInv, Fresh, Refused, TypeOK
  <2>2. filters = Exprs(args) /\ Len(filters) = Len(args)
        /\ \A k \in DOMAIN args : ~Malformed(args[k])
    BY <2>1, ParsedAll
  <2> QED
    BY <2>2 DEF Exprs, Expr
<1> QED
  BY <1>1, Invariance, PTL

-----------------------------------------------------------------------------
(***************************************************************************)
(* The tuples from_parquet honours to the letter.                          *)
(***************************************************************************)

LEMMA TruncateWhole ==
  ASSUME NEW n \in Int, n % One = 0
  PROVE  Truncate(n) = n
<1>1. One \in Nat \ {0}
  BY ScalarAssumption
<1>2. PICK q \in Int : n = q * One
  <2>1. n \div One \in Int /\ n = One * (n \div One) + (n % One)
    BY <1>1
  <2>2. n = (n \div One) * One
    BY <1>1, <2>1
  <2> QED
    BY <2>1, <2>2
<1>3. \A k \in Int : (k * One) \div One = k
  BY <1>1
<1>4. CASE n < 0
  <2>1. -n = (-q) * One /\ -q \in Int
    BY <1>1, <1>2
  <2>2. (-n) \div One = -q
    BY <1>3, <2>1
  <2> QED
    BY <1>1, <1>2, <1>4, <2>1, <2>2 DEF Truncate
<1>5. CASE n >= 0
  BY <1>1, <1>2, <1>3, <1>5 DEF Truncate
<1> QED
  BY <1>4, <1>5

(* A number the double can hold is its own double.                         *)
LEMMA HonouredLiteral ==
  ASSUME NEW type \in ColumnType, NEW v \in PyValue, Representable(type, v),
         v.type = "int" => v.val \in I64 \cup (-F64Max .. F64Max)
  PROVE  LET s == ParseFilterValue(v)
         IN  s \in ScalarValue /\ s.val = v.val /\ Exact(type, s) /\ SameNumber(type, s)
<1> DEFINE s == ParseFilterValue(v)
<1>1. v.type # "other" /\ s \in ScalarValue
  BY ParseShape DEF Representable, Meaningful, PyNumber
<1>2. CASE type.kind = "bool"
  <2>1. v.type = "bool" /\ v.val \in {0, One}
    BY <1>2 DEF Representable, Meaningful, PyValue
  <2>2. s = [kind |-> "Bool", val |-> v.val]
    BY <2>1 DEF ParseFilterValue
  <2> QED
    BY <1>1, <1>2, <2>1, <2>2 DEF Exact, SameNumber, Comparable, Cast
<1>3. CASE type.kind = "utf8"
  <2>1. v.type = "str"
    BY <1>3 DEF Representable, Meaningful
  <2>2. s = [kind |-> "Utf8", val |-> v.val]
    BY <2>1 DEF ParseFilterValue, HasI64, HasF64
  <2> QED
    BY <1>1, <1>3, <2>2 DEF Exact, SameNumber, Comparable, Cast, CastText
<1>4. CASE type.kind = "int" /\ v.type = "int" /\ v.val \in I64
  <2>1. s = [kind |-> "Int64", val |-> v.val]
    BY <1>4 DEF ParseFilterValue, HasI64
  <2>2. v.val \in Int /\ v.val # Nan /\ type.lo \in Int /\ type.hi \in Int
    BY <1>4, ScalarAssumption DEF I64, ColumnType
  <2> QED
    BY <1>1, <1>4, <2>1, <2>2
       DEF Exact, SameNumber, Comparable, IsNumeric, OutOfRange, Cast, CastToInt
<1>5. CASE /\ type.kind \in {"int", "f64", "f32"} /\ v.val \in Values(type) \cap F64
           /\ type.kind = "int" => Values(type) \subseteq F64
           /\ ~(type.kind = "int" /\ v.type = "int" /\ v.val \in I64)
  <2>1. v.type \in PyNumber /\ v.val # Nan /\ v.val \in Int /\ v.val \in F64
    BY <1>5, ScalarAssumption DEF Representable, Meaningful
  <2>2. Double(v) = v.val
    BY <2>1 DEF Double, Round
  <2>3. s = [kind |-> "Int64", val |-> v.val] \/ s = [kind |-> "Float64", val |-> v.val]
    BY <2>1, <2>2 DEF ParseFilterValue, HasI64, HasF64, PyNumber
  <2>4. IsNumeric(s) /\ s.val = v.val /\ AsF64(s) = v.val
    BY <2>1, <2>3 DEF IsNumeric, AsF64, Round
  <2>5. CASE type.kind = "f64"
    BY <1>1, <2>3, <2>4, <2>5 DEF Exact, SameNumber, Comparable, Cast
  <2>6. CASE type.kind = "f32"
    <3>1. v.val \in F32
      BY <1>5, <2>6 DEF Values
    <3>2. Round(F32, v.val) = v.val
      BY <3>1 DEF Round
    <3> QED
      BY <1>1, <2>1, <2>3, <2>4, <2>6, <3>2 DEF Exact, SameNumber, Comparable, Cast
  <2>7. CASE type.kind = "int"
    <3>1. /\ type.lo \in Int /\ type.hi \in Int
          /\ v.val % One = 0 /\ type.lo <= v.val /\ v.val <= type.hi
      BY <1>5, <2>7 DEF Values, ColumnType
    <3>2. s = [kind |-> "Float64", val |-> v.val]
      BY <1>5, <2>1, <2>2, <2>7 DEF ParseFilterValue, HasI64, HasF64, PyNumber
    <3>3. Cast(s, type) = v.val
      BY <2>1, <2>7, <3>1, <3>2, TruncateWhole DEF Cast, CastToInt
    <3> QED
      BY <1>1, <1>5, <2>4, <2>7, <3>3 DEF Exact, SameNumber, Comparable
  <2> QED
    BY <1>5, <2>5, <2>6, <2>7
<1> QED
  BY <1>2, <1>3, <1>4, <1>5 DEF Representable, Meaningful

(* The scalar's meaning is the tuple's.                                    *)
LEMMA HonouredMeaning ==
  ASSUME NEW type \in ColumnType, NEW t \in FilterTuple, ~Malformed(t),
         Representable(type, t.value), NEW x \in Values(type) \cup {Null}
  PROVE  EvaluatePredicate(type, Expr(t).op, Expr(t).value, x)
         <=> Means(t.operator, x, t.value)
<1> DEFINE v == t.value
<1>1. /\ v \in PyValue /\ t.operator \in Operators /\ Expr(t).op = OpOf[t.operator]
      /\ v.type = "int" => v.val \in I64 \cup (-F64Max .. F64Max)
  BY DEF FilterTuple, Malformed, Expr
<1>2. /\ Expr(t).value \in ScalarValue /\ Expr(t).value.val = v.val
      /\ Exact(type, Expr(t).value)
  BY <1>1, HonouredLiteral DEF Expr
<1>3. Expr(t).op \in Op
  BY ExprShape
<1>4. EvaluatePredicate(type, Expr(t).op, Expr(t).value, x)
      <=> Satisfies(Expr(t).op, x, Expr(t).value)
  BY <1>2, <1>3, ExactPredicate
<1>5. v.val # Nan
  BY <1>1, ScalarAssumption DEF Representable, Meaningful, PyValue
<1>6. Satisfies(OpOf[t.operator], x, Expr(t).value) <=> Means(t.operator, x, v)
  BY <1>1, <1>2, <1>5 DEF Satisfies, Holds, Means, OpOf, Operators
<1> QED
  BY <1>1, <1>4, <1>6

-----------------------------------------------------------------------------
(***************************************************************************)
(* from_parquet implements CallerScan.                                     *)
(***************************************************************************)

LEMMA SameReading ==
  /\ \A type, op, v, x : Read!EvaluatePredicate(type, op, v, x)
                          <=> EvaluatePredicate(type, op, v, x)
  /\ \A type, v : Read!SameNumber(type, v) <=> SameNumber(type, v)
<1>1. \A S, x : Read!Round(S, x) = Round(S, x)
  BY DEF Read!Round, Round, Read!Distance, Distance
<1>2. \A v : Read!AsF64(v) = AsF64(v)
  BY <1>1 DEF Read!AsF64, AsF64
<1>3. \A v, type : Read!Cast(v, type) = Cast(v, type)
  BY <1>1, <1>2 DEF Read!Cast, Cast, Read!CastText, CastText, Read!CastToInt,
                    CastToInt, Read!Truncate, Truncate
<1>4. \A op, x, y : Read!Holds(op, x, y) = Holds(op, x, y)
  BY DEF Read!Holds, Holds
<1>5. \A type : Read!Values(type) = Values(type)
  BY DEF Read!Values, Values
<1> QED
  BY <1>2, <1>3, <1>4, <1>5
     DEF Read!EvaluatePredicate, EvaluatePredicate, Read!OutOfRange, OutOfRange,
         Read!AllRowsMatch, AllRowsMatch, Read!SameNumber, SameNumber,
         Read!IsNumeric, IsNumeric

LEMMA SameStatements ==
  /\ Reader!ColumnNames = Read!ColumnNames
  /\ Reader!NoOverPruning <=> Read!NoOverPruning
<1>1. Reader!ColumnNames = Read!ColumnNames /\ Reader!Rows = Read!Rows
  BY DEF Reader!ColumnNames, Read!ColumnNames, Reader!Rows, Read!Rows
<1> QED
  BY <1>1, SameRows DEF Reader!NoOverPruning, Read!NoOverPruning

(* The scalar a tuple parses to is one number on both sides, too.          *)
LEMMA SameNumberParsed ==
  ASSUME NEW type \in ColumnType, NEW t \in FilterTuple, ~Malformed(t),
         ReadAlike(type, t.value)
  PROVE  SameNumber(type, Expr(t).value)
<1> DEFINE v == t.value
<1>1. v \in PyValue /\ (v.type = "int" => v.val \in I64 \cup (-F64Max .. F64Max))
      /\ Expr(t).value = ParseFilterValue(v)
  BY DEF FilterTuple, Malformed, Expr
<1>2. CASE type.kind \in {"bool", "utf8", "f64"}
  BY <1>2 DEF SameNumber
<1>3. CASE v.type \in {"bool", "str"}
  <2>1. ParseFilterValue(v).kind \in {"Bool", "Utf8"}
    BY <1>3 DEF ParseFilterValue, HasI64, HasF64
  <2> QED
    BY <1>1, <2>1 DEF SameNumber, IsNumeric
<1>4. CASE Representable(type, v)
  BY <1>1, <1>4, HonouredLiteral
<1> QED
  BY <1>2, <1>3, <1>4 DEF ReadAlike

LEMMA TuplesSameNumber == IInv /\ TuplesReadAlike => Read!FiltersSameNumber
<1> SUFFICES ASSUME IInv, TuplesReadAlike, NEW i \in DOMAIN filters,
                    filters[i].column \in Read!ColumnNames
             PROVE  Read!SameNumber(ColType[filters[i].column], filters[i].value)
  BY DEF Read!FiltersSameNumber
<1>1. /\ DOMAIN args = 1 .. Len(args) /\ Len(args) \in Nat
      /\ \A k \in DOMAIN args : args[k] \in FilterTuple
  BY ArgsShape DEF IInv, TypeOK
<1>2. DOMAIN filters = 1 .. Len(filters) /\ Len(filters) \in Nat /\ Len(filters) <= Len(args)
  BY DEF IInv, TypeOK
<1>3. i \in DOMAIN args /\ ~Malformed(args[i]) /\ filters[i] = Expr(args[i])
  BY <1>1, <1>2 DEF IInv
<1>4. filters[i].column = args[i].column /\ args[i] \in FilterTuple
  BY <1>1, <1>3 DEF Expr
<1> DEFINE type == ColType[args[i].column]
<1>5. type \in ColumnType
  BY <1>4, CallAssumption DEF Read!ColumnNames
<1>6. ReadAlike(type, args[i].value)
  BY <1>3, <1>4, SameStatements DEF TuplesReadAlike
<1>7. SameNumber(type, Expr(args[i]).value)
  <2> HIDE DEF type
  <2> QED
    BY <1>3, <1>4, <1>5, <1>6, SameNumberParsed
<1> QED
  BY <1>3, <1>4, <1>7, SameReading

(* T-03-04 from the Python caller's side, for every file and list of       *)
(* tuples: if both sides read every tuple alike, no row group is ruled out *)
(* that holds a row the row filter built from the tuples accepts.          *)
THEOREM PruningKeepsRows == Spec => [](TuplesReadAlike => NoOverPruning)
<1>1. CallInv /\ TuplesReadAlike => NoOverPruning
  <2> SUFFICES ASSUME CallInv, TuplesReadAlike PROVE Reader!NoOverPruning
    BY DEF NoOverPruning
  <2>1. IInv
    BY DEF CallInv
  <2>2. CASE Fresh
    <3>1. keep = [g \in Reader!Groups |-> TRUE]
      BY <2>2 DEF Fresh
    <3>2. file \in Files /\ Reader!IsFile(file)
      BY <2>1, CallAssumption DEF IInv
    <3>3. \A r \in Reader!Rows : file.group[r] \in Reader!Groups
      BY <3>2 DEF Reader!IsFile, Reader!Rows, Reader!Groups
    <3> QED
      BY <3>1, <3>3 DEF Reader!NoOverPruning
  <2>3. CASE stage # "parse" /\ Parsed
    <3>1. Read!IInv
      BY <2>3 DEF CallInv
    <3>2. Read!FiltersSameNumber
      BY <2>1, TuplesSameNumber
    <3>3. Read!NoOverPruning
      BY <3>1, <3>2, Read!KeepsAcceptedRows, ScalarsMatch, ReaderMatches
         DEF Read!ScalarAssumption, Read!ReadAssumption
    <3> QED
      BY <3>3, SameStatements
  <2> QED
    BY <2>1, <2>2, <2>3 DEF IInv, TypeOK, Refused
<1> QED
  BY <1>1, CallInvariance, PTL

LEMMA SameTuples ==
  /\ Answer!Operators = Operators
  /\ \A t : Answer!Malformed(t) <=> Malformed(t)
  /\ \A type, v : Answer!Representable(type, v) <=> Representable(type, v)
  /\ \A o, x, v : Answer!Means(o, x, v) <=> Means(o, x, v)
<1>1. Answer!Operators = Operators /\ Answer!I64 = I64 /\ Answer!PyNumber = PyNumber
  BY DEF Answer!Operators, Operators, Answer!I64, I64, Answer!PyNumber, PyNumber
<1>2. \A type : Answer!Values(type) = Values(type)
  BY DEF Answer!Values, Values
<1>3. \A type, v : Answer!Meaningful(type, v) <=> Meaningful(type, v)
  BY <1>1 DEF Answer!Meaningful, Meaningful
<1>4. \A t : Answer!Malformed(t) <=> Malformed(t)
  BY <1>1 DEF Answer!Malformed, Malformed
<1>5. \A type, v : Answer!Representable(type, v) <=> Representable(type, v)
  BY <1>1, <1>2, <1>3 DEF Answer!Representable, Representable
<1>6. \A o, x, v : Answer!Means(o, x, v) <=> Means(o, x, v)
  BY DEF Answer!Means, Means
<1> QED
  BY <1>1, <1>4, <1>5, <1>6

(* A table has the columns asked for, all of them in the file.             *)
AnsweredColumns ==
  result.status = "ok" =>
    /\ result.cols = Read!Requested
    /\ \A i \in DOMAIN Read!Requested : Read!Requested[i] \in Read!ColumnNames

LEMMA StepKeepsColumns == CallInv /\ AnsweredColumns /\ [Next]_vars => AnsweredColumns'
<1> SUFFICES ASSUME CallInv, AnsweredColumns, [Next]_vars PROVE AnsweredColumns'
  OBVIOUS
<1>1. CASE UNCHANGED <<columns, result>>
  BY <1>1 DEF AnsweredColumns, Read!Requested, Read!ColumnNames
<1>2. CASE ReaderStep
  <2>1. Read!IInv /\ Read!Next /\ UNCHANGED columns
    BY <1>2, SameStep, StepKeepsRequest DEF ReaderStep, CallInv, IInv
  <2>2. CASE UNCHANGED result
    BY <1>1, <2>1, <2>2
  <2>3. CASE Read!Assemble
    <3>1. /\ columns # AllColumns => \A k \in DOMAIN columns : Read!Found(columns[k])
          /\ result'.cols = Read!Reordered
      BY <2>3 DEF Read!Assemble, Read!Return
    <3>2. /\ Read!Reordered = Read!Requested
          /\ \A i \in DOMAIN Read!Requested : Read!Requested[i] \in Read!ColumnNames
      BY <2>1, <3>1, Read!ReorderIsRequest, ScalarsMatch, ReaderMatches
         DEF Read!ScalarAssumption, Read!ReadAssumption
    <3>3. Read!Requested' = Read!Requested
      BY <2>1 DEF Read!Requested
    <3> QED
      BY <3>1, <3>2, <3>3 DEF AnsweredColumns, Read!ColumnNames
  <2>4. CASE result' = Read!Err
    BY <2>4 DEF AnsweredColumns, Read!Err
  <2> QED
    BY <2>1, <2>2, <2>3, <2>4
       DEF Read!Next, Read!Step, Read!Open, Read!PruneByFilter, Read!PruneUnknownColumn,
           Read!BuildReader, Read!DecodeRow, Read!PushBatch, Read!AssembleUnknownColumn,
           Read!ReaderFails, Read!Returned, Read!Return, Read!vars
<1> QED
  BY <1>1, <1>2
     DEF Next, RejectOperator, RejectValue, ParseTuple, StartRead, ReturnTable,
         RaiseReadError, Returned, vars, reader

(* Which rows the list parsed from the tuples accepts.                     *)
LEMMA AcceptedTuples ==
  ASSUME CallInv, stage = "read", result.status = "ok"
  PROVE  /\ \A k \in DOMAIN args : args[k].column \in Read!ColumnNames
         /\ Read!SelectedRows \subseteq Answer!Matching
         /\ (\A k \in DOMAIN args : Answer!Honoured(args[k]))
              => Answer!Matching \subseteq Read!SelectedRows
<1>1. /\ IInv /\ TypeOK /\ Parsed /\ Read!IInv /\ args \in ArgLists
      /\ Read!AllLookedAt
  BY DEF CallInv, IInv, TypeOK, Read!IInv
<1>2. /\ DOMAIN args = 1 .. Len(args) /\ Len(args) \in Nat
      /\ \A k \in DOMAIN args : args[k] \in FilterTuple
  BY <1>1, ArgsShape
<1>3. /\ DOMAIN filters = DOMAIN args /\ current = Len(args) + 1
      /\ \A k \in DOMAIN args : ~Malformed(args[k]) /\ filters[k] = Expr(args[k])
  BY <1>1, ParsedAll DEF Exprs, Read!AllLookedAt
<1>4. \A k \in DOMAIN args : args[k].column \in Read!ColumnNames
  <2> SUFFICES ASSUME NEW k \in DOMAIN args PROVE args[k].column \in Read!ColumnNames
    OBVIOUS
  <2>1. k \in 1 .. current - 1
    BY <1>2, <1>3
  <2>2. filters[k].column \in Read!ColumnNames
    BY <1>1, <2>1 DEF Read!IInv
  <2> QED
    BY <1>3, <2>2 DEF Expr
<1>5. file \in Files /\ Reader!IsFile(file)
  BY <1>1, CallAssumption DEF IInv
<1>6. ASSUME NEW k \in DOMAIN args, NEW r \in 1 .. file.n, Answer!Honoured(args[k])
      PROVE  /\ Read!Accepts(filters[k], r)
                 <=> Answer!Means(args[k].operator, file.cell[r][args[k].column], args[k].value)
             /\ Read!SameNumber(ColType[args[k].column], filters[k].value)
  <2> DEFINE t == args[k]
             type == ColType[t.column]
             x == file.cell[r][t.column]
  <2>1. t \in FilterTuple /\ ~Malformed(t) /\ Representable(type, t.value)
    BY <1>2, <1>3, <1>6, SameTuples DEF Answer!Honoured
  <2>2. filters[k] = Expr(t) /\ Expr(t).column = t.column /\ t.column \in Read!ColumnNames
    BY <1>3, <1>4 DEF Expr
  <2>3. type \in ColumnType
    BY <2>2, CallAssumption DEF Read!ColumnNames
  <2>4. x \in Values(type) \cup {Null}
    <3>1. x \in Reader!Values(type) \cup {Null}
      BY <1>5, <2>2 DEF Reader!IsFile, Reader!ColumnNames, Read!ColumnNames
    <3> QED
      BY <3>1 DEF Reader!Values, Values
  <2>5. EvaluatePredicate(type, Expr(t).op, Expr(t).value, x) <=> Means(t.operator, x, t.value)
    <3> HIDE DEF t, type, x
    <3> QED
      BY <2>1, <2>3, <2>4, HonouredMeaning
  <2>6. SameNumber(type, Expr(t).value)
    <3>1. t.value \in PyValue /\ (t.value.type = "int" => t.value.val \in I64 \cup (-F64Max .. F64Max))
      BY <2>1 DEF FilterTuple, Malformed
    <3>2. Expr(t).value = ParseFilterValue(t.value)
      BY DEF Expr
    <3> HIDE DEF t, type
    <3> QED
      BY <2>1, <2>3, <3>1, <3>2, HonouredLiteral
  <2>7. Read!Accepts(filters[k], r) <=> EvaluatePredicate(type, Expr(t).op, Expr(t).value, x)
    BY <2>2, SameReading DEF Read!Accepts
  <2> QED
    BY <2>2, <2>5, <2>6, <2>7, SameReading, SameTuples
<1>7. Read!SelectedRows \subseteq Answer!Matching
  <2> SUFFICES ASSUME NEW r \in Read!SelectedRows PROVE r \in Answer!Matching
    OBVIOUS
  <2>1. r \in 1 .. file.n /\ \A k \in DOMAIN args : Read!Accepts(filters[k], r)
    BY <1>3 DEF Read!SelectedRows, Read!Rows, Read!RowFilter
  <2> QED
    BY <1>6, <2>1 DEF Answer!Matching, Answer!Asked
<1>8. ASSUME \A k \in DOMAIN args : Answer!Honoured(args[k])
      PROVE  Answer!Matching \subseteq Read!SelectedRows
  <2> SUFFICES ASSUME NEW r \in Answer!Matching PROVE r \in Read!SelectedRows
    OBVIOUS
  <2>1. r \in 1 .. file.n /\ \A k \in DOMAIN args : Read!Accepts(filters[k], r)
    BY <1>6, <1>8 DEF Answer!Matching, Answer!Asked
  <2>2. r \in Read!Rows /\ Read!RowFilter(r)
    BY <1>3, <2>1 DEF Read!Rows, Read!RowFilter
  <2>3. Read!FiltersSameNumber
    BY <1>3, <1>6, <1>8, <2>1 DEF Read!FiltersSameNumber, Expr
  <2>4. Read!NoOverPruning
    BY <1>1, <2>3, Read!KeepsAcceptedRows, ScalarsMatch, ReaderMatches
       DEF Read!ScalarAssumption, Read!ReadAssumption
  <2> QED
    BY <2>2, <2>4 DEF Read!NoOverPruning, Read!SelectedRows
<1> QED
  BY <1>4, <1>7, <1>8

LEMMA TableAnswers == CallInv /\ AnsweredColumns /\ ReturnTable => Answer!AnswerTable
<1> SUFFICES ASSUME CallInv, AnsweredColumns, ReturnTable PROVE Answer!AnswerTable
  OBVIOUS
<1>1. /\ stage = "read" /\ result.status = "ok" /\ stage' = "done" /\ raised = "none"
      /\ UNCHANGED <<args, raised, file, columns, result>>
  BY DEF ReturnTable, CallInv, IInv, TypeOK, reader
<1>2. IInv /\ Parsed /\ Read!IInv
  BY <1>1 DEF CallInv, IInv
<1>3. Outcome = Answer!Pending
  BY <1>1 DEF Outcome, ReturnedTable, Answer!Pending
<1>4. Outcome' = Answer!Table(result.rows, result.cols) /\ Outcome'.rows = result.rows
  BY <1>1 DEF Outcome, ReturnedTable, Answer!Table
<1>5. Read!IsListing(result.rows, Read!SelectedRows)
  BY <1>1, <1>2 DEF Read!IInv
<1>6. /\ \A k \in DOMAIN args : args[k].column \in Read!ColumnNames
      /\ Read!SelectedRows \subseteq Answer!Matching
      /\ (\A k \in DOMAIN args : Answer!Honoured(args[k]))
           => Answer!Matching \subseteq Read!SelectedRows
  BY <1>1, AcceptedTuples
<1>7. Answer!Range(result.rows) = Read!SelectedRows /\ Answer!Increasing(result.rows)
  BY <1>5 DEF Read!IsListing, Answer!Range, Answer!Increasing
<1>8. result.cols = Answer!Requested /\ Answer!AllKnown
  BY <1>1, <1>6 DEF AnsweredColumns, Read!Requested, Answer!Requested, Answer!AllKnown,
                    Answer!Known, Read!ColumnNames
<1>9. \A k \in DOMAIN args : ~Answer!Malformed(args[k])
  BY <1>2, ParsedAll, SameTuples
<1> QED
  BY <1>1, <1>3, <1>4, <1>6, <1>7, <1>8, <1>9 DEF Answer!AnswerTable

LEMMA RefusalAnswers ==
  CallInv /\ (RejectOperator \/ RejectValue) => Answer!RefuseTuple
<1> SUFFICES ASSUME CallInv, RejectOperator \/ RejectValue PROVE Answer!RefuseTuple
  OBVIOUS
<1>1. /\ stage = "parse" /\ next \in DOMAIN args /\ stage' = "done" /\ raised = "none"
      /\ UNCHANGED <<args, next, filters, file, columns>>
      /\ IInv /\ TypeOK
  BY DEF RejectOperator, RejectValue, Raise, CallInv, IInv, TypeOK
<1>2. CallInv' /\ IInv'
  BY RejectKeeps DEF CallInv
<1>3. DOMAIN args = 1 .. Len(args) /\ Len(args) \in Nat
  BY <1>1, ArgsShape DEF TypeOK
<1>4. ~Parsed'
  BY <1>1, <1>3 DEF Parsed
<1>5. Refused'
  BY <1>1, <1>2, <1>4 DEF IInv
<1>6. /\ Malformed(args[next])
      /\ raised' = IF args[next].operator \in Operators THEN "ValueError" ELSE "PydartError"
  BY <1>1, <1>5 DEF Refused, Tuple
<1>7. \A j \in 1 .. next - 1 : ~Malformed(args[j])
  <2>1. Len(filters) \in Nat /\ DOMAIN filters = 1 .. Len(filters) /\ next = Len(filters) + 1
    BY <1>1 DEF IInv, TypeOK
  <2> QED
    BY <1>1, <2>1 DEF IInv
<1>8. Answer!FirstMalformed(next)
  BY <1>1, <1>6, <1>7, SameTuples DEF Answer!FirstMalformed
<1>9. Outcome = Answer!Pending
  BY <1>1 DEF Outcome, ReturnedTable, Answer!Pending
<1>10. raised' # "none"
  BY <1>6
<1>11. Outcome' = Answer!Raised(raised')
  BY <1>1, <1>10 DEF Outcome, ReturnedTable, Answer!Raised
<1> QED
  BY <1>1, <1>6, <1>8, <1>9, <1>11, SameTuples DEF Answer!RefuseTuple

LEMMA FailureAnswers == CallInv /\ RaiseReadError => Answer!FailToRead
<1> SUFFICES ASSUME CallInv, RaiseReadError PROVE Answer!FailToRead
  OBVIOUS
<1>1. /\ stage = "read" /\ stage' = "done" /\ raised = "none" /\ raised' = "ValueError"
      /\ UNCHANGED <<args, file, columns>> /\ IInv /\ Parsed
  BY DEF RaiseReadError, Raise, PyErr, CallInv, IInv, TypeOK
<1>2. \A k \in DOMAIN args : ~Answer!Malformed(args[k])
  BY <1>1, ParsedAll, SameTuples
<1>3. Outcome = Answer!Pending /\ Outcome' = Answer!Raised("ValueError")
  BY <1>1 DEF Outcome, ReturnedTable, Answer!Pending, Answer!Raised
<1> QED
  BY <1>1, <1>2, <1>3 DEF Answer!FailToRead

(* D-25 and D-26 for every file and every list of Python tuples: the call  *)
(* refuses the first malformed tuple with its exception, and otherwise     *)
(* fails or returns the rows that satisfy the tuples as written.           *)
THEOREM ImplementsCallerScan == Spec => AnswersTheCaller
<1>1. Init => Answer!CallInit /\ AnsweredColumns
  <2> SUFFICES ASSUME Init PROVE Answer!CallInit /\ AnsweredColumns
    OBVIOUS
  <2>1. /\ stage = "parse" /\ raised = "none" /\ args \in ArgLists
        /\ file \in Files /\ columns \in Projections /\ result = Reader!Pending
    BY DEF Init, Reader!Init, Reader!ScanInit
  <2>2. Outcome = Answer!Pending
    BY <2>1 DEF Outcome, ReturnedTable, Answer!Pending
  <2> QED
    BY <2>1, <2>2 DEF Answer!CallInit, AnsweredColumns, Reader!Pending
<1>2. CallInv /\ AnsweredColumns /\ [Next]_vars => [Answer!CallNext]_(Answer!callVars)
  <2> SUFFICES ASSUME CallInv, AnsweredColumns, [Next]_vars
               PROVE  [Answer!CallNext]_(Answer!callVars)
    OBVIOUS
  <2>1. CASE RejectOperator \/ RejectValue \/ RaiseReadError \/ ReturnTable
    BY <2>1, RefusalAnswers, FailureAnswers, TableAnswers DEF Answer!CallNext
  <2>2. CASE ParseTuple \/ StartRead \/ ReaderStep
    <3>1. /\ stage # "done" /\ stage' # "done" /\ UNCHANGED <<file, args, columns, raised>>
      BY <2>2, StepKeepsRequest DEF ParseTuple, StartRead, ReaderStep, call
    <3>2. UNCHANGED Outcome
      BY <3>1 DEF Outcome, ReturnedTable
    <3> QED
      BY <3>1, <3>2 DEF Answer!callVars
  <2>3. CASE Returned \/ UNCHANGED vars
    BY <2>3 DEF Returned, vars, call, reader, Outcome, ReturnedTable, Answer!callVars
  <2> QED
    BY <2>1, <2>2, <2>3 DEF Next
<1> QED
  BY <1>1, <1>2, CallInvariance, StepKeepsColumns, PTL
     DEF Spec, AnswersTheCaller, Answer!CallSpec
=============================================================================

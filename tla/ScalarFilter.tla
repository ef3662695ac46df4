---------------------------- MODULE ScalarFilter ----------------------------
(***************************************************************************)
(* The filter arithmetic of pydart-core: how one literal is compared with  *)
(* the [min, max] statistics of a row group (parquet_filter.rs) and with   *)
(* one row of the column (evaluate_predicate in parquet_io.rs).  Both      *)
(* sides are decided from the same parsed FilterExpr, by two different     *)
(* pieces of code; ReadParquet depends on their agreement.                 *)
(*                                                                         *)
(* Numbers are integers counting units of 1/One, so that fractions exist:  *)
(* the integer n of the code is n*One here, and with One = 2 the number    *)
(* 5.5 is 11.  A string is its rank in the lexicographic order; FALSE and  *)
(* TRUE are 0 and One.  The literal NaN is the value Nan; NaN rows and     *)
(* the sign of zero are not modelled.                                      *)
(***************************************************************************)
EXTENDS Integers

CONSTANTS
  Null,            \* A null row, a null scalar, an absent statistic.
  Nan,             \* The float literal NaN.
  One,             \* Units in the number 1.
  I64Min, I64Max,  \* Bounds of i64, in units.
  F64, F32,        \* The numbers a double and a float can represent.
  Parse(_, _),     \* arrow's cast of a string to a kind of column, or Null.
  Format(_)        \* arrow's cast of a literal to a string.

Distance(x, y) == IF x < y THEN y - x ELSE x - y

(* Rounding to the nearest representable number; a tie goes either way.    *)
Round(S, x) ==
  IF x \in S THEN x
  ELSE CHOOSE y \in S : \A z \in S : Distance(x, y) <= Distance(x, z)

ASSUME ScalarAssumption ==
  /\ Null \notin Int
  /\ Nan \notin Int
  /\ Nan # Null
  /\ One \in Nat \ {0}
  /\ I64Min \in Int /\ I64Max \in Int
  /\ F64 \subseteq Int
  /\ F32 \subseteq F64
  /\ \A x \in I64Min .. I64Max : Round(F64, x) \in F64
  /\ \A x \in F64 \cup I64Min .. I64Max : Round(F32, x) \in F32

(***************************************************************************)
(* Column types, operators and literals.                                   *)
(***************************************************************************)

Op == {"Eq", "Ne", "Lt", "Le", "Gt", "Ge"}

Kinds == {"int", "f64", "f32", "bool", "utf8"}

(* An Arrow DataType: its kind and, for an integer, its bounds in units.   *)
ColumnType == [kind : Kinds, lo : Int, hi : Int]

(* The i64 integers.                                                       *)
I64 == {n \in I64Min .. I64Max : n % One = 0}

ScalarValue ==
  [kind : {"Int64"}, val : I64] \cup [kind : {"Float64"}, val : F64 \cup {Nan}]
  \cup [kind : {"Bool"}, val : {0, One}] \cup [kind : {"Utf8"}, val : Int]

(* The non-null values a column of this type can hold.                     *)
Values(type) ==
  CASE type.kind = "int"  -> {n \in type.lo .. type.hi : n % One = 0}
    [] type.kind = "f64"  -> F64
    [] type.kind = "f32"  -> F32
    [] type.kind = "bool" -> {0, One}
    [] type.kind = "utf8" -> Int

IsNumeric(v) == v.kind \in {"Int64", "Float64"}

(* The absent Option<ScalarValue> of could_match_range.                    *)
NoStat == [kind |-> "None", val |-> Null]

(***************************************************************************)
(* Conversions between numeric representations.                            *)
(***************************************************************************)

AsF64(v) == IF v.kind = "Int64" THEN Round(F64, v.val) ELSE v.val

(* Float to integer conversion drops the fraction, towards zero.           *)
Truncate(x) == IF x < 0 THEN -(((-x) \div One) * One) ELSE (x \div One) * One

(***************************************************************************)
(* compare and its conservative readings le, lt and eq.                    *)
(***************************************************************************)

PartialCmp(x, y) ==
  IF Nan \in {x, y} THEN "None"
  ELSE IF x < y THEN "Less" ELSE IF x = y THEN "Equal" ELSE "Greater"

Compare(a, b) ==
  IF a.kind = b.kind THEN PartialCmp(a.val, b.val)
  ELSE IF IsNumeric(a) /\ IsNumeric(b) THEN PartialCmp(AsF64(a), AsF64(b))
  ELSE "None"

(* Mutant: an incomparable pair read as "no".                              *)
LtIfKnown(a, b) == Compare(a, b) = "Less"

ScalarLe(a, b) == Compare(a, b) # "Greater"
ScalarLt(a, b) == Compare(a, b) \in {"Less", "None"}
ScalarEq(a, b) == Compare(a, b) = "Equal"

(***************************************************************************)
(* Row-group side: may a group whose column lies in [min, max] hold a      *)
(* matching row?                                                           *)
(***************************************************************************)

(* A statistic the code trusts: none for strings, none for a UInt64 beyond *)
(* i64::MAX, none when the writer recorded none.                           *)
Trusted(type, x) ==
  x # Null /\ type.kind # "utf8" /\ (type.kind = "int" => x <= I64Max)

StatKind(type) ==
  CASE type.kind = "int" -> "Int64" [] type.kind = "bool" -> "Bool" [] OTHER -> "Float64"

(* Mutant: `as i64` where the code has try_from.                           *)
WrappingScalar(type, x) ==
  IF x = Null \/ type.kind = "utf8" THEN NoStat
  ELSE [kind |-> StatKind(type),
        val  |-> IF type.kind = "int" /\ x > I64Max THEN x - (I64Max - I64Min + One) ELSE x]

ScalarFromArray(type, x) ==
  IF Trusted(type, x) THEN [kind |-> StatKind(type), val |-> x] ELSE NoStat

(* Mutant: the strict comparisons keep a group they just miss.             *)
KeepsAtTheBounds(op, value, min, max) ==
  \/ min = NoStat \/ max = NoStat
  \/ op = "Eq" /\ ScalarLe(min, value) /\ ScalarLe(value, max)
  \/ op = "Ne" /\ ~(ScalarEq(min, max) /\ ScalarEq(min, value))
  \/ op \in {"Lt", "Le"} /\ ScalarLe(min, value)
  \/ op \in {"Gt", "Ge"} /\ ScalarLe(value, max)

CouldMatchRange(op, value, min, max) ==
  \/ min = NoStat \/ max = NoStat
  \/ op = "Eq" /\ ScalarLe(min, value) /\ ScalarLe(value, max)
  \/ op = "Ne" /\ ~(ScalarEq(min, max) /\ ScalarEq(min, value))
  \/ op = "Lt" /\ ScalarLt(min, value)
  \/ op = "Le" /\ ScalarLe(min, value)
  \/ op = "Gt" /\ ScalarLt(value, max)
  \/ op = "Ge" /\ ScalarLe(value, max)

(***************************************************************************)
(* Row side: evaluate_predicate on one row x of the column.                *)
(***************************************************************************)

(* arrow's cmp kernels: total order, NaN above every number.               *)
Holds(op, x, y) ==
  CASE op = "Eq" -> x = y
    [] op = "Ne" -> x # y
    [] op = "Lt" -> y = Nan \/ x < y
    [] op = "Le" -> y = Nan \/ x <= y
    [] op = "Gt" -> y # Nan /\ x > y
    [] op = "Ge" -> y # Nan /\ x >= y

(* arrow::compute::cast of the literal to the column type: safe, so a      *)
(* value that does not fit becomes null.                                   *)
CastToInt(v, type) ==
  LET n == IF v.kind = "Float64" THEN Truncate(v.val) ELSE v.val
  IN  IF v.val # Nan /\ type.lo <= n /\ n <= type.hi THEN n ELSE Null

CastText(v, type) ==
  IF v.kind # "Utf8" THEN Format(v)
  ELSE IF type.kind # "utf8" THEN Parse(v.val, type.kind) ELSE v.val

Cast(v, type) ==
  IF v.kind = "Utf8" \/ type.kind = "utf8" THEN CastText(v, type)
  ELSE CASE type.kind = "int"  -> CastToInt(v, type)
         [] type.kind = "f64"  -> AsF64(v)
         [] type.kind = "f32"  -> IF v.val = Nan THEN Nan ELSE Round(F32, v.val)
         [] type.kind = "bool" -> IF v.val = 0 THEN 0 ELSE One

(* Mutant: the guard forgets the lower bound.                              *)
AboveRange(v, type) == v.kind = "Int64" /\ type.kind = "int" /\ v.val > type.hi

(* The D-26 guard, for Int64 literals only.                                *)
OutOfRange(v, type) ==
  /\ v.kind = "Int64" /\ type.kind = "int"
  /\ v.val > type.hi \/ v.val < type.lo

(* Mutant: every literal out of range taken to lie above the column.       *)
AllRowsBelow(op, v, type) == op \in {"Ne", "Lt", "Le"}

AllRowsMatch(op, v, type) ==
  IF v.val > type.hi THEN op \in {"Ne", "Lt", "Le"} ELSE op \in {"Ne", "Gt", "Ge"}

EvaluatePredicate(type, op, v, x) ==
  /\ x # Null
  /\ IF OutOfRange(v, type) THEN AllRowsMatch(op, v, type)
     ELSE Cast(v, type) # Null /\ Holds(op, x, Cast(v, type))

(***************************************************************************)
(* Reference: what "column op literal" means, with no width, no cast and   *)
(* no rounding.  Defined where the two sides are of one family.            *)
(***************************************************************************)

Comparable(type, v) ==
  \/ type.kind \in {"int", "f64", "f32"} /\ IsNumeric(v)
  \/ type.kind = "bool" /\ v.kind = "Bool"
  \/ type.kind = "utf8" /\ v.kind = "Utf8"

Satisfies(op, x, v) == x # Null /\ Holds(op, x, v.val)

(* The literal survives the cast to the column type unchanged, or is an    *)
(* integer beyond an integer column's bounds, which the guard handles.     *)
Exact(type, v) ==
  /\ Comparable(type, v)
  /\ OutOfRange(v, type) \/ Cast(v, type) = v.val

(* Literal and column types whose two comparisons see the same number:     *)
(* compare gives up on the pair, or neither side rounds or truncates.      *)
SameNumber(type, v) ==
  \/ type.kind \in {"bool", "utf8", "f64"} \/ ~IsNumeric(v)
  \/ type.kind = "int" /\ v.kind = "Int64"
  \/ type.kind = "int" /\ Cast(v, type) = v.val /\ Values(type) \subseteq F64
  \/ type.kind = "f32" /\ Cast(v, type) = AsF64(v)

(* Literal and column type that compare as numbers on both sides.          *)
Decidable(type, v) == Comparable(type, v) /\ SameNumber(type, v) /\ v.val # Nan
=============================================================================

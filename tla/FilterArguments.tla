--------------------------- MODULE FilterArguments ---------------------------
(***************************************************************************)
(* The filters argument of Table.from_parquet: a list of Python tuples     *)
(* (column, operator, value).  How an operator string and a Python value   *)
(* become the Op and the ScalarValue of a FilterExpr (table.rs), which     *)
(* exception a refused tuple raises (error.rs), and, beside the code, what *)
(* a caller means by a tuple.                                              *)
(***************************************************************************)
EXTENDS ScalarFilter

CONSTANT F64Max  \* A Python int of greater magnitude has no double.

(* A Python value.  "decimal" stands for objects with __float__ but not    *)
(* __index__, and "other" for those that are no number, bool or str.       *)
PyValue ==
  [type : {"bool"}, val : {0, One}]
  \cup [type : {"int"}, val : {n \in Int : n % One = 0}]
  \cup [type : {"float"}, val : F64 \cup {Nan}]
  \cup [type : {"decimal"}, val : -F64Max .. F64Max]
  \cup [type : {"str", "other"}, val : Int]

ASSUME ArgumentAssumption ==
  /\ F64Max \in Nat
  /\ \A x \in -F64Max .. F64Max : Round(F64, x) \in F64

(***************************************************************************)
(* parse_filter_operator and parse_filter_value.                           *)
(***************************************************************************)

Operators == {"==", "!=", "<", "<=", ">", ">="}

OpOf ==
  [o \in Operators |->
     CASE o = "==" -> "Eq" [] o = "!=" -> "Ne"
       [] o = "<"  -> "Lt" [] o = "<=" -> "Le"
       [] o = ">"  -> "Gt" [] o = ">=" -> "Ge"]

(* What PyO3 extracts as i64 and as f64: through __index__, within i64, or *)
(* through the object's double.                                            *)
HasI64(v) == v.type \in {"bool", "int"} /\ v.val \in I64

HasF64(v) ==
  \/ v.type \in {"float", "decimal"}
  \/ v.type \in {"bool", "int"} /\ v.val \in -F64Max .. F64Max

Double(v) == IF v.val = Nan THEN Nan ELSE Round(F64, v.val)

Unsupported == NoStat

(* Mutant: f64 is tried before i64.                                        *)
ParseDoubleFirst(v) ==
  IF v.type = "bool"  THEN [kind |-> "Bool",    val |-> v.val]
  ELSE IF HasF64(v)   THEN [kind |-> "Float64", val |-> Double(v)]
  ELSE IF v.type = "str" THEN [kind |-> "Utf8", val |-> v.val]
  ELSE Unsupported

(* The extractions, in the order they are tried.                           *)
ParseFilterValue(v) ==
  IF v.type = "bool"  THEN [kind |-> "Bool",    val |-> v.val]
  ELSE IF HasI64(v)   THEN [kind |-> "Int64",   val |-> v.val]
  ELSE IF HasF64(v)   THEN [kind |-> "Float64", val |-> Double(v)]
  ELSE IF v.type = "str" THEN [kind |-> "Utf8", val |-> v.val]
  ELSE Unsupported

(* impl From<PydartError> for PyErr, for the errors of from_parquet on one *)
(* file that is there.                                                     *)
PyErr ==
  [UnsupportedFilterOperator |-> "PydartError",
   Other                     |-> "ValueError",
   ParquetReadError          |-> "ValueError"]

(***************************************************************************)
(* Reference: what a tuple asks of a row x, and which tuples from_parquet  *)
(* can honour to the letter.                                               *)
(***************************************************************************)

PyNumber == {"int", "float", "decimal"}

(* The tuple compares like with like.                                      *)
Meaningful(type, v) ==
  \/ type.kind \in {"int", "f64", "f32"} /\ v.type \in PyNumber /\ v.val # Nan
  \/ type.kind = "bool" /\ v.type = "bool"
  \/ type.kind = "utf8" /\ v.type = "str"

Means(o, x, v) ==
  /\ x # Null
  /\ \/ o = "==" /\ x = v.val
     \/ o = "!=" /\ x # v.val
     \/ o = "<"  /\ x < v.val
     \/ o = "<=" /\ x <= v.val
     \/ o = ">"  /\ x > v.val
     \/ o = ">=" /\ x >= v.val

(* Any i64 on an integer column; else a number the column can hold, which  *)
(* is also a double, and, on an integer column, if all its integers are.   *)
Representable(type, v) ==
  /\ Meaningful(type, v)
  /\ \/ type.kind \in {"bool", "utf8"}
     \/ type.kind = "int" /\ v.type = "int" /\ v.val \in I64
     \/ /\ v.val \in Values(type) \cap F64
        /\ type.kind = "int" => Values(type) \subseteq F64

(* The tuples the pruning and the row filter read alike: either one gives  *)
(* up on the pair or compares doubles, or the value is a number of the     *)
(* column, or an i64.                                                      *)
ReadAlike(type, v) ==
  \/ type.kind \in {"bool", "utf8", "f64"}
  \/ v.type \in {"bool", "str"}
  \/ Representable(type, v)

(* The tuple is no filter at all.                                          *)
Malformed(t) ==
  \/ t.operator \notin Operators
  \/ t.value.type = "other"
  \/ t.value.type = "int" /\ t.value.val \notin I64 \cup (-F64Max .. F64Max)
=============================================================================

------------------------- MODULE ScalarFilterProofs -------------------------
(***************************************************************************)
(* The two halves of predicate pushdown agree: whenever the row filter     *)
(* accepts a row, the statistics of the row's group keep the group, for    *)
(* every width of integer, every set of doubles and floats, and every      *)
(* literal whose two comparisons see the same number.                      *)
(***************************************************************************)
EXTENDS ScalarFilter, TLAPS

(* If both statistics compare with the literal as with one number w, and   *)
(* the row x between them compares with w as asked, the group is kept.     *)
(* This is the decision table of could_match_range.                        *)
LEMMA TableIsSound ==
  ASSUME NEW op \in Op, NEW v, NEW min, NEW max,
         NEW x \in Int, NEW w \in Int \cup {Nan},
         min.val \in Int, max.val \in Int,
         min.val <= x, x <= max.val,
         Compare(min, max) = PartialCmp(min.val, max.val),
         Compare(min, v) = PartialCmp(min.val, w),
         Compare(v, max) = PartialCmp(w, max.val),
         Holds(op, x, w)
  PROVE  CouldMatchRange(op, v, min, max)
<1> DEFINE lo == min.val
           hi == max.val
<1>0. /\ lo \in Int /\ hi \in Int /\ lo <= x /\ x <= hi
      /\ Nan \notin Int
  BY ScalarAssumption
<1>1. CASE w = Nan
  <2>1. PartialCmp(lo, w) = "None" /\ PartialCmp(w, hi) = "None"
    BY <1>1 DEF PartialCmp
  <2>2. ScalarLe(min, v) /\ ScalarLe(v, max) /\ ScalarLt(min, v) /\ ScalarLt(v, max)
        /\ ~ScalarEq(min, v)
    BY <2>1 DEF ScalarLe, ScalarLt, ScalarEq
  <2> QED
    BY <2>2 DEF CouldMatchRange, Op
<1>2. CASE w \in Int
  <2>1. /\ PartialCmp(lo, w) = IF lo < w THEN "Less" ELSE IF lo = w THEN "Equal" ELSE "Greater"
        /\ PartialCmp(w, hi) = IF w < hi THEN "Less" ELSE IF w = hi THEN "Equal" ELSE "Greater"
        /\ PartialCmp(lo, hi) = IF lo < hi THEN "Less" ELSE IF lo = hi THEN "Equal" ELSE "Greater"
    BY <1>0, <1>2 DEF PartialCmp
  <2>2. /\ ScalarLe(min, v) <=> lo <= w
        /\ ScalarLt(min, v) <=> lo < w
        /\ ScalarEq(min, v) <=> lo = w
        /\ ScalarLe(v, max) <=> w <= hi
        /\ ScalarLt(v, max) <=> w < hi
        /\ ScalarEq(min, max) <=> lo = hi
    BY <1>0, <1>2, <2>1 DEF ScalarLe, ScalarLt, ScalarEq
  <2>3. /\ op = "Eq" => x = w
        /\ op = "Ne" => x # w
        /\ op = "Lt" => x < w
        /\ op = "Le" => x <= w
        /\ op = "Gt" => x > w
        /\ op = "Ge" => x >= w
    BY <1>0, <1>2 DEF Holds
  <2>4. CASE op = "Eq"
    BY <1>0, <1>2, <2>2, <2>3, <2>4 DEF CouldMatchRange
  <2>5. CASE op = "Ne"
    BY <1>0, <1>2, <2>2, <2>3, <2>5 DEF CouldMatchRange
  <2>6. CASE op = "Lt" \/ op = "Le"
    BY <1>0, <1>2, <2>2, <2>3, <2>6 DEF CouldMatchRange
  <2>7. CASE op = "Gt" \/ op = "Ge"
    BY <1>0, <1>2, <2>2, <2>3, <2>7 DEF CouldMatchRange
  <2> QED
    BY <2>4, <2>5, <2>6, <2>7 DEF Op
<1> QED
  BY <1>1, <1>2

(* A literal that cannot be compared with the statistics keeps the group.  *)
LEMMA IncomparableKeeps ==
  ASSUME NEW op \in Op, NEW v, NEW min, NEW max,
         Compare(min, v) = "None", Compare(v, max) = "None"
  PROVE  CouldMatchRange(op, v, min, max)
  BY DEF CouldMatchRange, ScalarLe, ScalarLt, ScalarEq, Op

(* An integer literal against an integer column of any width: whether the  *)
(* guard or the cast decides, a row is accepted exactly when the integers  *)
(* compare as asked.                                                       *)
LEMMA IntegerPredicate ==
  ASSUME NEW type \in ColumnType, type.kind = "int",
         NEW v \in ScalarValue, v.kind = "Int64",
         NEW op \in Op, NEW x \in Values(type)
  PROVE  EvaluatePredicate(type, op, v, x) <=> Holds(op, x, v.val)
<1>1. /\ x \in Int /\ type.lo <= x /\ x <= type.hi /\ x # Null
      /\ v.val \in Int /\ v.val # Nan /\ v.val # Null
      /\ type.lo \in Int /\ type.hi \in Int
  BY ScalarAssumption DEF Values, ColumnType, ScalarValue, I64
<1>2. CASE OutOfRange(v, type)
  <2>1. v.val > type.hi \/ v.val < type.lo
    BY <1>2 DEF OutOfRange
  <2>2. CASE v.val > type.hi
    <3>1. x < v.val /\ x # v.val /\ x <= v.val /\ ~(x > v.val) /\ ~(x >= v.val)
      BY <1>1, <2>2
    <3>2. AllRowsMatch(op, v, type) <=> op \in {"Ne", "Lt", "Le"}
      BY <2>2 DEF AllRowsMatch
    <3>3. Holds(op, x, v.val) <=> op \in {"Ne", "Lt", "Le"}
      BY <1>1, <3>1 DEF Holds, Op
    <3> QED
      BY <1>1, <1>2, <3>2, <3>3 DEF EvaluatePredicate
  <2>3. CASE ~(v.val > type.hi)
    <3>1. x > v.val /\ x # v.val /\ x >= v.val /\ ~(x < v.val) /\ ~(x <= v.val)
      BY <1>1, <2>1, <2>3
    <3>2. AllRowsMatch(op, v, type) <=> op \in {"Ne", "Gt", "Ge"}
      BY <2>3 DEF AllRowsMatch
    <3>3. Holds(op, x, v.val) <=> op \in {"Ne", "Gt", "Ge"}
      BY <1>1, <3>1 DEF Holds, Op
    <3> QED
      BY <1>1, <1>2, <3>2, <3>3 DEF EvaluatePredicate
  <2> QED
    BY <2>2, <2>3
<1>3. CASE ~OutOfRange(v, type)
  <2>1. type.lo <= v.val /\ v.val <= type.hi
    BY <1>1, <1>3 DEF OutOfRange
  <2>2. Cast(v, type) = v.val
    BY <1>1, <2>1 DEF Cast, CastToInt
  <2> QED
    BY <1>1, <1>3, <2>2 DEF EvaluatePredicate
<1> QED
  BY <1>2, <1>3

(* When the literal survives the cast, or the guard stands in for it, the  *)
(* row filter decides what the filter means.                               *)
LEMMA ExactPredicate ==
  ASSUME NEW type \in ColumnType, NEW v \in ScalarValue, NEW op \in Op,
         NEW x \in Values(type) \cup {Null},
         Exact(type, v)
  PROVE  EvaluatePredicate(type, op, v, x) <=> Satisfies(op, x, v)
<1>1. CASE x = Null
  BY <1>1 DEF EvaluatePredicate, Satisfies
<1>2. CASE x # Null /\ OutOfRange(v, type)
  <2>1. type.kind = "int" /\ v.kind = "Int64" /\ x \in Values(type)
    BY <1>2 DEF OutOfRange
  <2>2. EvaluatePredicate(type, op, v, x) <=> Holds(op, x, v.val)
    BY <2>1, IntegerPredicate
  <2> QED
    BY <1>2, <2>2 DEF Satisfies
<1>3. CASE x # Null /\ ~OutOfRange(v, type)
  <2>1. Cast(v, type) = v.val
    BY <1>3 DEF Exact
  <2>2. v.val \in Int \cup {Nan}
    <3>1. F64 \subseteq Int /\ I64 \subseteq Int /\ {0, One} \subseteq Int
      BY ScalarAssumption DEF I64
    <3> QED
      BY <3>1 DEF ScalarValue
  <2> QED
    BY <1>3, <2>1, <2>2, ScalarAssumption DEF EvaluatePredicate, Satisfies
<1> QED
  BY <1>1, <1>2, <1>3

(* The statistics the code trusts are numbers of the column, of one kind   *)
(* of ScalarValue, and compare with one another as numbers.                *)
LEMMA TrustedStatistics ==
  ASSUME NEW type \in ColumnType,
         NEW m \in Values(type) \cup {Null}, NEW n \in Values(type) \cup {Null},
         Trusted(type, m), Trusted(type, n)
  PROVE  LET min == ScalarFromArray(type, m)
             max == ScalarFromArray(type, n)
         IN  /\ m \in Int /\ n \in Int
             /\ min = [kind |-> StatKind(type), val |-> m]
             /\ max = [kind |-> StatKind(type), val |-> n]
             /\ Compare(min, max) = PartialCmp(m, n)
<1>1. m \in Values(type) /\ n \in Values(type) /\ type.kind \in Kinds \ {"utf8"}
  BY DEF Trusted, ColumnType
<1>2. m \in Int /\ n \in Int
  BY <1>1, ScalarAssumption DEF Values, Kinds, ColumnType
<1> QED
  BY <1>2 DEF ScalarFromArray, Compare

(* Over-pruning never happens: a row the row filter accepts lies in a      *)
(* group that could_match_range keeps, whatever valid statistics the group *)
(* has, provided literal and column see the same number.                   *)
THEOREM PruningIsSound ==
  ASSUME NEW type \in ColumnType, NEW v \in ScalarValue, NEW op \in Op,
         NEW x \in Values(type),
         NEW m \in Values(type) \cup {Null}, NEW n \in Values(type) \cup {Null},
         m # Null => m <= x, n # Null => x <= n,
         SameNumber(type, v),
         EvaluatePredicate(type, op, v, x)
  PROVE  CouldMatchRange(op, v, ScalarFromArray(type, m), ScalarFromArray(type, n))
<1> DEFINE min == ScalarFromArray(type, m)
           max == ScalarFromArray(type, n)
           Goal == CouldMatchRange(op, v, min, max)
<1>1. CASE ~Trusted(type, m) \/ ~Trusted(type, n)
  BY <1>1 DEF ScalarFromArray, CouldMatchRange
<1>2. CASE Trusted(type, m) /\ Trusted(type, n)
  <2>1. /\ m \in Int /\ n \in Int
        /\ min = [kind |-> StatKind(type), val |-> m]
        /\ max = [kind |-> StatKind(type), val |-> n]
        /\ Compare(min, max) = PartialCmp(m, n)
    BY <1>2, TrustedStatistics
  <2>2. m # Null /\ n # Null /\ type.kind \in Kinds \ {"utf8"}
    BY <1>2 DEF Trusted, ColumnType
  <2>3. x \in Int /\ m <= x /\ x <= n
    BY <2>2, ScalarAssumption DEF Values, Kinds, ColumnType
  <2>4. ASSUME NEW w \in Int \cup {Nan},
               Compare(min, v) = PartialCmp(m, w),
               Compare(v, max) = PartialCmp(w, n),
               Holds(op, x, w)
        PROVE  Goal
    <3>1. min.val = m /\ max.val = n
      BY <2>1
    <3> HIDE DEF min, max
    <3> QED
      BY <2>1, <2>3, <2>4, <3>1, TableIsSound
  <2>5. CASE StatKind(type) # v.kind /\ ~(StatKind(type) \in {"Int64", "Float64"} /\ IsNumeric(v))
    <3>1. Compare(min, v) = "None" /\ Compare(v, max) = "None"
      BY <2>1, <2>5 DEF Compare, IsNumeric
    <3> QED
      BY <3>1, IncomparableKeeps
  <2>6. CASE type.kind = "bool" /\ v.kind = "Bool"
    <3>1. Compare(min, v) = PartialCmp(m, v.val) /\ Compare(v, max) = PartialCmp(v.val, n)
      BY <2>1, <2>6 DEF Compare, StatKind
    <3>2. v.val \in {0, One}
      BY <2>6 DEF ScalarValue
    <3>3. Cast(v, type) = v.val
      BY <2>6, <3>2, ScalarAssumption DEF Cast
    <3>4. ~OutOfRange(v, type)
      BY <2>6 DEF OutOfRange
    <3>5. Holds(op, x, v.val)
      BY <3>3, <3>4 DEF EvaluatePredicate
    <3> QED
      BY <2>4, <3>1, <3>2, <3>5, ScalarAssumption
  <2>7. CASE type.kind = "int" /\ v.kind = "Int64"
    <3>1. Compare(min, v) = PartialCmp(m, v.val) /\ Compare(v, max) = PartialCmp(v.val, n)
      BY <2>1, <2>7 DEF Compare, StatKind
    <3>2. v.val \in Int
      BY <2>7, ScalarAssumption DEF ScalarValue, I64
    <3>3. Holds(op, x, v.val)
      BY <2>7, IntegerPredicate
    <3> QED
      BY <2>4, <3>1, <3>2, <3>3
  <2>8. CASE type.kind = "int" /\ v.kind = "Float64"
    <3>1. Cast(v, type) = v.val /\ Values(type) \subseteq F64
      BY <2>8 DEF SameNumber, IsNumeric
    <3>2. m \in F64 /\ n \in F64
      BY <2>2, <3>1
    <3>3. AsF64(min) = m /\ AsF64(max) = n /\ AsF64(v) = v.val
      BY <2>1, <2>8, <3>2 DEF AsF64, StatKind, Round
    <3>4. Compare(min, v) = PartialCmp(m, v.val) /\ Compare(v, max) = PartialCmp(v.val, n)
      BY <2>1, <2>8, <3>3 DEF Compare, StatKind, IsNumeric
    <3>5. v.val \in Int \cup {Nan}
      BY <2>8, ScalarAssumption DEF ScalarValue
    <3>6. Holds(op, x, v.val)
      BY <2>8, <3>1 DEF EvaluatePredicate, OutOfRange
    <3> QED
      BY <2>4, <3>4, <3>5, <3>6
  <2>9. CASE type.kind \in {"f64", "f32"} /\ IsNumeric(v)
    <3> DEFINE w == AsF64(v)
    <3>1. w \in Int \cup {Nan}
      BY <2>9, ScalarAssumption DEF AsF64, IsNumeric, ScalarValue, I64
    <3>2. Compare(min, v) = PartialCmp(m, w) /\ Compare(v, max) = PartialCmp(w, n)
      BY <2>1, <2>9 DEF Compare, StatKind, IsNumeric, AsF64
    <3>3. Cast(v, type) = w
      BY <2>9 DEF Cast, SameNumber, IsNumeric
    <3>4. Holds(op, x, w)
      BY <2>9, <3>3 DEF EvaluatePredicate, OutOfRange
    <3> QED
      BY <2>4, <3>1, <3>2, <3>4
  <2>10. v.kind \in {"Int64", "Float64", "Bool", "Utf8"}
    BY DEF ScalarValue
  <2> QED
    BY <2>2, <2>5, <2>6, <2>7, <2>8, <2>9, <2>10 DEF StatKind, IsNumeric, Kinds
<1> QED
  BY <1>1, <1>2
-----------------------------------------------------------------------------
(***************************************************************************)
(* The converse: could_match_range keeps no more than the bounds require.  *)
(***************************************************************************)

(* A number without a fraction is what truncation leaves.                  *)
LEMMA TruncateIsWhole ==
  ASSUME NEW n \in Int
  PROVE  Truncate(n) \in Int /\ Truncate(n) % One = 0
<1>1. One \in Nat \ {0}
  BY ScalarAssumption
<1>2. \A q \in Int : (q * One) % One = 0 /\ q * One \in Int
  BY <1>1
<1>3. CASE n < 0
  <2>1. PICK q \in Int : q = -((-n) \div One)
    BY <1>1
  <2>2. Truncate(n) = q * One
    BY <1>1, <1>3, <2>1 DEF Truncate
  <2> QED
    BY <1>2, <2>1, <2>2
<1>4. CASE n >= 0
  <2>1. n \div One \in Int
    BY <1>1
  <2>2. Truncate(n) = (n \div One) * One
    BY <1>4 DEF Truncate
  <2> QED
    BY <1>2, <2>1, <2>2
<1> QED
  BY <1>3, <1>4

(* The same decision table the other way round: a group that is kept has a *)
(* bound, or the number w itself between its bounds, that compares as      *)
(* asked.                                                                  *)
LEMMA TableIsSharp ==
  ASSUME NEW op \in Op, NEW v, NEW min, NEW max, NEW w \in Int,
         min.val \in Int, max.val \in Int, min.val <= max.val,
         min # NoStat, max # NoStat,
         Compare(min, max) = PartialCmp(min.val, max.val),
         Compare(min, v) = PartialCmp(min.val, w),
         Compare(v, max) = PartialCmp(w, max.val),
         CouldMatchRange(op, v, min, max)
  PROVE  \/ Holds(op, min.val, w)
         \/ Holds(op, max.val, w)
         \/ min.val <= w /\ w <= max.val /\ Holds(op, w, w)
<1> DEFINE lo == min.val
           hi == max.val
<1>0. lo \in Int /\ hi \in Int /\ lo <= hi /\ Nan \notin Int /\ w # Nan
  BY ScalarAssumption
<1>1. /\ PartialCmp(lo, w) = IF lo < w THEN "Less" ELSE IF lo = w THEN "Equal" ELSE "Greater"
      /\ PartialCmp(w, hi) = IF w < hi THEN "Less" ELSE IF w = hi THEN "Equal" ELSE "Greater"
      /\ PartialCmp(lo, hi) = IF lo < hi THEN "Less" ELSE IF lo = hi THEN "Equal" ELSE "Greater"
  BY <1>0 DEF PartialCmp
<1>2. /\ ScalarLe(min, v) <=> lo <= w
      /\ ScalarLt(min, v) <=> lo < w
      /\ ScalarEq(min, v) <=> lo = w
      /\ ScalarLe(v, max) <=> w <= hi
      /\ ScalarLt(v, max) <=> w < hi
      /\ ScalarEq(min, max) <=> lo = hi
  BY <1>0, <1>1 DEF ScalarLe, ScalarLt, ScalarEq
<1>3. CASE op = "Eq"
  BY <1>0, <1>2, <1>3 DEF CouldMatchRange, Holds
<1>4. CASE op = "Ne"
  BY <1>0, <1>2, <1>4 DEF CouldMatchRange, Holds
<1>5. CASE op = "Lt" \/ op = "Le"
  BY <1>0, <1>2, <1>5 DEF CouldMatchRange, Holds
<1>6. CASE op = "Gt" \/ op = "Ge"
  BY <1>0, <1>2, <1>6 DEF CouldMatchRange, Holds
<1> QED
  BY <1>3, <1>4, <1>5, <1>6 DEF Op

(* The number both sides compare with, for a literal that is a number.     *)
LEMMA OneNumber ==
  ASSUME NEW type \in ColumnType, NEW v \in ScalarValue, Decidable(type, v),
         NEW m \in Values(type), NEW n \in Values(type),
         Trusted(type, m), Trusted(type, n)
  PROVE  \E w \in Int :
           /\ Compare(ScalarFromArray(type, m), v) = PartialCmp(m, w)
           /\ Compare(v, ScalarFromArray(type, n)) = PartialCmp(w, n)
           /\ \A op \in Op : \A x \in Values(type) :
                EvaluatePredicate(type, op, v, x) <=> Holds(op, x, w)
           /\ m <= w /\ w <= n => w \in Values(type)
<1> DEFINE min == ScalarFromArray(type, m)
           max == ScalarFromArray(type, n)
<1>1. /\ m \in Int /\ n \in Int
      /\ min = [kind |-> StatKind(type), val |-> m]
      /\ max = [kind |-> StatKind(type), val |-> n]
  BY TrustedStatistics
<1>2. type.kind \in Kinds \ {"utf8"} /\ v.val # Nan /\ Comparable(type, v) /\ SameNumber(type, v)
  BY DEF Trusted, ColumnType, Decidable
<1>3. \A x \in Values(type) : x \in Int /\ x # Null
  BY <1>2, ScalarAssumption DEF Values, Kinds, ColumnType
<1>4. CASE type.kind = "bool"
  <2>1. v.kind = "Bool" /\ v.val \in {0, One}
    BY <1>2, <1>4 DEF Comparable, ScalarValue
  <2>2. Compare(min, v) = PartialCmp(m, v.val) /\ Compare(v, max) = PartialCmp(v.val, n)
    BY <1>1, <1>4, <2>1 DEF Compare, StatKind
  <2>3. Cast(v, type) = v.val /\ ~OutOfRange(v, type) /\ v.val \in Int /\ v.val # Null
    BY <1>4, <2>1, ScalarAssumption DEF Cast, OutOfRange
  <2>4. \A op \in Op : \A x \in Values(type) :
          EvaluatePredicate(type, op, v, x) <=> Holds(op, x, v.val)
    BY <1>3, <2>3 DEF EvaluatePredicate
  <2>5. v.val \in Values(type)
    BY <1>4, <2>1 DEF Values
  <2> QED
    BY <2>2, <2>3, <2>4, <2>5
<1>5. CASE type.kind = "int" /\ v.kind = "Int64"
  <2>1. v.val \in Int /\ v.val % One = 0
    BY <1>5, ScalarAssumption DEF ScalarValue, I64
  <2>2. Compare(min, v) = PartialCmp(m, v.val) /\ Compare(v, max) = PartialCmp(v.val, n)
    BY <1>1, <1>5 DEF Compare, StatKind
  <2>3. \A op \in Op : \A x \in Values(type) :
          EvaluatePredicate(type, op, v, x) <=> Holds(op, x, v.val)
    BY <1>5, IntegerPredicate
  <2>4. m <= v.val /\ v.val <= n => v.val \in Values(type)
    BY <1>1, <1>5, <2>1 DEF Values, ColumnType
  <2> QED
    BY <2>1, <2>2, <2>3, <2>4
<1>6. CASE type.kind = "int" /\ v.kind = "Float64"
  <2>1. Cast(v, type) = v.val /\ Values(type) \subseteq F64
    BY <1>2, <1>6 DEF SameNumber, IsNumeric
  <2>2. v.val \in Int /\ v.val # Null
    BY <1>2, <1>6, ScalarAssumption DEF ScalarValue
  <2>3. AsF64(min) = m /\ AsF64(max) = n /\ AsF64(v) = v.val
    BY <1>1, <1>6, <2>1 DEF AsF64, StatKind, Round
  <2>4. Compare(min, v) = PartialCmp(m, v.val) /\ Compare(v, max) = PartialCmp(v.val, n)
    BY <1>1, <1>6, <2>3 DEF Compare, StatKind, IsNumeric
  <2>5. \A op \in Op : \A x \in Values(type) :
          EvaluatePredicate(type, op, v, x) <=> Holds(op, x, v.val)
    BY <1>3, <1>6, <2>1, <2>2 DEF EvaluatePredicate, OutOfRange
  <2>6. Cast(v, type) = Truncate(v.val)
    BY <1>6, <2>1, <2>2 DEF Cast, CastToInt
  <2>7. v.val % One = 0
    BY <2>1, <2>2, <2>6, TruncateIsWhole
  <2>8. m <= v.val /\ v.val <= n => v.val \in Values(type)
    BY <1>1, <1>6, <2>2, <2>7 DEF Values, ColumnType
  <2> QED
    BY <2>2, <2>4, <2>5, <2>8
<1>7. CASE type.kind \in {"f64", "f32"}
  <2> DEFINE w == AsF64(v)
  <2>1. IsNumeric(v)
    BY <1>2, <1>7 DEF Comparable
  <2>2. w \in F64 /\ w \in Int /\ w # Null
    BY <1>2, <2>1, ScalarAssumption DEF AsF64, IsNumeric, ScalarValue, I64
  <2>3. Compare(min, v) = PartialCmp(m, w) /\ Compare(v, max) = PartialCmp(w, n)
    BY <1>1, <1>7, <2>1 DEF Compare, StatKind, IsNumeric, AsF64
  <2>4. Cast(v, type) = w
    BY <1>2, <1>7, <2>1 DEF Cast, SameNumber, IsNumeric
  <2>5. \A op \in Op : \A x \in Values(type) :
          EvaluatePredicate(type, op, v, x) <=> Holds(op, x, w)
    BY <1>3, <1>7, <2>2, <2>4 DEF EvaluatePredicate, OutOfRange
  <2>6. w \in Values(type)
    <3>1. CASE type.kind = "f64"
      BY <2>2, <3>1 DEF Values
    <3>2. CASE type.kind = "f32"
      <4>1. v.val \in F64 \cup I64Min .. I64Max
        BY <1>2, <2>1 DEF IsNumeric, ScalarValue, I64
      <4>2. w = Round(F32, v.val)
        BY <1>2, <2>1, <2>4, <3>2 DEF Cast, IsNumeric
      <4> QED
        BY <3>2, <4>1, <4>2, ScalarAssumption DEF Values
    <3> QED
      BY <1>7, <3>1, <3>2
  <2> QED
    BY <2>2, <2>3, <2>5, <2>6
<1>8. type.kind = "int" => v.kind \in {"Int64", "Float64"}
  BY <1>2 DEF Comparable, IsNumeric
<1> QED
  BY <1>2, <1>4, <1>5, <1>6, <1>7, <1>8 DEF Kinds

(* Pruning is as sharp as the statistics allow: a group whose trusted      *)
(* bounds could_match_range lets pass has a value between them, of the     *)
(* column's type, that the row filter would accept.                        *)
THEOREM PruningIsTight ==
  ASSUME NEW type \in ColumnType, NEW v \in ScalarValue, NEW op \in Op,
         NEW m \in Values(type), NEW n \in Values(type), m <= n,
         Trusted(type, m), Trusted(type, n), Decidable(type, v),
         CouldMatchRange(op, v, ScalarFromArray(type, m), ScalarFromArray(type, n))
  PROVE  \E x \in Values(type) : m <= x /\ x <= n /\ EvaluatePredicate(type, op, v, x)
<1> DEFINE min == ScalarFromArray(type, m)
           max == ScalarFromArray(type, n)
<1>1. /\ m \in Int /\ n \in Int
      /\ min = [kind |-> StatKind(type), val |-> m]
      /\ max = [kind |-> StatKind(type), val |-> n]
      /\ Compare(min, max) = PartialCmp(m, n)
  BY TrustedStatistics
<1>2. PICK w \in Int :
        /\ Compare(min, v) = PartialCmp(m, w)
        /\ Compare(v, max) = PartialCmp(w, n)
        /\ \A x \in Values(type) : EvaluatePredicate(type, op, v, x) <=> Holds(op, x, w)
        /\ m <= w /\ w <= n => w \in Values(type)
  BY OneNumber
<1>3. min # NoStat /\ max # NoStat /\ min.val = m /\ max.val = n
  BY <1>1, ScalarAssumption DEF NoStat
<1>4. Holds(op, m, w) \/ Holds(op, n, w) \/ (m <= w /\ w <= n /\ Holds(op, w, w))
  <2>1. CouldMatchRange(op, v, min, max)
    OBVIOUS
  <2>2. min.val \in Int /\ max.val \in Int /\ min.val <= max.val
    BY <1>1, <1>3
  <2>3. /\ Compare(min, max) = PartialCmp(min.val, max.val)
        /\ Compare(min, v) = PartialCmp(min.val, w)
        /\ Compare(v, max) = PartialCmp(w, max.val)
    BY <1>1, <1>2, <1>3
  <2> HIDE DEF min, max
  <2>4. \/ Holds(op, min.val, w)
        \/ Holds(op, max.val, w)
        \/ min.val <= w /\ w <= max.val /\ Holds(op, w, w)
    BY <1>3, <2>1, <2>2, <2>3, TableIsSharp
  <2> QED
    BY <1>3, <2>4
<1> QED
  BY <1>1, <1>2, <1>4
=============================================================================
